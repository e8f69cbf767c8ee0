---------------------------- MODULE RdpSession_proofs ----------------------------
(***************************************************************************)
(* Theorems about module RdpSession, for any number of resizes and of      *)
(* attempts to reconnect.  The invariant IInv is inductive: each conjunct  *)
(* has a lemma that a step keeps it, with one case per action.             *)
(***************************************************************************)
EXTENDS RdpSession, SequenceTheorems, TLAPS

(* The types of the records. *)

ReqType == [ui : UiObjects \cup {NoUi}, next : ThreadStates]

UiType == [queue : Seq(UiObjects), serving : UiObjects \cup {NoUi},
           handler : BOOLEAN, live : BOOLEAN, answered : BOOLEAN]

RfiType == [connected : BOOLEAN, reconnecting : BOOLEAN, stop : BOOLEAN,
            retry : BOOLEAN, cancelled : BOOLEAN, event : BOOLEAN,
            abort : BOOLEAN, attempts : 0 .. MaxAttempts + 1]

GpType == [error : BOOLEAN, opened : BOOLEAN]

ScalarTypes ==
    /\ data \in BOOLEAN /\ closes \in Nat
    /\ main \in {"loop", "orphaning", "pushing"}
    /\ cleanup \in BOOLEAN /\ freed \in Nat
    /\ surf \in 0 .. MaxResizes + 1 /\ buf \in 0 .. MaxResizes + 1
    /\ asked \in BOOLEAN /\ orphan \in BOOLEAN /\ midscale \in BOOLEAN
    /\ fault \in BOOLEAN

(* TypeOK with the types of the records named. *)
LEMMA TypeParts ==
    TypeOK <=> /\ pc \in ThreadStates /\ req \in ReqType /\ ui \in UiType
               /\ rfi \in RfiType /\ gp \in GpType /\ ScalarTypes
BY DEF TypeOK, ReqType, UiType, RfiType, GpType, ScalarTypes

(* The thread waits for three kinds of UI objects, and for no other. *)
LEMMA SyncType ==
    \A u \in UiObjects \cup {NoUi} :
        u.sync \in BOOLEAN /\ (u.sync <=> u.type \in {"formats", "destroy", "scale"})
<1>1. \A u \in [type : {"connected", "update", "progress"}, sync : {FALSE}] :
           u.sync = FALSE /\ u.type \notin {"formats", "destroy", "scale"}
  OBVIOUS
<1>2. \A u \in [type : {"formats", "destroy", "scale"}, sync : {TRUE}] :
           u.sync = TRUE /\ u.type \in {"formats", "destroy", "scale"}
  OBVIOUS
<1>3. NoUi.sync = FALSE /\ NoUi.type \notin {"formats", "destroy", "scale"}
  BY DEF NoUi
<1> QED
  BY <1>1, <1>2, <1>3 DEF UiObjects

(* The elements of a sequence after an Append, and after the head is taken. *)
LEMMA AppendElements ==
    ASSUME NEW S, NEW s \in Seq(S), NEW e \in S
    PROVE  /\ Append(s, e) # <<>>
           /\ Len(Append(s, e)) = Len(s) + 1
           /\ \A i \in DOMAIN Append(s, e) :
                 \/ i = Len(s) + 1 /\ Append(s, e)[i] = e
                 \/ i \in DOMAIN s /\ Append(s, e)[i] = s[i]
           /\ \A i \in DOMAIN s : i \in DOMAIN Append(s, e) /\ Append(s, e)[i] = s[i]
           /\ Len(s) + 1 \in DOMAIN Append(s, e) /\ Append(s, e)[Len(s) + 1] = e
OBVIOUS

LEMMA TailElements ==
    ASSUME NEW S, NEW s \in Seq(S), s # <<>>
    PROVE  /\ Head(s) = s[1] /\ 1 \in DOMAIN s
           /\ Len(Tail(s)) = Len(s) - 1
           /\ \A i \in DOMAIN Tail(s) :
                 i \in Nat \ {0} /\ i + 1 \in DOMAIN s /\ Tail(s)[i] = s[i + 1]
OBVIOUS

(* What the thread asks for is a UI object. *)
LEMMA AskType ==
    ASSUME NEW type, NEW sync, NEW next \in ThreadStates,
           \/ type \in {"connected", "update", "progress"} /\ sync = FALSE
           \/ type \in {"formats", "destroy", "scale"} /\ sync = TRUE,
           Ask(type, sync, next)
    PROVE  pc' \in ThreadStates /\ req' \in ReqType
<1>1. [type |-> type, sync |-> sync] \in UiObjects
  BY DEF UiObjects
<1> QED
  BY <1>1 DEF Ask, ReqType, ThreadStates

(* A thread that goes on keeps its last request. *)
LEMMA GotoType ==
    ASSUME NEW next \in ThreadStates, req \in ReqType, Goto(next)
    PROVE  pc' \in ThreadStates /\ req' \in ReqType
BY DEF Goto

\* Typing: the thread and its request
LEMMA ThreadTypeStep ==
    IInv /\ [Next]_vars => (pc \in ThreadStates /\ req \in ReqType)'
<1> SUFFICES ASSUME IInv, [Next]_vars PROVE (pc \in ThreadStates /\ req \in ReqType)'
  OBVIOUS
<1>1. CASE Post
  BY <1>1, TypeParts DEF Post, IInv, ThreadStates, ReqType, Goto
<1>2. CASE Push
  BY <1>2, TypeParts DEF Push, IInv, ThreadStates, ReqType, Goto
<1>3. CASE Wake
  BY <1>3, TypeParts DEF Wake, IInv, ThreadStates, ReqType, Goto
<1>4. CASE Open
  BY <1>4, TypeParts DEF Open, IInv, ThreadStates, Goto
<1>5. CASE Main
  BY <1>5, TypeParts DEF Main, IInv, ThreadStates, Goto
<1>6. CASE Tunnel
  BY <1>6, TypeParts DEF Tunnel, IInv, ThreadStates, Goto
<1>7. CASE ConnectFails
  BY <1>7, TypeParts DEF ConnectFails, IInv, ThreadStates, Goto
<1>8. CASE PostConnectFails
  BY <1>8, TypeParts DEF PostConnectFails, IInv, ThreadStates, Goto
<1>9. CASE PostConnect
  <2>1. Ask("connected", FALSE, "posted")
    BY <1>9 DEF PostConnect
  <2> QED
    BY <2>1, AskType DEF ThreadStates
<1>10. CASE Posted
  BY <1>10, TypeParts DEF Posted, IInv, ThreadStates, Goto
<1>11. CASE Enter
  BY <1>11, TypeParts DEF Enter, IInv, ThreadStates, Goto
<1>12. CASE Again
  BY <1>12, TypeParts DEF Again, IInv, ThreadStates, Goto
<1>13. CASE Loop
  BY <1>13, TypeParts DEF Loop, IInv, ThreadStates, Goto
<1>14. CASE Check
  <2>1. CASE Ask("update", FALSE, "loop")
    BY <2>1, AskType DEF ThreadStates
  <2>2. CASE Ask("formats", TRUE, "loop")
    BY <2>2, AskType DEF ThreadStates
  <2>3. CASE Goto("loop")
    BY <2>3, TypeParts, GotoType DEF IInv, ThreadStates
  <2> QED
    BY <1>14, <2>1, <2>2, <2>3 DEF Check
<1>15. CASE Resize
  <2>1. Ask("destroy", TRUE, "resize")
    BY <1>15 DEF Resize
  <2> QED
    BY <2>1, AskType DEF ThreadStates
<1>16. CASE GdiResize
  <2>1. Ask("scale", TRUE, "loop")
    BY <1>16 DEF GdiResize
  <2> QED
    BY <2>1, AskType DEF ThreadStates
<1>17. CASE NetworkLost
  BY <1>17, TypeParts DEF NetworkLost, IInv, ThreadStates, Goto
<1>18. CASE Lost
  <2>1. CASE Ask("progress", FALSE, "try")
    BY <2>1, AskType DEF ThreadStates
  <2>2. CASE Goto("disconnect")
    BY <2>2, TypeParts, GotoType DEF IInv, ThreadStates
  <2> QED
    BY <1>18, <2>1, <2>2 DEF Lost
<1>19. CASE Try
  <2>1. CASE Ask("progress", FALSE, "attempt")
    BY <2>1, AskType DEF ThreadStates
  <2>2. CASE Goto("disconnect")
    BY <2>2, TypeParts, GotoType DEF IInv, ThreadStates
  <2> QED
    BY <1>19, <2>1, <2>2 DEF Try
<1>20. CASE Attempt
  BY <1>20, TypeParts DEF Attempt, IInv, ThreadStates, Goto
<1>21. CASE Disconnect
  BY <1>21, TypeParts DEF Disconnect, IInv, ThreadStates, Goto
<1>22. CASE Serve
  BY <1>22, TypeParts DEF Serve, IInv
<1>23. CASE Served
  BY <1>23, TypeParts DEF Served, IInv
<1>24. CASE Scale
  BY <1>24, TypeParts DEF Scale, IInv
<1>25. CASE Close
  BY <1>25, TypeParts DEF Close, IInv
<1>26. CASE Orphan
  BY <1>26, TypeParts DEF Orphan, IInv
<1>27. CASE PushDisconnect
  BY <1>27, TypeParts DEF PushDisconnect, IInv
<1>28. CASE Cleanup
  BY <1>28, TypeParts DEF Cleanup, IInv
<1>29. CASE UNCHANGED vars
  BY <1>29, TypeParts DEF vars, IInv
<1> QED
  BY <1>1, <1>2, <1>3, <1>4, <1>5, <1>6, <1>7, <1>8, <1>9, <1>10, <1>11, <1>12,
     <1>13, <1>14, <1>15, <1>16, <1>17, <1>18, <1>19, <1>20, <1>21, <1>22, <1>23,
     <1>24, <1>25, <1>26, <1>27, <1>28, <1>29 DEF Next, Thread, MainThread, User

\* Typing: the UI queue
LEMMA UiTypeStep ==
    IInv /\ [Next]_vars => (ui \in UiType)'
<1> SUFFICES ASSUME IInv, [Next]_vars PROVE (ui \in UiType)'
  OBVIOUS
<1>1. CASE Post
  BY <1>1, TypeParts DEF Post, IInv
<1>2. CASE Push
  <2>1. req.ui \in UiObjects
    BY <1>2, TypeParts DEF IInv, ReqInv, Push, Asking, ReqType
  <2>2. Append(ui.queue, req.ui) \in Seq(UiObjects)
    BY <2>1, TypeParts DEF IInv, UiType
  <2> QED
    BY <1>2, <2>2, TypeParts DEF IInv, UiType, Push
<1>3. CASE Wake
  BY <1>3, TypeParts DEF Wake, IInv
<1>4. CASE Open
  BY <1>4, TypeParts DEF Open, IInv
<1>5. CASE Main
  BY <1>5, TypeParts DEF Main, IInv
<1>6. CASE Tunnel
  BY <1>6, TypeParts DEF Tunnel, IInv
<1>7. CASE ConnectFails
  BY <1>7, TypeParts DEF ConnectFails, IInv
<1>8. CASE PostConnectFails
  BY <1>8, TypeParts DEF PostConnectFails, IInv
<1>9. CASE PostConnect
  BY <1>9, TypeParts DEF PostConnect, IInv
<1>10. CASE Posted
  BY <1>10, TypeParts DEF Posted, IInv
<1>11. CASE Enter
  BY <1>11, TypeParts DEF Enter, IInv
<1>12. CASE Again
  BY <1>12, TypeParts DEF Again, IInv
<1>13. CASE Loop
  BY <1>13, TypeParts DEF Loop, IInv
<1>14. CASE Check
  BY <1>14, TypeParts DEF Check, IInv
<1>15. CASE Resize
  BY <1>15, TypeParts DEF Resize, IInv
<1>16. CASE GdiResize
  BY <1>16, TypeParts DEF GdiResize, IInv
<1>17. CASE NetworkLost
  BY <1>17, TypeParts DEF NetworkLost, IInv
<1>18. CASE Lost
  BY <1>18, TypeParts DEF Lost, IInv
<1>19. CASE Try
  BY <1>19, TypeParts DEF Try, IInv
<1>20. CASE Attempt
  BY <1>20, TypeParts DEF Attempt, IInv
<1>21. CASE Disconnect
  BY <1>21, TypeParts DEF Disconnect, IInv
<1>22. CASE Serve
  <2>1. ui.queue \in Seq(UiObjects)
    BY TypeParts DEF IInv, UiType
  <2>2. ui.queue # <<>> => Tail(ui.queue) \in Seq(UiObjects) /\ Head(ui.queue) \in UiObjects
    BY <2>1
  <2> QED
    BY <1>22, <2>2, TypeParts DEF IInv, UiType, Serve
<1>23. CASE Served
  <2>1. ui.serving.sync \in BOOLEAN
    BY TypeParts, SyncType DEF IInv, UiType
  <2> QED
    BY <1>23, <2>1, TypeParts DEF IInv, UiType, Served
<1>24. CASE Scale
  BY <1>24, TypeParts DEF Scale, IInv
<1>25. CASE Close
  BY <1>25, TypeParts DEF Close, IInv
<1>26. CASE Orphan
  <2>1. <<>> \in Seq(UiObjects)
    OBVIOUS
  <2> QED
    BY <1>26, <2>1, TypeParts DEF IInv, UiType, Orphan, Uninit
<1>27. CASE PushDisconnect
  BY <1>27, TypeParts DEF PushDisconnect, IInv
<1>28. CASE Cleanup
  <2>1. <<>> \in Seq(UiObjects)
    OBVIOUS
  <2> QED
    BY <1>28, <2>1, TypeParts DEF IInv, UiType, Cleanup, Uninit
<1>29. CASE UNCHANGED vars
  BY <1>29, TypeParts DEF vars, IInv
<1> QED
  BY <1>1, <1>2, <1>3, <1>4, <1>5, <1>6, <1>7, <1>8, <1>9, <1>10, <1>11, <1>12,
     <1>13, <1>14, <1>15, <1>16, <1>17, <1>18, <1>19, <1>20, <1>21, <1>22, <1>23,
     <1>24, <1>25, <1>26, <1>27, <1>28, <1>29 DEF Next, Thread, MainThread, User

\* Typing: the fields of the session and of the widget
LEMMA FieldTypeStep ==
    IInv /\ [Next]_vars => (rfi \in RfiType /\ gp \in GpType)'
<1> SUFFICES ASSUME IInv, [Next]_vars PROVE (rfi \in RfiType /\ gp \in GpType)'
  OBVIOUS
<1>1. CASE Post
  BY <1>1, TypeParts DEF Post, IInv
<1>2. CASE Push
  BY <1>2, TypeParts DEF Push, IInv
<1>3. CASE Wake
  BY <1>3, TypeParts DEF Wake, IInv
<1>4. CASE Open
  BY <1>4, TypeParts DEF Open, IInv, RfiType, GpType
<1>5. CASE Main
  BY <1>5, TypeParts DEF Main, IInv
<1>6. CASE Tunnel
  BY <1>6, TypeParts DEF Tunnel, IInv, GpType
<1>7. CASE ConnectFails
  BY <1>7, TypeParts DEF ConnectFails, IInv, RfiType, GpType
<1>8. CASE PostConnectFails
  BY <1>8, TypeParts DEF PostConnectFails, IInv, RfiType, GpType
<1>9. CASE PostConnect
  BY <1>9, TypeParts DEF PostConnect, IInv, RfiType, GpType
<1>10. CASE Posted
  BY <1>10, TypeParts DEF Posted, IInv, RfiType, GpType
<1>11. CASE Enter
  BY <1>11, TypeParts DEF Enter, IInv
<1>12. CASE Again
  BY <1>12, TypeParts DEF Again, IInv
<1>13. CASE Loop
  BY <1>13, TypeParts DEF Loop, IInv, RfiType, GpType
<1>14. CASE Check
  BY <1>14, TypeParts DEF Check, IInv
<1>15. CASE Resize
  BY <1>15, TypeParts DEF Resize, IInv
<1>16. CASE GdiResize
  BY <1>16, TypeParts DEF GdiResize, IInv
<1>17. CASE NetworkLost
  BY <1>17, TypeParts DEF NetworkLost, IInv, RfiType, GpType
<1>18. CASE Lost
  <2>1. 0 \in 0 .. MaxAttempts + 1
    BY SessionAssumption
  <2> QED
    BY <1>18, <2>1, TypeParts DEF IInv, RfiType, Lost
<1>19. CASE Try
  <2>1. rfi.attempts \in 0 .. MaxAttempts
    BY <1>19, TypeParts, SessionAssumption DEF IInv, RfiType, Try, PhaseInv
  <2>2. rfi.attempts + 1 \in 0 .. MaxAttempts + 1
    BY <2>1, SessionAssumption
  <2> QED
    BY <1>19, <2>2, TypeParts DEF IInv, RfiType, Try
<1>20. CASE Attempt
  BY <1>20, TypeParts DEF Attempt, IInv, RfiType, GpType
<1>21. CASE Disconnect
  BY <1>21, TypeParts DEF Disconnect, IInv
<1>22. CASE Serve
  BY <1>22, TypeParts DEF Serve, IInv
<1>23. CASE Served
  BY <1>23, TypeParts DEF Served, IInv, RfiType, GpType
<1>24. CASE Scale
  BY <1>24, TypeParts DEF Scale, IInv
<1>25. CASE Close
  BY <1>25, TypeParts DEF Close, IInv, RfiType
<1>26. CASE Orphan
  BY <1>26, TypeParts DEF Orphan, IInv, RfiType, GpType
<1>27. CASE PushDisconnect
  BY <1>27, TypeParts DEF PushDisconnect, IInv, RfiType
<1>28. CASE Cleanup
  BY <1>28, TypeParts DEF Cleanup, IInv
<1>29. CASE UNCHANGED vars
  BY <1>29, TypeParts DEF vars, IInv
<1> QED
  BY <1>1, <1>2, <1>3, <1>4, <1>5, <1>6, <1>7, <1>8, <1>9, <1>10, <1>11, <1>12,
     <1>13, <1>14, <1>15, <1>16, <1>17, <1>18, <1>19, <1>20, <1>21, <1>22, <1>23,
     <1>24, <1>25, <1>26, <1>27, <1>28, <1>29 DEF Next, Thread, MainThread, User

\* Typing: the rest; the bound of buffers holds through a resize.
LEMMA ScalarTypeStep ==
    IInv /\ [Next]_vars => ScalarTypes'
<1> SUFFICES ASSUME IInv, [Next]_vars PROVE ScalarTypes'
  OBVIOUS
<1>1. CASE Post
  BY <1>1, TypeParts DEF Post, IInv, ScalarTypes, sessionVars, screenVars
<1>2. CASE Push
  BY <1>2, TypeParts DEF Push, IInv, ScalarTypes, sessionVars, screenVars
<1>3. CASE Wake
  BY <1>3, TypeParts DEF Wake, IInv, ScalarTypes, sessionVars, screenVars
<1>4. CASE Open
  BY <1>4, TypeParts, SessionAssumption DEF Open, IInv, ScalarTypes, sessionVars,
     screenVars
<1>5. CASE Main
  BY <1>5, TypeParts DEF Main, IInv, ScalarTypes, sessionVars, screenVars
<1>6. CASE Tunnel
  BY <1>6, TypeParts, SessionAssumption DEF Tunnel, IInv, ScalarTypes, sessionVars,
     screenVars
<1>7. CASE ConnectFails
  BY <1>7, TypeParts DEF ConnectFails, IInv, ScalarTypes, sessionVars, screenVars
<1>8. CASE PostConnectFails
  BY <1>8, TypeParts DEF PostConnectFails, IInv, ScalarTypes, sessionVars,
     screenVars
<1>9. CASE PostConnect
  BY <1>9, TypeParts, SessionAssumption DEF PostConnect, IInv, ScalarTypes,
     sessionVars
<1>10. CASE Posted
  BY <1>10, TypeParts DEF Posted, IInv, ScalarTypes, sessionVars, screenVars
<1>11. CASE Enter
  BY <1>11, TypeParts DEF Enter, IInv, ScalarTypes, sessionVars, screenVars
<1>12. CASE Again
  BY <1>12, TypeParts, SessionAssumption DEF Again, IInv, ScalarTypes, screenVars
<1>13. CASE Loop
  BY <1>13, TypeParts DEF Loop, IInv, ScalarTypes, sessionVars, screenVars
<1>14. CASE Check
  BY <1>14, TypeParts DEF Check, IInv, ScalarTypes, sessionVars, screenVars
<1>15. CASE Resize
  BY <1>15, TypeParts DEF Resize, IInv, ScalarTypes, sessionVars, screenVars
<1>16. CASE GdiResize
  BY <1>16, TypeParts, SessionAssumption DEF GdiResize, IInv, ScalarTypes, PhaseInv,
     sessionVars
<1>17. CASE NetworkLost
  BY <1>17, TypeParts DEF NetworkLost, IInv, ScalarTypes, sessionVars, screenVars
<1>18. CASE Lost
  BY <1>18, TypeParts DEF Lost, IInv, ScalarTypes, sessionVars, screenVars
<1>19. CASE Try
  BY <1>19, TypeParts DEF Try, IInv, ScalarTypes, sessionVars, screenVars
<1>20. CASE Attempt
  BY <1>20, TypeParts, SessionAssumption DEF Attempt, IInv, ScalarTypes,
     sessionVars, screenVars
<1>21. CASE Disconnect
  BY <1>21, TypeParts DEF Disconnect, IInv, ScalarTypes, sessionVars, screenVars
<1>22. CASE Serve
  BY <1>22, TypeParts DEF Serve, IInv, ScalarTypes, sessionVars, screenVars
<1>23. CASE Served
  BY <1>23, TypeParts, SessionAssumption DEF Served, IInv, ScalarTypes, sessionVars
<1>24. CASE Scale
  BY <1>24, TypeParts DEF Scale, IInv, ScalarTypes, sessionVars
<1>25. CASE Close
  BY <1>25, TypeParts DEF Close, IInv, ScalarTypes, sessionVars, screenVars
<1>26. CASE Orphan
  <2>1. data' \in BOOLEAN /\ orphan' \in BOOLEAN
    BY <1>26 DEF Orphan
  <2> QED
    BY <1>26, <2>1, TypeParts, SessionAssumption DEF IInv, ScalarTypes, Orphan, Uninit
<1>27. CASE PushDisconnect
  BY <1>27, TypeParts DEF PushDisconnect, IInv, ScalarTypes, sessionVars, screenVars
<1>28. CASE Cleanup
  <2>1. data' \in BOOLEAN /\ cleanup' \in BOOLEAN
    BY <1>28 DEF Cleanup
  <2> QED
    BY <1>28, <2>1, TypeParts, SessionAssumption DEF IInv, ScalarTypes, Cleanup, Uninit
<1>29. CASE UNCHANGED vars
  BY <1>29, TypeParts DEF vars, IInv, ScalarTypes, sessionVars, screenVars
<1> QED
  BY <1>1, <1>2, <1>3, <1>4, <1>5, <1>6, <1>7, <1>8, <1>9, <1>10, <1>11, <1>12,
     <1>13, <1>14, <1>15, <1>16, <1>17, <1>18, <1>19, <1>20, <1>21, <1>22, <1>23,
     <1>24, <1>25, <1>26, <1>27, <1>28, <1>29 DEF Next, Thread, MainThread, User

\* Where the thread goes on after its request
LEMMA ReqStep ==
    IInv /\ [Next]_vars => ReqInv'
<1> SUFFICES ASSUME IInv, [Next]_vars PROVE ReqInv'
  OBVIOUS
<1>1. CASE Post
  BY <1>1 DEF Post, IInv, ReqInv, Asking, Goto
<1>2. CASE Push
  BY <1>2 DEF Push, IInv, ReqInv, Asking, Goto
<1>3. CASE Wake
  BY <1>3 DEF Wake, IInv, ReqInv, Asking, Goto
<1>4. CASE Open
  BY <1>4 DEF Open, IInv, ReqInv, Asking, Goto
<1>5. CASE Main
  BY <1>5 DEF Main, IInv, ReqInv, Asking, Goto
<1>6. CASE Tunnel
  BY <1>6 DEF Tunnel, IInv, ReqInv, Asking, Goto
<1>7. CASE ConnectFails
  BY <1>7 DEF ConnectFails, IInv, ReqInv, Asking, Goto
<1>8. CASE PostConnectFails
  BY <1>8 DEF PostConnectFails, IInv, ReqInv, Asking, Goto
<1>9. CASE PostConnect
  BY <1>9 DEF PostConnect, IInv, ReqInv, Ask, NoUi
<1>10. CASE Posted
  BY <1>10 DEF Posted, IInv, ReqInv, Asking, Goto
<1>11. CASE Enter
  BY <1>11 DEF Enter, IInv, ReqInv, Asking, Goto
<1>12. CASE Again
  BY <1>12 DEF Again, IInv, ReqInv, Asking, Goto
<1>13. CASE Loop
  BY <1>13 DEF Loop, IInv, ReqInv, Asking, Goto
<1>14. CASE Check
  BY <1>14 DEF Check, IInv, ReqInv, Asking, Ask, Goto, NoUi
<1>15. CASE Resize
  BY <1>15 DEF Resize, IInv, ReqInv, Ask, NoUi
<1>16. CASE GdiResize
  BY <1>16 DEF GdiResize, IInv, ReqInv, Ask, NoUi
<1>17. CASE NetworkLost
  BY <1>17 DEF NetworkLost, IInv, ReqInv, Asking, Goto
<1>18. CASE Lost
  BY <1>18 DEF Lost, IInv, ReqInv, Asking, Ask, Goto, NoUi
<1>19. CASE Try
  BY <1>19 DEF Try, IInv, ReqInv, Asking, Ask, Goto, NoUi
<1>20. CASE Attempt
  BY <1>20 DEF Attempt, IInv, ReqInv, Asking, Goto
<1>21. CASE Disconnect
  BY <1>21 DEF Disconnect, IInv, ReqInv, Asking, Goto
<1>22. CASE Serve
  BY <1>22 DEF Serve, IInv, ReqInv, Asking
<1>23. CASE Served
  BY <1>23 DEF Served, IInv, ReqInv, Asking
<1>24. CASE Scale
  BY <1>24 DEF Scale, IInv, ReqInv, Asking
<1>25. CASE Close
  BY <1>25 DEF Close, IInv, ReqInv, Asking
<1>26. CASE Orphan
  BY <1>26 DEF Orphan, IInv, ReqInv, Asking
<1>27. CASE PushDisconnect
  BY <1>27 DEF PushDisconnect, IInv, ReqInv, Asking
<1>28. CASE Cleanup
  BY <1>28 DEF Cleanup, IInv, ReqInv, Asking
<1>29. CASE UNCHANGED vars
  BY <1>29 DEF vars, IInv, ReqInv, Asking
<1> QED
  BY <1>1, <1>2, <1>3, <1>4, <1>5, <1>6, <1>7, <1>8, <1>9, <1>10, <1>11, <1>12,
     <1>13, <1>14, <1>15, <1>16, <1>17, <1>18, <1>19, <1>20, <1>21, <1>22, <1>23,
     <1>24, <1>25, <1>26, <1>27, <1>28, <1>29 DEF Next, Thread, MainThread, User

\* A session is connected once; the attempts are counted.
LEMMA PhaseStep ==
    IInv /\ [Next]_vars => PhaseInv'
<1> SUFFICES ASSUME IInv, [Next]_vars PROVE PhaseInv'
  OBVIOUS
<1>1. CASE Post
  BY <1>1 DEF Post, IInv, PhaseInv, ReqInv, Up, Asking, Goto, screenVars
<1>2. CASE Push
  BY <1>2 DEF Push, IInv, PhaseInv, ReqInv, Up, Asking, Goto, screenVars
<1>3. CASE Wake
  BY <1>3 DEF Wake, IInv, PhaseInv, ReqInv, Up, Asking, Goto, screenVars
<1>4. CASE Open
  BY <1>4 DEF Open, IInv, PhaseInv, Up, Asking, Goto
<1>5. CASE Main
  BY <1>5 DEF Main, IInv, PhaseInv, Up, Asking, Goto
<1>6. CASE Tunnel
  BY <1>6 DEF Tunnel, IInv, PhaseInv, Up, Asking, Goto
<1>7. CASE ConnectFails
  BY <1>7 DEF ConnectFails, IInv, PhaseInv, Up, Asking, Goto, TypeOK
<1>8. CASE PostConnectFails
  BY <1>8 DEF PostConnectFails, IInv, PhaseInv, Up, Asking, Goto
<1>9. CASE PostConnect
  BY <1>9 DEF PostConnect, IInv, PhaseInv, Ask
<1>10. CASE Posted
  BY <1>10 DEF Posted, IInv, PhaseInv, Up, Asking, Goto
<1>11. CASE Enter
  BY <1>11 DEF Enter, IInv, PhaseInv, Up, Asking, Goto
<1>12. CASE Again
  BY <1>12, SessionAssumption DEF Again, IInv, PhaseInv, Up, Asking, Goto, TypeOK
<1>13. CASE Loop
  BY <1>13, SessionAssumption DEF Loop, IInv, PhaseInv, LifeInv, Up, Asking, Goto,
     TypeOK, sessionVars, screenVars
<1>14. CASE Check
  BY <1>14 DEF Check, IInv, PhaseInv, Up, Asking, Ask, Goto
<1>15. CASE Resize
  BY <1>15 DEF Resize, IInv, PhaseInv, Up, Ask, screenVars
<1>16. CASE GdiResize
  BY <1>16 DEF GdiResize, IInv, PhaseInv, Up, Ask
<1>17. CASE NetworkLost
  BY <1>17 DEF NetworkLost, IInv, PhaseInv, Up, Asking, Goto
<1>18. CASE Lost
  <2>1. /\ rfi.connected /\ ~rfi.retry
        /\ rfi'.connected = rfi.connected /\ rfi'.retry = rfi.retry
    BY <1>18, TypeParts DEF IInv, PhaseInv, Up, Lost, RfiType
  <2>2. rfi'.attempts = 0
    BY <1>18, TypeParts DEF IInv, Lost, RfiType
  <2>3. \/ pc' = "post" /\ req'.next = "try"
        \/ pc' = "disconnect"
    BY <1>18 DEF Lost, Ask, Goto
  <2> QED
    BY <2>1, <2>2, <2>3, SessionAssumption DEF PhaseInv, Up, Asking
<1>19. CASE Try
  <2>1. /\ rfi.connected /\ ~rfi.retry
        /\ rfi'.connected = rfi.connected /\ rfi'.retry = rfi.retry
    BY <1>19, TypeParts DEF IInv, PhaseInv, Up, Try, RfiType
  <2>4. rfi.attempts \in 0 .. MaxAttempts
    BY <1>19, TypeParts, SessionAssumption DEF IInv, PhaseInv, Try, RfiType
  <2>5. rfi'.attempts = rfi.attempts + 1
    BY <1>19, TypeParts DEF IInv, Try, RfiType
  <2>2. rfi.attempts \in 0 .. MaxAttempts /\ rfi'.attempts = rfi.attempts + 1
    BY <2>4, <2>5
  <2>3. \/ pc' = "post" /\ req'.next = "attempt" /\ rfi.attempts < MaxAttempts
        \/ pc' = "disconnect"
    BY <1>19, <2>2, SessionAssumption DEF Try, Ask, Goto
  <2> QED
    BY <2>1, <2>2, <2>3, SessionAssumption DEF PhaseInv, Up, Asking
<1>20. CASE Attempt
  BY <1>20 DEF Attempt, IInv, PhaseInv, Up, Asking, Goto, TypeOK, sessionVars
<1>21. CASE Disconnect
  BY <1>21 DEF Disconnect, IInv, PhaseInv, Up, Asking, Goto
<1>22. CASE Serve
  BY <1>22 DEF Serve, IInv, PhaseInv, Up, Asking, screenVars
<1>23. CASE Served
  BY <1>23 DEF Served, IInv, PhaseInv, Up, Asking
<1>24. CASE Scale
  BY <1>24 DEF Scale, IInv, PhaseInv, Up, Asking
<1>25. CASE Close
  BY <1>25 DEF Close, IInv, PhaseInv, Up, Asking, screenVars
<1>26. CASE Orphan
  BY <1>26 DEF Orphan, IInv, PhaseInv, Up, Asking
<1>27. CASE PushDisconnect
  BY <1>27 DEF PushDisconnect, IInv, PhaseInv, Up, Asking, screenVars
<1>28. CASE Cleanup
  BY <1>28, SessionAssumption DEF Cleanup, IInv, PhaseInv, Up, Asking
<1>29. CASE UNCHANGED vars
  BY <1>29 DEF vars, IInv, PhaseInv, Up, Asking, screenVars
<1> QED
  BY <1>1, <1>2, <1>3, <1>4, <1>5, <1>6, <1>7, <1>8, <1>9, <1>10, <1>11, <1>12,
     <1>13, <1>14, <1>15, <1>16, <1>17, <1>18, <1>19, <1>20, <1>21, <1>22, <1>23,
     <1>24, <1>25, <1>26, <1>27, <1>28, <1>29 DEF Next, Thread, MainThread, User

\* Closed once, freed once
LEMMA LifeStep ==
    IInv /\ [Next]_vars => LifeInv'
<1> SUFFICES ASSUME IInv, [Next]_vars PROVE LifeInv'
  OBVIOUS
<1>1. CASE Post
  BY <1>1 DEF Post, IInv, LifeInv, ReqInv, Asking, TypeOK, Goto, sessionVars, screenVars
<1>2. CASE Push
  BY <1>2 DEF Push, IInv, LifeInv, ReqInv, Asking, TypeOK, Goto, sessionVars, screenVars
<1>3. CASE Wake
  BY <1>3 DEF Wake, IInv, LifeInv, ReqInv, Asking, TypeOK, Goto, sessionVars, screenVars
<1>4. CASE Open
  BY <1>4 DEF Open, IInv, LifeInv, Goto, sessionVars
<1>5. CASE Main
  BY <1>5 DEF Main, IInv, LifeInv, Goto, sessionVars
<1>6. CASE Tunnel
  BY <1>6 DEF Tunnel, IInv, LifeInv, Goto, sessionVars
<1>7. CASE ConnectFails
  BY <1>7 DEF ConnectFails, IInv, LifeInv, Goto, sessionVars
<1>8. CASE PostConnectFails
  BY <1>8 DEF PostConnectFails, IInv, LifeInv, Goto, sessionVars
<1>9. CASE PostConnect
  BY <1>9 DEF PostConnect, IInv, LifeInv, Ask, sessionVars
<1>10. CASE Posted
  BY <1>10 DEF Posted, IInv, LifeInv, Goto, sessionVars
<1>11. CASE Enter
  BY <1>11 DEF Enter, IInv, LifeInv, Goto, sessionVars
<1>12. CASE Again
  BY <1>12 DEF Again, IInv, LifeInv, TypeOK, Goto
<1>13. CASE Loop
  BY <1>13 DEF Loop, IInv, LifeInv, Goto, sessionVars
<1>14. CASE Check
  BY <1>14 DEF Check, IInv, LifeInv, Goto, Ask, sessionVars
<1>15. CASE Resize
  BY <1>15 DEF Resize, IInv, LifeInv, Ask, sessionVars
<1>16. CASE GdiResize
  BY <1>16 DEF GdiResize, IInv, LifeInv, Ask, sessionVars
<1>17. CASE NetworkLost
  BY <1>17 DEF NetworkLost, IInv, LifeInv, Goto, sessionVars
<1>18. CASE Lost
  BY <1>18 DEF Lost, IInv, LifeInv, Goto, Ask, sessionVars
<1>19. CASE Try
  BY <1>19 DEF Try, IInv, LifeInv, Goto, Ask, sessionVars
<1>20. CASE Attempt
  BY <1>20 DEF Attempt, IInv, LifeInv, Goto, sessionVars
<1>21. CASE Disconnect
  BY <1>21 DEF Disconnect, IInv, LifeInv, Goto, sessionVars
<1>22. CASE Serve
  BY <1>22 DEF Serve, IInv, LifeInv, sessionVars
<1>23. CASE Served
  <2>1. pc # "new"
    BY <1>23 DEF IInv, PhaseInv, QueueInv, Served
  <2> QED
    BY <1>23, <2>1 DEF IInv, LifeInv, TypeOK, Served, sessionVars
<1>24. CASE Scale
  BY <1>24 DEF Scale, IInv, LifeInv, sessionVars
<1>25. CASE Close
  BY <1>25 DEF Close, IInv, LifeInv, sessionVars
<1>26. CASE Orphan
  <2>1. data /\ closes = 0 /\ pc # "new" /\ freed # 1
    BY <1>26 DEF IInv, LifeInv, Orphan
  <2>2. data' = FALSE /\ closes' = 1 /\ orphan' = TRUE /\ main' = "loop"
    BY <1>26, <2>1 DEF Orphan
  <2>3. UNCHANGED <<pc, gp, cleanup, freed>>
    BY <1>26 DEF Orphan
  <2>4. data' <=> closes' = 0
    BY <2>2
  <2>5. freed' <= 1 /\ freed' # 1 /\ ~(pc' = "new")
    BY <2>1, <2>3 DEF IInv, LifeInv
  <2>6. cleanup' => pc' = "over" /\ freed' = 0
    BY <2>3 DEF IInv, LifeInv
  <2> QED
    BY <2>2, <2>4, <2>5, <2>6 DEF LifeInv
<1>27. CASE PushDisconnect
  BY <1>27 DEF PushDisconnect, IInv, LifeInv, sessionVars
<1>28. CASE Cleanup
  <2>1. pc = "over" /\ freed = 0 /\ main = "loop"
    BY <1>28 DEF IInv, LifeInv, Cleanup, Dispatching
  <2>2. closes' = 1
    BY <1>28, <2>1, TypeParts DEF IInv, LifeInv, Cleanup, ScalarTypes
  <2>3. data' = FALSE /\ ~cleanup' /\ freed' = 1
    BY <1>28, <2>1 DEF Cleanup
  <2>4. UNCHANGED <<pc, gp, main, orphan>>
    BY <1>28 DEF Cleanup
  <2>5. data' <=> closes' = 0
    BY <2>2, <2>3
  <2> QED
    BY <2>1, <2>2, <2>3, <2>4, <2>5 DEF LifeInv
<1>29. CASE UNCHANGED vars
  BY <1>29 DEF vars, IInv, LifeInv, sessionVars
<1> QED
  BY <1>1, <1>2, <1>3, <1>4, <1>5, <1>6, <1>7, <1>8, <1>9, <1>10, <1>11, <1>12,
     <1>13, <1>14, <1>15, <1>16, <1>17, <1>18, <1>19, <1>20, <1>21, <1>22, <1>23,
     <1>24, <1>25, <1>26, <1>27, <1>28, <1>29 DEF Next, Thread, MainThread, User

\* The queue lives as long as the widget has the session.
LEMMA HandlerStep ==
    IInv /\ [Next]_vars => HandlerInv'
<1> SUFFICES ASSUME IInv, [Next]_vars PROVE HandlerInv'
  OBVIOUS
<1>1. CASE Post
  BY <1>1 DEF Post, IInv, HandlerInv, sessionVars
<1>2. CASE Push
  BY <1>2 DEF Push, IInv, HandlerInv, LifeInv, Running, sessionVars
<1>3. CASE Wake
  BY <1>3 DEF Wake, IInv, HandlerInv, sessionVars
<1>4. CASE Open
  BY <1>4 DEF Open, IInv, HandlerInv, PhaseInv, QueueInv, NoUi, sessionVars
<1>5. CASE Main
  BY <1>5 DEF Main, IInv, HandlerInv, Running, sessionVars
<1>6. CASE Tunnel
  BY <1>6 DEF Tunnel, IInv, HandlerInv, Running, sessionVars
<1>7. CASE ConnectFails
  BY <1>7 DEF ConnectFails, IInv, HandlerInv, sessionVars
<1>8. CASE PostConnectFails
  BY <1>8 DEF PostConnectFails, IInv, HandlerInv, sessionVars
<1>9. CASE PostConnect
  BY <1>9 DEF PostConnect, IInv, HandlerInv, sessionVars
<1>10. CASE Posted
  BY <1>10 DEF Posted, IInv, HandlerInv, sessionVars
<1>11. CASE Enter
  BY <1>11 DEF Enter, IInv, HandlerInv, Running, sessionVars
<1>12. CASE Again
  BY <1>12 DEF Again, IInv, HandlerInv
<1>13. CASE Loop
  BY <1>13 DEF Loop, IInv, HandlerInv, sessionVars
<1>14. CASE Check
  BY <1>14 DEF Check, IInv, HandlerInv, sessionVars
<1>15. CASE Resize
  BY <1>15 DEF Resize, IInv, HandlerInv, sessionVars
<1>16. CASE GdiResize
  BY <1>16 DEF GdiResize, IInv, HandlerInv, sessionVars
<1>17. CASE NetworkLost
  BY <1>17 DEF NetworkLost, IInv, HandlerInv, sessionVars
<1>18. CASE Lost
  BY <1>18 DEF Lost, IInv, HandlerInv, sessionVars
<1>19. CASE Try
  BY <1>19 DEF Try, IInv, HandlerInv, sessionVars
<1>20. CASE Attempt
  BY <1>20 DEF Attempt, IInv, HandlerInv, Running, sessionVars
<1>21. CASE Disconnect
  BY <1>21 DEF Disconnect, IInv, HandlerInv, sessionVars
<1>22. CASE Serve
  BY <1>22 DEF Serve, IInv, HandlerInv, TypeOK, sessionVars
<1>23. CASE Served
  BY <1>23 DEF Served, IInv, HandlerInv, NoUi, sessionVars
<1>24. CASE Scale
  BY <1>24 DEF Scale, IInv, HandlerInv, sessionVars
<1>25. CASE Close
  BY <1>25 DEF Close, IInv, HandlerInv, Dispatching, sessionVars
<1>26. CASE Orphan
  BY <1>26 DEF Orphan, IInv, HandlerInv, Uninit
<1>27. CASE PushDisconnect
  BY <1>27 DEF PushDisconnect, IInv, HandlerInv, sessionVars
<1>28. CASE Cleanup
  BY <1>28 DEF Cleanup, IInv, HandlerInv, TypeOK, Running, Dispatching, Uninit
<1>29. CASE UNCHANGED vars
  BY <1>29 DEF vars, IInv, HandlerInv, sessionVars
<1> QED
  BY <1>1, <1>2, <1>3, <1>4, <1>5, <1>6, <1>7, <1>8, <1>9, <1>10, <1>11, <1>12,
     <1>13, <1>14, <1>15, <1>16, <1>17, <1>18, <1>19, <1>20, <1>21, <1>22, <1>23,
     <1>24, <1>25, <1>26, <1>27, <1>28, <1>29 DEF Next, Thread, MainThread, User

\* Only an orphan follows a pointer to nothing.
LEMMA FaultStep ==
    IInv /\ [Next]_vars => FaultNeedsOrphan'
<1> SUFFICES ASSUME IInv, [Next]_vars PROVE FaultNeedsOrphan'
  OBVIOUS
<1>1. CASE Post
  BY <1>1 DEF Post, IInv, FaultNeedsOrphan
<1>2. CASE Push
  BY <1>2 DEF Push, IInv, FaultNeedsOrphan, LifeInv, HandlerInv, Asking, Answered,
     Running, Goto, sessionVars, screenVars
<1>3. CASE Wake
  BY <1>3 DEF Wake, IInv, FaultNeedsOrphan
<1>4. CASE Open
  BY <1>4 DEF Open, IInv, FaultNeedsOrphan
<1>5. CASE Main
  BY <1>5 DEF Main, IInv, FaultNeedsOrphan, LifeInv, Asking, Answered, Running,
     Goto, sessionVars, screenVars
<1>6. CASE Tunnel
  BY <1>6 DEF Tunnel, IInv, FaultNeedsOrphan, LifeInv, Asking, Answered, Running,
     Goto, sessionVars, screenVars
<1>7. CASE ConnectFails
  BY <1>7 DEF ConnectFails, IInv, FaultNeedsOrphan
<1>8. CASE PostConnectFails
  BY <1>8 DEF PostConnectFails, IInv, FaultNeedsOrphan
<1>9. CASE PostConnect
  BY <1>9 DEF PostConnect, IInv, FaultNeedsOrphan
<1>10. CASE Posted
  BY <1>10 DEF Posted, IInv, FaultNeedsOrphan
<1>11. CASE Enter
  BY <1>11 DEF Enter, IInv, FaultNeedsOrphan, LifeInv, Asking, Answered, Running,
     Goto, sessionVars, screenVars
<1>12. CASE Again
  BY <1>12 DEF Again, IInv, FaultNeedsOrphan
<1>13. CASE Loop
  BY <1>13 DEF Loop, IInv, FaultNeedsOrphan
<1>14. CASE Check
  BY <1>14 DEF Check, IInv, FaultNeedsOrphan
<1>15. CASE Resize
  BY <1>15 DEF Resize, IInv, FaultNeedsOrphan
<1>16. CASE GdiResize
  BY <1>16 DEF GdiResize, IInv, FaultNeedsOrphan
<1>17. CASE NetworkLost
  BY <1>17 DEF NetworkLost, IInv, FaultNeedsOrphan
<1>18. CASE Lost
  BY <1>18 DEF Lost, IInv, FaultNeedsOrphan
<1>19. CASE Try
  BY <1>19 DEF Try, IInv, FaultNeedsOrphan
<1>20. CASE Attempt
  BY <1>20 DEF Attempt, IInv, FaultNeedsOrphan, LifeInv, Asking, Answered, Running,
     Goto, sessionVars, screenVars
<1>21. CASE Disconnect
  BY <1>21 DEF Disconnect, IInv, FaultNeedsOrphan
<1>22. CASE Serve
  BY <1>22 DEF Serve, IInv, FaultNeedsOrphan, HandlerInv, Asking, Answered, Running,
     sessionVars, screenVars
<1>23. CASE Served
  <2>1. CASE ui.serving.type = "destroy"
    <3>1. data /\ main = "loop"
      BY <1>23, <2>1 DEF IInv, HandlerInv, Served, Running
    <3>2. ui.serving.sync
      BY <2>1, TypeParts, SyncType DEF IInv, UiType
    <3>3. pc = "waiting" /\ req.ui.type = "destroy" /\ ui.queue = <<>>
      BY <2>1, <3>2 DEF IInv, QueueInv
    <3>4. ~Answered /\ ~Coming /\ ~Between
      BY <1>23, <2>1, <3>3 DEF IInv, QueueInv, ReqInv, Asking, Answered, Coming, Between,
                               Resizing, Served
    <3>5. surf # 0
      BY <3>1, <3>3, <3>4 DEF IInv, ScreenInv, Up, Asking
    <3> QED
      BY <1>23, <3>5 DEF Served, FaultNeedsOrphan
  <2>2. CASE ui.serving.type # "destroy"
    BY <1>23, <2>2 DEF Served, FaultNeedsOrphan
  <2> QED
    BY <2>1, <2>2
<1>24. CASE Scale
  BY <1>24 DEF Scale, IInv, FaultNeedsOrphan
<1>25. CASE Close
  BY <1>25 DEF Close, IInv, FaultNeedsOrphan
<1>26. CASE Orphan
  BY <1>26 DEF Orphan, IInv, FaultNeedsOrphan
<1>27. CASE PushDisconnect
  BY <1>27 DEF PushDisconnect, IInv, FaultNeedsOrphan
<1>28. CASE Cleanup
  BY <1>28 DEF Cleanup, IInv, FaultNeedsOrphan
<1>29. CASE UNCHANGED vars
  BY <1>29 DEF vars, IInv, FaultNeedsOrphan
<1> QED
  BY <1>1, <1>2, <1>3, <1>4, <1>5, <1>6, <1>7, <1>8, <1>9, <1>10, <1>11, <1>12,
     <1>13, <1>14, <1>15, <1>16, <1>17, <1>18, <1>19, <1>20, <1>21, <1>22, <1>23,
     <1>24, <1>25, <1>26, <1>27, <1>28, <1>29 DEF Next, Thread, MainThread, User

\* The order of the UI queue
LEMMA QueueStep ==
    IInv /\ [Next]_vars => QueueInv'
<1> SUFFICES ASSUME IInv, [Next]_vars PROVE QueueInv'
  OBVIOUS
<1>1. CASE Post
  BY <1>1 DEF Post, IInv, QueueInv, ReqInv, Asking, Answered, Goto, sessionVars
<1>2. CASE Push
  <2>1. ui.queue \in Seq(UiObjects) /\ req.ui \in UiObjects
    BY <1>2, TypeParts DEF IInv, ReqInv, Asking, Push, UiType, ReqType
  <2>2. /\ ui'.queue = Append(ui.queue, req.ui) /\ ui'.answered = FALSE
        /\ ui'.serving = NoUi /\ ui.serving = NoUi /\ req' = req /\ rfi' = rfi
        /\ pc' = IF req.ui.sync THEN "waiting" ELSE req.next
    BY <1>2, TypeParts DEF IInv, UiType, Push, Goto
  <2>3. \A i \in DOMAIN ui.queue : ~ui.queue[i].sync
    BY <1>2 DEF IInv, QueueInv, Push
  <2>4. /\ rfi.connected /\ (req.ui.type = "connected" => ui.queue = <<>>)
        /\ (req.next = "posted" => req.ui.type = "connected")
        /\ (req.next = "resize" => req.ui.type = "destroy")
        /\ req.next \in {"posted", "loop", "resize", "try", "attempt"}
    BY <1>2 DEF IInv, QueueInv, ReqInv, PhaseInv, Up, Asking, Push
  <2>5. req.ui.sync <=> req.ui.type \in {"formats", "destroy", "scale"}
    BY <2>1, SyncType
  <2>6. ~ui'.serving.sync /\ ~Answered'
    BY <2>2 DEF NoUi, Answered
  <2>7. ~(pc' = "resize") /\ ~(Asking' /\ req'.next = "posted")
    BY <2>2, <2>4, <2>5 DEF Asking
  <2>8. ASSUME NEW i \in DOMAIN ui'.queue
        PROVE  /\ ui'.queue[i].type = "connected" => i = 1
               /\ ui'.queue[i].sync => i = Len(ui'.queue) /\ pc' = "waiting"
                                         /\ ui'.queue[i] = req'.ui
    <3>1. CASE i = Len(ui.queue) + 1 /\ ui'.queue[i] = req.ui
      BY <2>1, <2>2, <2>4, <3>1, AppendElements
    <3>2. CASE i \in DOMAIN ui.queue /\ ui'.queue[i] = ui.queue[i]
      BY <2>3, <3>2 DEF IInv, QueueInv
    <3> QED
      BY <2>1, <2>2, <3>1, <3>2, AppendElements
  <2> QED
    BY <2>2, <2>4, <2>6, <2>7, <2>8 DEF QueueInv
<1>3. CASE Wake
  BY <1>3 DEF Wake, IInv, QueueInv, ReqInv, Asking, Answered
<1>4. CASE Open
  BY <1>4 DEF Open, IInv, QueueInv, Asking, Answered, Goto
<1>5. CASE Main
  BY <1>5 DEF Main, IInv, QueueInv, Asking, Answered, Goto
<1>6. CASE Tunnel
  BY <1>6 DEF Tunnel, IInv, QueueInv, Asking, Answered, Goto
<1>7. CASE ConnectFails
  BY <1>7 DEF ConnectFails, IInv, QueueInv, Asking, Answered, TypeOK, Goto
<1>8. CASE PostConnectFails
  BY <1>8 DEF PostConnectFails, IInv, QueueInv, Asking, Answered, Goto
<1>9. CASE PostConnect
  BY <1>9 DEF PostConnect, IInv, QueueInv, PhaseInv
<1>10. CASE Posted
  BY <1>10 DEF Posted, IInv, QueueInv, Asking, Answered, Goto
<1>11. CASE Enter
  BY <1>11 DEF Enter, IInv, QueueInv, Asking, Answered, Goto
<1>12. CASE Again
  BY <1>12 DEF Again, IInv, QueueInv, Asking, Answered, Goto
<1>13. CASE Loop
  BY <1>13 DEF Loop, IInv, QueueInv, Asking, Answered, TypeOK, Running, Goto,
     sessionVars
<1>14. CASE Check
  BY <1>14 DEF Check, IInv, QueueInv, Asking, Answered, Goto, Ask
<1>15. CASE Resize
  BY <1>15 DEF Resize, IInv, QueueInv, Answered, Ask
<1>16. CASE GdiResize
  BY <1>16 DEF GdiResize, IInv, QueueInv, Answered, Ask
<1>17. CASE NetworkLost
  BY <1>17 DEF NetworkLost, IInv, QueueInv, Asking, Answered, Goto
<1>18. CASE Lost
  <2>1. UNCHANGED <<ui, data>> /\ rfi'.connected = rfi.connected
    BY <1>18, TypeParts DEF IInv, RfiType, Lost, sessionVars
  <2>2. pc' = "disconnect" \/ (pc' = "post" /\ req'.next = "try")
    BY <1>18 DEF Lost, Ask, Goto
  <2> QED
    BY <1>18, <2>1, <2>2 DEF IInv, QueueInv, PhaseInv, Up, Asking, Answered, Lost
<1>19. CASE Try
  <2>1. UNCHANGED <<ui, data>> /\ rfi'.connected = rfi.connected
    BY <1>19, TypeParts DEF IInv, RfiType, Try, sessionVars
  <2>2. pc' = "disconnect" \/ (pc' = "post" /\ req'.next = "attempt")
    BY <1>19 DEF Try, Ask, Goto
  <2> QED
    BY <1>19, <2>1, <2>2 DEF IInv, QueueInv, PhaseInv, Up, Asking, Answered, Try
<1>20. CASE Attempt
  BY <1>20 DEF Attempt, IInv, QueueInv, Asking, Answered, TypeOK, Goto
<1>21. CASE Disconnect
  BY <1>21 DEF Disconnect, IInv, QueueInv, Asking, Answered, Goto
<1>22. CASE Serve
  <2>1. ui.queue \in Seq(UiObjects) /\ ui.serving = NoUi /\ UNCHANGED <<pc, req, data, rfi>>
    BY <1>22, TypeParts DEF IInv, UiType, Serve, sessionVars
  <2>2. CASE ui.queue = <<>>
    <3>1. ui'.queue = ui.queue /\ ui'.serving = ui.serving /\ ui'.answered = ui.answered
      BY <1>22, <2>2, TypeParts DEF IInv, UiType, Serve
    <3> QED
      BY <2>1, <3>1 DEF IInv, QueueInv, Answered, Asking
  <2>3. CASE ui.queue # <<>>
    <3>1. /\ ui'.queue = Tail(ui.queue) /\ ui'.serving = ui.queue[1]
          /\ ui'.answered = ui.answered
      BY <1>22, <2>1, <2>3, TypeParts, TailElements DEF IInv, UiType, Serve
    <3>2. ASSUME NEW i \in DOMAIN ui'.queue
          PROVE  /\ ui'.queue[i].type # "connected"
                 /\ ui'.queue[i].sync => i = Len(ui'.queue) /\ pc' = "waiting"
                                           /\ ui'.queue[i] = req'.ui
      <4>1. i \in Nat \ {0} /\ i + 1 \in DOMAIN ui.queue /\ ui'.queue[i] = ui.queue[i + 1]
        BY <2>1, <2>3, <3>1, TailElements
      <4>2. Len(ui'.queue) = Len(ui.queue) - 1 /\ Len(ui.queue) \in Nat
        BY <2>1, <2>3, <3>1, TailElements
      <4> QED
        BY <2>1, <4>1, <4>2 DEF IInv, QueueInv
    <3>3. ui'.serving.sync => ui'.queue = <<>> /\ pc' = "waiting" /\ ui'.serving = req'.ui
      <4>1. ui.queue[1].sync => Len(ui.queue) = 1 /\ pc = "waiting" /\ ui.queue[1] = req.ui
        BY <2>1, <2>3, TailElements DEF IInv, QueueInv
      <4>2. Len(ui.queue) = 1 => Tail(ui.queue) = <<>>
        <5>1. Tail(ui.queue) \in Seq(UiObjects) /\ Len(Tail(ui.queue)) = Len(ui.queue) - 1
          BY <2>1, <2>3, TailElements
        <5>2. \A t \in Seq(UiObjects) : Len(t) = 0 => t = <<>>
          BY EmptySeq
        <5>3. Len(ui.queue) = 1 => Len(Tail(ui.queue)) = 0
          BY <5>1
        <5> QED
          BY <5>1, <5>2, <5>3
      <4> QED
        BY <2>1, <3>1, <4>1, <4>2
    <3>4. ~(\/ Answered \/ (pc = "resize" /\ data) \/ ~rfi.connected
            \/ (Asking /\ req.next = "posted"))
      BY <2>3 DEF IInv, QueueInv
    <3> QED
      BY <2>1, <3>1, <3>2, <3>3, <3>4 DEF QueueInv, Answered, Asking
  <2> QED
    BY <2>2, <2>3
<1>23. CASE Served
  BY <1>23 DEF Served, IInv, QueueInv, Asking, Answered, NoUi, sessionVars
<1>24. CASE Scale
  BY <1>24 DEF Scale, IInv, QueueInv, Asking, Answered
<1>25. CASE Close
  BY <1>25 DEF Close, IInv, QueueInv, Asking, Answered, sessionVars
<1>26. CASE Orphan
  BY <1>26 DEF Orphan, IInv, QueueInv, Asking, Answered, Uninit
<1>27. CASE PushDisconnect
  BY <1>27 DEF PushDisconnect, IInv, QueueInv, Asking, Answered, sessionVars
<1>28. CASE Cleanup
  <2>1. pc = "over" /\ UNCHANGED <<pc, req, rfi>>
    BY <1>28 DEF IInv, LifeInv, Cleanup
  <2>2. ui'.serving = ui.serving /\ (ui'.queue = <<>> \/ ui'.queue = ui.queue)
    BY <1>28, TypeParts DEF IInv, UiType, Cleanup, Uninit
  <2> QED
    BY <2>1, <2>2 DEF IInv, QueueInv, Answered, Asking
<1>29. CASE UNCHANGED vars
  BY <1>29 DEF vars, IInv, QueueInv, Asking, Answered, sessionVars
<1> QED
  BY <1>1, <1>2, <1>3, <1>4, <1>5, <1>6, <1>7, <1>8, <1>9, <1>10, <1>11, <1>12,
     <1>13, <1>14, <1>15, <1>16, <1>17, <1>18, <1>19, <1>20, <1>21, <1>22, <1>23,
     <1>24, <1>25, <1>26, <1>27, <1>28, <1>29 DEF Next, Thread, MainThread, User

\* The surface and its buffer
LEMMA ScreenStep ==
    IInv /\ [Next]_vars => ScreenInv'
<1> SUFFICES ASSUME IInv, [Next]_vars PROVE ScreenInv'
  OBVIOUS
<1>1. CASE Post
  BY <1>1 DEF Post, IInv, ScreenInv, Up, Asking, Answered, Coming, Between,
     Resizing, Goto, sessionVars, screenVars
<1>2. CASE Push
  <2>1. ui.queue \in Seq(UiObjects) /\ req.ui \in UiObjects
    BY <1>2, TypeParts DEF IInv, ReqInv, Asking, Push, UiType, ReqType
  <2>2. /\ ui'.queue = Append(ui.queue, req.ui) /\ ui'.answered = FALSE
        /\ ui.serving = NoUi /\ pc = "push" /\ req' = req /\ rfi' = rfi
        /\ pc' = IF req.ui.sync THEN "waiting" ELSE req.next
        /\ UNCHANGED <<data, surf, buf, midscale>>
    BY <1>2, TypeParts DEF IInv, UiType, Push, Goto, sessionVars, screenVars
  <2>3. req.ui.sync <=> req.ui.type \in {"formats", "destroy", "scale"}
    BY <2>1, SyncType
  <2>4. /\ (req.next = "posted" => req.ui.type = "connected")
        /\ (req.next = "resize" => req.ui.type = "destroy")
    BY <2>2 DEF IInv, ReqInv, Asking
  <2>5. ~Resizing' /\ ~Resizing
    BY <2>2, <2>3, <2>4 DEF Resizing
  <2>6. Coming => Coming'
    <3>1. CASE \E i \in DOMAIN ui.queue : ui.queue[i].type = "connected"
      BY <2>1, <2>2, <3>1, AppendElements DEF Coming
    <3>2. CASE req.ui.type = "connected"
      BY <2>1, <2>2, <3>2, AppendElements DEF Coming
    <3> QED
      BY <2>2, <2>4, <3>1, <3>2 DEF Coming, NoUi
  <2>7. Between => Between'
    BY <2>2, <2>3, <2>5 DEF Between, Asking, Answered
  <2> QED
    BY <2>2, <2>5, <2>6, <2>7 DEF IInv, ScreenInv, Up, Asking
<1>3. CASE Wake
  BY <1>3 DEF Wake, IInv, ScreenInv, ReqInv, Up, Asking, Answered, Coming, Between,
     Resizing, TypeOK, UiObjects, Running, Goto, sessionVars, screenVars
<1>4. CASE Open
  BY <1>4 DEF Open, IInv, ScreenInv, Up, Asking, Resizing, Goto, sessionVars,
     screenVars
<1>5. CASE Main
  BY <1>5 DEF Main, IInv, ScreenInv, Up, Asking, Resizing, Goto, sessionVars,
     screenVars
<1>6. CASE Tunnel
  BY <1>6 DEF Tunnel, IInv, ScreenInv, Up, Asking, Resizing, Goto, sessionVars,
     screenVars
<1>7. CASE ConnectFails
  BY <1>7 DEF ConnectFails, IInv, ScreenInv, Up, Asking, Resizing, TypeOK, Goto,
     sessionVars, screenVars
<1>8. CASE PostConnectFails
  BY <1>8 DEF PostConnectFails, IInv, ScreenInv, Up, Asking, Resizing, Goto,
     sessionVars, screenVars
<1>9. CASE PostConnect
  BY <1>9 DEF PostConnect, IInv, ScreenInv, PhaseInv, Asking, Coming, Ask
<1>10. CASE Posted
  BY <1>10 DEF Posted, IInv, ScreenInv, Up, Asking, Coming, Between, Resizing, Goto,
     sessionVars, screenVars
<1>11. CASE Enter
  BY <1>11 DEF Enter, IInv, ScreenInv, Up, Asking, Coming, Between, Resizing, Goto,
     sessionVars, screenVars
<1>12. CASE Again
  BY <1>12 DEF Again, IInv, ScreenInv, Up, Asking, Resizing, Goto, screenVars
<1>13. CASE Loop
  BY <1>13 DEF Loop, IInv, ScreenInv, Up, Asking, Answered, Coming, Between,
     Resizing, TypeOK, Running, Goto, sessionVars, screenVars
<1>14. CASE Check
  BY <1>14 DEF Check, IInv, ScreenInv, Up, Asking, Coming, Between, Resizing, Goto,
     Ask, sessionVars, screenVars
<1>15. CASE Resize
  BY <1>15 DEF Resize, IInv, ScreenInv, Up, Asking, Coming, Between, Resizing, Ask,
     sessionVars, screenVars
<1>16. CASE GdiResize
  BY <1>16 DEF GdiResize, IInv, ScreenInv, PhaseInv, Up, Answered, Between,
     Resizing, TypeOK, Ask, sessionVars
<1>17. CASE NetworkLost
  BY <1>17 DEF NetworkLost, IInv, ScreenInv, Up, Asking, Coming, Between, Resizing,
     Goto, sessionVars, screenVars
<1>18. CASE Lost
  BY <1>18 DEF Lost, IInv, ScreenInv, Up, Asking, Answered, Coming, Between,
     Resizing, TypeOK, Running, Goto, Ask, sessionVars, screenVars
<1>19. CASE Try
  BY <1>19 DEF Try, IInv, ScreenInv, Up, Asking, Answered, Coming, Between,
     Resizing, TypeOK, Running, Goto, Ask, sessionVars, screenVars
<1>20. CASE Attempt
  BY <1>20 DEF Attempt, IInv, ScreenInv, Up, Asking, Coming, Between, Resizing,
     TypeOK, Goto, sessionVars, screenVars
<1>21. CASE Disconnect
  BY <1>21 DEF Disconnect, IInv, ScreenInv, Up, Asking, Resizing, Goto, sessionVars,
     screenVars
<1>22. CASE Serve
  BY <1>22 DEF Serve, IInv, ScreenInv, QueueInv, Up, Asking, Answered, Coming,
     Between, Resizing, NoUi, sessionVars, screenVars
<1>23. CASE Served
  BY <1>23 DEF Served, IInv, ScreenInv, HandlerInv, QueueInv, ReqInv, Up, Asking,
     Answered, Coming, Between, Resizing, TypeOK, UiObjects, Running, sessionVars
<1>24. CASE Scale
  BY <1>24 DEF Scale, IInv, ScreenInv, Up, Asking, Answered, Resizing, Running,
     Dispatching, sessionVars
<1>25. CASE Close
  BY <1>25 DEF Close, IInv, ScreenInv, Up, Asking, Answered, Coming, Between,
     Resizing, sessionVars, screenVars
<1>26. CASE Orphan
  BY <1>26 DEF Orphan, IInv, ScreenInv, Uninit
<1>27. CASE PushDisconnect
  BY <1>27 DEF PushDisconnect, IInv, ScreenInv, Up, Asking, Answered, Coming,
     Between, Resizing, sessionVars, screenVars
<1>28. CASE Cleanup
  BY <1>28 DEF Cleanup, IInv, ScreenInv, Uninit
<1>29. CASE UNCHANGED vars
  BY <1>29 DEF vars, IInv, ScreenInv, Up, Asking, Answered, Coming, Between,
     Resizing, sessionVars, screenVars
<1> QED
  BY <1>1, <1>2, <1>3, <1>4, <1>5, <1>6, <1>7, <1>8, <1>9, <1>10, <1>11, <1>12,
     <1>13, <1>14, <1>15, <1>16, <1>17, <1>18, <1>19, <1>20, <1>21, <1>22, <1>23,
     <1>24, <1>25, <1>26, <1>27, <1>28, <1>29 DEF Next, Thread, MainThread, User


(* The promise of a plugin: what a step does to the three variables it is about. *)
Quiet == UNCHANGED <<pc # "new", gp.opened, closes>>

LEMMA PromiseStep ==
    IInv /\ [Next]_vars => [Promise!Next]_(Promise!vars)
<1> SUFFICES ASSUME IInv, [Next]_vars PROVE Quiet \/ Promise!Next
  BY DEF Promise!vars, Quiet
<1>1. CASE Post
  BY <1>1 DEF Post, IInv, ReqInv, Asking, Quiet, Goto, sessionVars
<1>2. CASE Push
  BY <1>2 DEF Push, IInv, ReqInv, Asking, Quiet, Goto, sessionVars
<1>3. CASE Wake
  BY <1>3 DEF Wake, IInv, ReqInv, Asking, Quiet, Goto, sessionVars
<1>4. CASE Open
  <2>1. pc = "new" /\ pc' # "new" /\ closes' = closes
    BY <1>4 DEF Open, Goto, sessionVars
  <2>2. gp'.opened = gp.opened
    BY <1>4, TypeParts DEF IInv, GpType, Open
  <2> QED
    BY <2>1, <2>2 DEF Promise!Next, Promise!Start
<1>5. CASE Main
  BY <1>5 DEF Main, Quiet, Goto, Ask, sessionVars
<1>6. CASE Tunnel
  BY <1>6, TypeParts DEF Tunnel, Quiet, Goto, sessionVars, IInv, GpType
<1>7. CASE ConnectFails
  BY <1>7, TypeParts DEF ConnectFails, Quiet, Goto, sessionVars, IInv, GpType
<1>8. CASE PostConnectFails
  BY <1>8, TypeParts DEF PostConnectFails, Quiet, Goto, sessionVars, IInv, GpType
<1>9. CASE PostConnect
  BY <1>9 DEF PostConnect, Quiet, Goto, Ask, sessionVars
<1>10. CASE Posted
  BY <1>10, TypeParts DEF Posted, Quiet, Goto, sessionVars, IInv, GpType
<1>11. CASE Enter
  BY <1>11 DEF Enter, Quiet, Goto, Ask, sessionVars
<1>12. CASE Again
  BY <1>12 DEF Again, Quiet, Goto, Ask, sessionVars
<1>13. CASE Loop
  BY <1>13 DEF Loop, Quiet, Goto, Ask, sessionVars
<1>14. CASE Check
  BY <1>14 DEF Check, Quiet, Goto, Ask, sessionVars
<1>15. CASE Resize
  BY <1>15 DEF Resize, Quiet, Goto, Ask, sessionVars
<1>16. CASE GdiResize
  BY <1>16 DEF GdiResize, Quiet, Goto, Ask, sessionVars
<1>17. CASE NetworkLost
  BY <1>17 DEF NetworkLost, Quiet, Goto, Ask, sessionVars
<1>18. CASE Lost
  BY <1>18 DEF Lost, Quiet, Goto, Ask, sessionVars
<1>19. CASE Try
  BY <1>19 DEF Try, Quiet, Goto, Ask, sessionVars
<1>20. CASE Attempt
  BY <1>20, TypeParts DEF Attempt, Quiet, Goto, sessionVars, IInv, GpType
<1>21. CASE Disconnect
  BY <1>21, TypeParts DEF Disconnect, Quiet, Goto, sessionVars, IInv, GpType
<1>22. CASE Serve
  BY <1>22 DEF Serve, Quiet, Goto, Ask, sessionVars
<1>23. CASE Served
  <2>1. pc # "new" /\ UNCHANGED <<pc, closes>>
    BY <1>23 DEF IInv, PhaseInv, QueueInv, Served, sessionVars
  <2>2. CASE gp'.opened = gp.opened
    BY <2>1, <2>2 DEF Quiet
  <2>3. CASE gp'.opened # gp.opened
    <3>1. ui.serving.type = "connected" /\ ~gp.opened /\ gp'.opened = TRUE
      BY <1>23, <2>3, TypeParts DEF IInv, GpType, Served
    <3>2. closes = 0
      BY <1>23, <3>1 DEF IInv, HandlerInv, LifeInv, Served, Running
    <3> QED
      BY <2>1, <3>1, <3>2 DEF Promise!Next, Promise!Opened
  <2> QED
    BY <2>2, <2>3
<1>24. CASE Scale
  BY <1>24 DEF Scale, Quiet, Goto, Ask, sessionVars
<1>25. CASE Close
  BY <1>25 DEF Close, Quiet, sessionVars
<1>26. CASE Orphan
  <2>1. pc # "new" /\ UNCHANGED <<pc, gp>> /\ closes = 0 /\ closes' = 1
    BY <1>26 DEF IInv, LifeInv, Orphan
  <2> QED
    BY <2>1 DEF Promise!Next, Promise!Closed
<1>27. CASE PushDisconnect
  BY <1>27 DEF PushDisconnect, Quiet, sessionVars
<1>28. CASE Cleanup
  <2>1. pc # "new" /\ UNCHANGED <<pc, gp>>
    BY <1>28 DEF IInv, LifeInv, Cleanup
  <2>2. CASE data
    <3>1. closes = 0 /\ closes' = 1
      BY <1>28, <2>2 DEF IInv, LifeInv, Cleanup
    <3> QED
      BY <2>1, <3>1 DEF Promise!Next, Promise!Closed
  <2>3. CASE ~data
    BY <1>28, <2>1, <2>3 DEF Cleanup, Quiet
  <2> QED
    BY <2>2, <2>3
<1>29. CASE UNCHANGED vars
  BY <1>29 DEF vars, Quiet, sessionVars
<1> QED
  BY <1>1, <1>2, <1>3, <1>4, <1>5, <1>6, <1>7, <1>8, <1>9, <1>10, <1>11, <1>12,
     <1>13, <1>14, <1>15, <1>16, <1>17, <1>18, <1>19, <1>20, <1>21, <1>22, <1>23,
     <1>24, <1>25, <1>26, <1>27, <1>28, <1>29 DEF Next, Thread, MainThread, User

(* A session begins with the invariant. *)
LEMMA InitInv ==
    Init => IInv
<1> SUFFICES ASSUME Init PROVE IInv
  OBVIOUS
<1>1. TypeOK
  <2>1. <<>> \in Seq(UiObjects)
    OBVIOUS
  <2>2. req \in ReqType /\ ui \in UiType /\ rfi \in RfiType /\ gp \in GpType
    BY <2>1, SessionAssumption DEF Init, ReqType, UiType, RfiType, GpType, ThreadStates
  <2>3. ScalarTypes /\ pc \in ThreadStates
    <3>1. /\ data \in BOOLEAN /\ cleanup \in BOOLEAN /\ asked \in BOOLEAN
          /\ orphan \in BOOLEAN /\ midscale \in BOOLEAN /\ fault \in BOOLEAN
      BY DEF Init
    <3>2. /\ closes \in Nat /\ freed \in Nat /\ main \in {"loop", "orphaning", "pushing"}
          /\ surf \in 0 .. MaxResizes + 1 /\ buf \in 0 .. MaxResizes + 1
          /\ pc \in ThreadStates
      BY SessionAssumption DEF Init, ThreadStates
    <3> QED
      BY <3>1, <3>2 DEF ScalarTypes
  <2> QED
    BY <2>2, <2>3, TypeParts
<1>2. ReqInv /\ PhaseInv /\ LifeInv
  BY SessionAssumption DEF Init, ReqInv, PhaseInv, LifeInv, Asking, Up
<1>3. HandlerInv /\ QueueInv
  BY DEF Init, HandlerInv, QueueInv, NoUi
<1>4. ScreenInv /\ FaultNeedsOrphan
  BY DEF Init, ScreenInv, FaultNeedsOrphan, Up, Asking, Resizing
<1> QED
  BY <1>1, <1>2, <1>3, <1>4 DEF IInv

(* The inductive invariant holds, for any bounds. *)
THEOREM Invariance ==
    Spec => []IInv
<1>1. IInv /\ [Next]_vars => IInv'
  <2> SUFFICES ASSUME IInv, [Next]_vars PROVE IInv'
    OBVIOUS
  <2>1. TypeOK'
    BY ThreadTypeStep, UiTypeStep, FieldTypeStep, ScalarTypeStep
       DEF TypeOK, ReqType, UiType, RfiType, GpType, ScalarTypes
  <2> QED
    BY <2>1, ReqStep, PhaseStep, LifeStep, HandlerStep, QueueStep, ScreenStep, FaultStep
       DEF IInv
<1> QED
  BY <1>1, InitInv, PTL DEF Spec

(* Types; above all, the attempts to reconnect (rf_auto_reconnect) stay within
   their limit over any number of failures. *)
THEOREM Typing ==
    Spec => []TypeOK
<1>1. IInv => TypeOK
  BY DEF IInv
<1> QED
  BY <1>1, Invariance, PTL

(* rfi is freed once, when its thread has ended and the widget has let it go
   (complete_cleanup_on_main_thread, remmina_rdp_close_connection). *)
THEOREM FreedOnceAtTheEnd ==
    Spec => []FreedLast
<1>1. IInv => FreedLast
  BY TypeParts DEF IInv, LifeInv, FreedLast, ScalarTypes
<1> QED
  BY <1>1, Invariance, PTL

(* Only a session that was abandoned while it was connecting can make the
   program follow a pointer to nothing. *)
THEOREM OnlyOrphansFault ==
    Spec => []FaultNeedsOrphan
<1>1. IInv => FaultNeedsOrphan
  BY DEF IInv
<1> QED
  BY <1>1, Invariance, PTL

(* The surface of the window is that of the buffer libfreerdp has, through any
   number of resizes (rf_desktop_resize), unless the user changed the scale in the
   middle of one. *)
THEOREM SurfaceNeverStale ==
    Spec => []SurfaceFresh
<1>1. IInv => SurfaceFresh
  BY DEF IInv, ScreenInv, SurfaceFresh
<1> QED
  BY <1>1, Invariance, PTL

(* The RDP plugin keeps the promise of module PluginSession: it signals at most
   once that it is open and at most once that it is over, in this order. *)
THEOREM Refinement ==
    Spec => KeepsPromise
<1>1. Init => Promise!Init
  BY DEF Init, Promise!Init
<1> QED
  BY <1>1, PromiseStep, Invariance, PTL DEF Spec, KeepsPromise, Promise!Spec
==============================================================================
