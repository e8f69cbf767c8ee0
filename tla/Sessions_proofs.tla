---------------------------- MODULE Sessions_proofs ----------------------------
(***************************************************************************)
(* What holds of the run of MCSessions for every bound: the sessions of    *)
(* VNC, the SSH tunnel, the sessions of X2Go, the transfers over SFTP and  *)
(* the layout of RDP are proved here, in terms of the variables of the     *)
(* run; the life of a connection in ConnectionLifecycle_proofs, which is   *)
(* cited.                                                                  *)
(***************************************************************************)
EXTENDS MCSessions, Integers, Sequences, FiniteSetTheorems, WellFoundedInduction, TLAPS

-----------------------------------------------------------------------------
(* The sessions of VNC (src/plugins/vnc/vnc_plugin.c), for any bound on the *)
(* events in the queue.  The invariant follows the thread: before the       *)
(* connection is open nothing was signalled, drawn or queued; from there on *)
(* it has its client; once the end was signalled it does not move any more. *)
(* A clean-up that finds nothing on its way leaves a session that only the  *)
(* tab can come back to.                                                    *)

VncSession ==
    [threaded : BOOLEAN, connected : BOOLEAN, running : BOOLEAN, first : BOOLEAN,
     client : BOOLEAN, clipboard : BOOLEAN, listening : BOOLEAN, buffered : BOOLEAN]
VncQueue == [events : 0 .. MaxEvents, bytes : 0 .. MaxEvents + 1, live : BOOLEAN]
VncIdle ==
    [scale : {"none", "queued", "served", "stale"}, drawId : BOOLEAN, draw : BOOLEAN,
     chat : BOOLEAN, text : BOOLEAN, clip : BOOLEAN, timer : 0 .. 2]
VncWidget == [error : BOOLEAN, opened : BOOLEAN, closes : 0 .. 2, tab : BOOLEAN]
VncHistory == [raced : BOOLEAN, unsent : BOOLEAN, late : BOOLEAN, called : BOOLEAN]

VncTypes ==
    /\ vnc_pc \in Vnc!ThreadStates /\ vnc_next \in Vnc!ThreadStates
    /\ vnc_sess \in VncSession /\ vnc_queue \in VncQueue /\ vnc_idle \in VncIdle
    /\ vnc_main \in {"loop", "closing", "joining", "writing", "hung"}
    /\ vnc_gp \in VncWidget /\ vnc_hist \in VncHistory /\ vnc_fault \in BOOLEAN

\* The connection is not open yet; it is, or is about to be signalled as open.
VncBefore ==
    \/ vnc_pc \in {"new", "start", "attempt", "listen", "init", "auth", "ask", "result",
               "retry", "connected"}
    \/ vnc_pc \in {"frame", "notify"} /\ vnc_next = "connected"
VncAfter ==
    \/ vnc_pc \in {"select", "drain", "read", "message"}
    \/ vnc_pc \in {"frame", "notify", "signal"} /\ vnc_next = "select"

\* Where the thread goes on, what it has and what it has signalled.
VncPlaceInv ==
    /\ vnc_pc = "signal" => vnc_next \in {"ended", "select"}
    /\ vnc_pc \in {"frame", "notify"} => vnc_next \in {"connected", "select"}
    /\ VncBefore \/ (vnc_pc = "signal" /\ vnc_next = "select") => ~vnc_gp.opened
    /\ VncAfter => vnc_sess.client
    /\ VncBefore \/ VncAfter => vnc_pc \in {"new", "start"} \/ vnc_sess.running

\* Nothing has happened to a session that was not opened.
VncNewInv ==
    vnc_pc = "new" =>
        /\ vnc_main = "loop" /\ vnc_idle.timer = 0
        /\ ~vnc_sess.connected /\ ~vnc_sess.client /\ ~vnc_sess.clipboard
        /\ ~vnc_idle.chat /\ ~vnc_idle.clip

\* After the end was signalled the thread does not move; the clean-up signals it.
VncEndInv ==
    /\ vnc_gp.closes > 0 => vnc_pc \in {"ended", "dead"}
    /\ ~vnc_queue.live => vnc_gp.closes > 0

\* How far a close has come.
VncCloseInv ==
    /\ vnc_sess.threaded => vnc_idle.timer = 0
    /\ vnc_main = "joining" => vnc_sess.threaded
    /\ vnc_main = "closing" => vnc_idle.timer < 2
    /\ vnc_main = "joining" \/ vnc_idle.timer > 0 => ~vnc_sess.connected
    /\ Vnc!Closing /\ vnc_gp.closes > 0 => vnc_hist.raced \/ vnc_hist.late
    /\ vnc_main = "writing" => vnc_queue.bytes <= MaxEvents

\* What the clean-up leaves behind when it found nothing on its way.
VncLateInv ==
    /\ vnc_idle.chat => vnc_sess.client \/ vnc_hist.late
    /\ vnc_gp.opened => vnc_sess.client \/ ~vnc_queue.live
    /\ ~vnc_queue.live => ~vnc_sess.connected /\ ~vnc_sess.client
    /\ ~vnc_queue.live /\ ~vnc_hist.late =>
          ~vnc_idle.chat /\ ~vnc_idle.clip /\ vnc_idle.timer = 0 /\ vnc_main = "loop"

\* Drawing begins with the connection, and the close that ends it joins the thread.
VncDrawInv ==
    /\ VncBefore => ~vnc_idle.draw /\ ~vnc_idle.drawId
    /\ vnc_sess.threaded
       /\ (VncAfter \/ vnc_idle.draw) => vnc_sess.connected \/ vnc_main \in {"joining", "hung"}
    /\ Vnc!DrawKnown

VncIInv ==
    /\ VncTypes /\ VncPlaceInv /\ VncNewInv /\ VncEndInv /\ VncCloseInv /\ VncLateInv
       /\ VncDrawInv
    /\ Vnc!ClosedOnce /\ Vnc!FaultNeedsLate
(* One lemma for each part of the invariant.                               *)

\* TypeOK, with names for the sets of records.
LEMMA VncTypesAre == Vnc!TypeOK <=> VncTypes
BY DEF Vnc!TypeOK, VncTypes, VncSession, VncQueue, VncIdle, VncWidget, VncHistory

\* The clean-up.
LEMMA VncCleanUpTypes ==
    ASSUME MaxEvents \in Nat, VncTypes, NEW n \in 0 .. 2, Vnc!CleanUp(n)
    PROVE  /\ vnc_sess' \in VncSession /\ vnc_queue' \in VncQueue /\ vnc_idle' \in VncIdle
           /\ vnc_gp' \in VncWidget /\ vnc_hist' \in VncHistory /\ vnc_fault' \in BOOLEAN
<1>1. vnc_sess' \in VncSession
  BY DEF Vnc!CleanUp, VncTypes, VncSession
<1>2. vnc_queue' \in VncQueue /\ vnc_fault' \in BOOLEAN
  BY DEF Vnc!CleanUp, VncTypes, VncQueue
<1>3. vnc_idle' \in VncIdle
  <2>1. vnc_idle \in VncIdle /\ (vnc_idle.draw /\ ~vnc_idle.drawId) \in BOOLEAN
    BY DEF VncTypes
  <2> QED BY <2>1 DEF Vnc!CleanUp, VncIdle
<1>4. vnc_gp' \in VncWidget
  BY DEF Vnc!CleanUp, VncTypes, VncWidget
<1>5. vnc_hist' \in VncHistory
  BY DEF Vnc!CleanUp, VncTypes, VncHistory
<1> QED BY <1>1, <1>2, <1>3, <1>4, <1>5

\* Every step keeps the types; the end is signalled by the thread before anybody else.
LEMMA VncTypeStep ==
    ASSUME MaxEvents \in Nat, VncTypes, VncEndInv, VncCloseInv, [Vnc!Next]_(Vnc!vars)
    PROVE  VncTypes'
<1> USE DEF VncTypes
<1>1. CASE Vnc!Open
  <2>1. vnc_sess' \in VncSession
    BY <1>1 DEF Vnc!Open, VncSession
  <2> QED BY <1>1, <2>1 DEF Vnc!Open, Vnc!ThreadStates
<1>2. CASE Vnc!Start
  <2>1. vnc_sess' \in VncSession
    BY <1>2 DEF Vnc!Start, VncSession
  <2> QED BY <1>2, <2>1 DEF Vnc!Start, Vnc!ThreadStates
<1>3. CASE Vnc!Attempt
  <2>1. vnc_sess' \in VncSession
    BY <1>3 DEF Vnc!Attempt, VncSession
  <2>2. vnc_gp' \in VncWidget
    BY <1>3 DEF Vnc!Attempt, VncWidget
  <2> QED BY <1>3, <2>1, <2>2 DEF Vnc!Attempt, Vnc!ThreadStates
<1>4. CASE Vnc!Listen
  <2>1. vnc_sess' \in VncSession
    BY <1>4 DEF Vnc!Listen, VncSession
  <2>2. vnc_hist' \in VncHistory
    BY <1>4 DEF Vnc!Listen, VncHistory
  <2> QED BY <1>4, <2>1, <2>2 DEF Vnc!Listen, Vnc!ThreadStates
<1>5. CASE Vnc!InitClient
  BY <1>5 DEF Vnc!InitClient, Vnc!AllocFrameBuffer, Vnc!ThreadStates, VncIdle
<1>6. CASE Vnc!Auth
  BY <1>6 DEF Vnc!Auth, Vnc!AllocFrameBuffer, Vnc!ThreadStates, VncIdle
<1>7. CASE Vnc!Answer
  <2>1. vnc_sess' \in VncSession
    BY <1>7 DEF Vnc!Answer, Vnc!AllocFrameBuffer, VncSession
  <2>2. vnc_idle' \in VncIdle
    BY <1>7 DEF Vnc!Answer, Vnc!AllocFrameBuffer, VncIdle
  <2> QED BY <1>7, <2>1, <2>2 DEF Vnc!Answer, Vnc!AllocFrameBuffer, Vnc!ThreadStates
<1>8. CASE Vnc!Result
  <2>1. vnc_sess' \in VncSession
    BY <1>8 DEF Vnc!Result, VncSession
  <2> QED BY <1>8, <2>1 DEF Vnc!Result, Vnc!ThreadStates
<1>9. CASE Vnc!Retry
  <2>1. vnc_sess' \in VncSession
    BY <1>9 DEF Vnc!Retry, VncSession
  <2> QED BY <1>9, <2>1 DEF Vnc!Retry, Vnc!ThreadStates
<1>10. CASE Vnc!Framed
  BY <1>10 DEF Vnc!Framed, Vnc!ThreadStates, VncIdle
<1>11. CASE Vnc!Over
  <2>1. vnc_sess' \in VncSession
    BY <1>11 DEF Vnc!Over, VncSession
  <2>2. vnc_gp' \in VncWidget
    BY <1>11 DEF Vnc!Over, VncWidget
  <2> QED BY <1>11, <2>1, <2>2 DEF Vnc!Over, Vnc!ThreadStates
<1>12. CASE Vnc!Signal
  <2>1. vnc_gp' \in VncWidget
    <3>1. vnc_gp.closes = 0
      BY <1>12 DEF Vnc!Signal, VncWidget, VncEndInv
    <3>2. CASE vnc_next = "ended"
      <4>1. vnc_gp' = [vnc_gp EXCEPT !.closes = 1]
        BY <1>12, <3>1, <3>2 DEF Vnc!Signal
      <4> QED BY <4>1 DEF VncWidget
    <3>3. CASE vnc_next # "ended"
      BY <1>12, <3>3 DEF Vnc!Signal, VncWidget
    <3> QED BY <3>2, <3>3
  <2>2. vnc_hist' \in VncHistory
    BY <1>12 DEF Vnc!Signal, VncHistory, Vnc!Closing
  <2> QED BY <1>12, <2>1, <2>2 DEF Vnc!Signal, Vnc!ThreadStates
<1>13. CASE Vnc!Notify
  BY <1>13 DEF Vnc!Notify, Vnc!ThreadStates
<1>14. CASE Vnc!Connected
  <2>1. vnc_sess' \in VncSession
    BY <1>14 DEF Vnc!Connected, VncSession
  <2> QED BY <1>14, <2>1 DEF Vnc!Connected, Vnc!ThreadStates
<1>15. CASE Vnc!Select
  <2>1. vnc_sess' \in VncSession
    BY <1>15 DEF Vnc!Select, VncSession
  <2> QED BY <1>15, <2>1 DEF Vnc!Select, Vnc!ThreadStates
<1>16. CASE Vnc!Drain
  BY <1>16 DEF Vnc!Drain, Vnc!ThreadStates, VncQueue
<1>17. CASE Vnc!Read
  BY <1>17 DEF Vnc!Read, Vnc!ThreadStates, VncQueue
<1>18. CASE Vnc!Message
  <2>1. vnc_idle' \in VncIdle
    BY <1>18 DEF Vnc!Message, Vnc!AllocFrameBuffer, VncIdle
  <2>2. vnc_sess' \in VncSession
    BY <1>18 DEF Vnc!Message, Vnc!AllocFrameBuffer, VncSession
  <2>3. vnc_gp' \in VncWidget
    BY <1>18 DEF Vnc!Message, Vnc!AllocFrameBuffer, VncWidget
  <2> QED BY <1>18, <2>1, <2>2, <2>3 DEF Vnc!Message, Vnc!AllocFrameBuffer, Vnc!ThreadStates
<1>19. CASE Vnc!ServeScale
  BY <1>19 DEF Vnc!ServeScale, Vnc!ThreadStates, VncIdle
<1>20. CASE Vnc!Draw
  <2>1. vnc_idle' \in VncIdle
    BY <1>20 DEF Vnc!Draw, VncIdle
  <2> QED BY <1>20, <2>1 DEF Vnc!Draw, Vnc!ThreadStates
<1>21. CASE Vnc!ServerText
  <2>1. vnc_idle' \in VncIdle
    BY <1>21 DEF Vnc!ServerText, VncIdle
  <2> QED BY <1>21, <2>1 DEF Vnc!ServerText, Vnc!ThreadStates, VncSession, VncQueue
<1>22. CASE Vnc!Write
  BY <1>22 DEF Vnc!Write, Vnc!ThreadStates, VncQueue, VncCloseInv
<1>23. CASE Vnc!OpenChat
  <2>1. vnc_idle' \in VncIdle
    BY <1>23 DEF Vnc!OpenChat, Vnc!event_push, VncIdle
  <2>2. vnc_queue' \in VncQueue
    BY <1>23 DEF Vnc!OpenChat, Vnc!event_push, VncQueue
  <2>3. vnc_hist' \in VncHistory
    BY <1>23 DEF Vnc!OpenChat, Vnc!event_push, VncHistory
  <2>4. vnc_fault' \in BOOLEAN
        /\ vnc_main' \in {"loop", "closing", "joining", "writing", "hung"}
    BY <1>23 DEF Vnc!OpenChat, Vnc!event_push
  <2> QED BY <1>23, <2>1, <2>2, <2>3, <2>4 DEF Vnc!OpenChat
<1>24. CASE Vnc!on_cuttext_request
  <2>1. vnc_idle' \in VncIdle
    BY <1>24 DEF Vnc!on_cuttext_request, Vnc!event_push, VncIdle
  <2>2. vnc_queue' \in VncQueue
    BY <1>24 DEF Vnc!on_cuttext_request, Vnc!event_push, VncQueue
  <2>3. vnc_hist' \in VncHistory
    BY <1>24 DEF Vnc!on_cuttext_request, Vnc!event_push, VncHistory
  <2> QED BY <1>24, <2>1, <2>2, <2>3 DEF Vnc!on_cuttext_request, Vnc!event_push,
     Vnc!ThreadStates, VncQueue
<1>25. CASE Vnc!close_connection
  <2>1. vnc_sess' \in VncSession
    BY <1>25 DEF Vnc!close_connection, VncSession
  <2>2. vnc_idle' \in VncIdle
    BY <1>25 DEF Vnc!close_connection, VncIdle, VncCloseInv
  <2> QED BY <1>25, <2>1, <2>2 DEF Vnc!close_connection, Vnc!ThreadStates
<1>26. CASE Vnc!Die
  BY <1>26 DEF Vnc!Die, Vnc!ThreadStates, VncIdle
<1>27. CASE Vnc!Join
  BY <1>27, VncCleanUpTypes DEF Vnc!Join, VncTypes
<1>28. CASE Vnc!CloseTimer
  <2>1. vnc_idle.timer - 1 \in 0 .. 2
    BY <1>28 DEF Vnc!CloseTimer, VncTypes, VncIdle
  <2> QED BY <1>28, <2>1, VncCleanUpTypes DEF Vnc!CloseTimer, VncTypes
<1>29. CASE Vnc!Input
  <2>1. vnc_queue' \in VncQueue
    BY <1>29 DEF Vnc!Input, Vnc!event_push, VncQueue
  <2>2. vnc_hist' \in VncHistory
    BY <1>29 DEF Vnc!Input, Vnc!event_push, VncHistory
  <2> QED BY <1>29, <2>1, <2>2 DEF Vnc!Input, Vnc!event_push, VncQueue
<1>30. CASE Vnc!on_cuttext
  <2>1. vnc_idle' \in VncIdle
    BY <1>30 DEF Vnc!on_cuttext, VncIdle
  <2> QED BY <1>30, <2>1 DEF Vnc!on_cuttext, Vnc!ThreadStates
<1>31. CASE Vnc!CloseRequest
  BY <1>31 DEF Vnc!CloseRequest, Vnc!ThreadStates
<1>32. CASE UNCHANGED Vnc!vars
  BY <1>32 DEF Vnc!vars
<1>33. CASE Vnc!call_feature
  <2>1. vnc_queue' \in VncQueue
    BY <1>33 DEF Vnc!call_feature, Vnc!event_push, VncQueue
  <2>2. vnc_hist' \in VncHistory
    BY <1>33 DEF Vnc!call_feature, Vnc!event_push, VncHistory, VncQueue
  <2> QED BY <1>33, <2>1, <2>2 DEF Vnc!call_feature, Vnc!event_push, VncQueue
<1>34. CASE Vnc!TabGone
  <2>1. vnc_gp' \in VncWidget
    BY <1>34 DEF Vnc!TabGone, VncWidget
  <2> QED BY <1>34, <2>1 DEF Vnc!TabGone
<1> QED
  BY <1>1, <1>2, <1>3, <1>4, <1>5, <1>6, <1>7, <1>8, <1>9, <1>10, <1>11, <1>12, <1>13,
     <1>14, <1>15, <1>16, <1>17, <1>18, <1>19, <1>20, <1>21, <1>22, <1>23, <1>24, <1>25,
     <1>26, <1>27, <1>28, <1>29, <1>30, <1>31, <1>32, <1>33, <1>34 DEF Vnc!Next, Vnc!ThreadStep,
     Vnc!MainStep

\* Each place hands on to the next what it has.
LEMMA VncPlaceStep ==
    ASSUME MaxEvents \in Nat, VncTypes, VncNewInv, VncPlaceInv, VncEndInv, VncCloseInv,
           [Vnc!Next]_(Vnc!vars)
    PROVE  VncPlaceInv'
<1> USE DEF VncTypes, VncSession, VncIdle, VncWidget, VncNewInv, VncPlaceInv, VncEndInv,
   VncCloseInv, VncBefore, VncAfter
<1>1. CASE Vnc!Open
  BY <1>1 DEF Vnc!Open, Vnc!MainFree
<1>2. CASE Vnc!Start
  BY <1>2 DEF Vnc!Start, Vnc!ThreadRuns
<1>3. CASE Vnc!Attempt
  BY <1>3 DEF Vnc!Attempt, Vnc!ThreadRuns
<1>4. CASE Vnc!Listen
  BY <1>4 DEF Vnc!Listen, Vnc!ThreadRuns
<1>5. CASE Vnc!InitClient
  BY <1>5 DEF Vnc!InitClient, Vnc!AllocFrameBuffer, Vnc!ThreadRuns
<1>6. CASE Vnc!Auth
  BY <1>6 DEF Vnc!Auth, Vnc!AllocFrameBuffer, Vnc!ThreadRuns
<1>7. CASE Vnc!Answer
  BY <1>7 DEF Vnc!Answer, Vnc!AllocFrameBuffer, Vnc!ThreadRuns
<1>8. CASE Vnc!Result
  BY <1>8 DEF Vnc!Result, Vnc!ThreadRuns
<1>9. CASE Vnc!Retry
  BY <1>9 DEF Vnc!Retry, Vnc!ThreadRuns
<1>10. CASE Vnc!Framed
  BY <1>10 DEF Vnc!Framed, Vnc!ThreadRuns
<1>11. CASE Vnc!Over
  BY <1>11 DEF Vnc!Over, Vnc!ThreadRuns
<1>12. CASE Vnc!Signal
  BY <1>12 DEF Vnc!Signal, Vnc!ThreadRuns
<1>13. CASE Vnc!Notify
  BY <1>13 DEF Vnc!Notify, Vnc!ThreadRuns
<1>14. CASE Vnc!Connected
  BY <1>14 DEF Vnc!Connected, Vnc!ThreadRuns
<1>15. CASE Vnc!Select
  BY <1>15 DEF Vnc!Select, Vnc!ThreadRuns
<1>16. CASE Vnc!Drain
  BY <1>16 DEF Vnc!Drain, Vnc!ThreadRuns
<1>17. CASE Vnc!Read
  BY <1>17 DEF Vnc!Read, Vnc!ThreadRuns
<1>18. CASE Vnc!Message
  BY <1>18 DEF Vnc!Message, Vnc!AllocFrameBuffer, Vnc!ThreadRuns
<1>19. CASE Vnc!ServeScale
  BY <1>19 DEF Vnc!ServeScale, Vnc!MainFree
<1>20. CASE Vnc!Draw
  BY <1>20 DEF Vnc!Draw, Vnc!MainFree
<1>21. CASE Vnc!ServerText
  BY <1>21 DEF Vnc!ServerText, Vnc!MainFree
<1>22. CASE Vnc!Write
  BY <1>22 DEF Vnc!Write
<1>23. CASE Vnc!OpenChat
  BY <1>23 DEF Vnc!OpenChat, Vnc!event_push, Vnc!MainFree
<1>24. CASE Vnc!on_cuttext_request
  BY <1>24 DEF Vnc!on_cuttext_request, Vnc!event_push, Vnc!MainFree
<1>25. CASE Vnc!close_connection
  BY <1>25 DEF Vnc!close_connection
<1>26. CASE Vnc!Die
  BY <1>26 DEF Vnc!Die
<1>27. CASE Vnc!Join
  BY <1>27 DEF Vnc!Join, Vnc!CleanUp
<1>28. CASE Vnc!CloseTimer
  BY <1>28 DEF Vnc!CloseTimer, Vnc!CleanUp, Vnc!MainFree
<1>29. CASE Vnc!Input
  BY <1>29 DEF Vnc!Input, Vnc!event_push, Vnc!MainFree
<1>30. CASE Vnc!on_cuttext
  BY <1>30 DEF Vnc!on_cuttext, Vnc!MainFree
<1>31. CASE Vnc!CloseRequest
  BY <1>31 DEF Vnc!CloseRequest, Vnc!MainFree
<1>32. CASE UNCHANGED Vnc!vars
  BY <1>32 DEF Vnc!vars
<1>33. CASE Vnc!call_feature
  BY <1>33 DEF Vnc!call_feature, Vnc!event_push, Vnc!MainFree
<1>34. CASE Vnc!TabGone
  BY <1>34 DEF Vnc!TabGone, Vnc!MainFree
<1> QED
  BY <1>1, <1>2, <1>3, <1>4, <1>5, <1>6, <1>7, <1>8, <1>9, <1>10, <1>11, <1>12, <1>13,
     <1>14, <1>15, <1>16, <1>17, <1>18, <1>19, <1>20, <1>21, <1>22, <1>23, <1>24, <1>25,
     <1>26, <1>27, <1>28, <1>29, <1>30, <1>31, <1>32, <1>33, <1>34 DEF Vnc!Next, Vnc!ThreadStep,
     Vnc!MainStep

\* A session that was not opened is left alone.
LEMMA VncNewStep ==
    ASSUME MaxEvents \in Nat, VncTypes, VncPlaceInv, VncNewInv, [Vnc!Next]_(Vnc!vars)
    PROVE  VncNewInv'
<1> USE DEF VncTypes, VncSession, VncIdle, VncNewInv
<1>1. CASE Vnc!Open
  BY <1>1 DEF Vnc!Open, Vnc!MainFree
<1>2. CASE Vnc!Start
  BY <1>2 DEF Vnc!Start
<1>3. CASE Vnc!Attempt
  BY <1>3 DEF Vnc!Attempt
<1>4. CASE Vnc!Listen
  BY <1>4 DEF Vnc!Listen
<1>5. CASE Vnc!InitClient
  BY <1>5 DEF Vnc!InitClient, Vnc!AllocFrameBuffer
<1>6. CASE Vnc!Auth
  BY <1>6 DEF Vnc!Auth, Vnc!AllocFrameBuffer
<1>7. CASE Vnc!Answer
  BY <1>7 DEF Vnc!Answer, Vnc!AllocFrameBuffer
<1>8. CASE Vnc!Result
  BY <1>8 DEF Vnc!Result
<1>9. CASE Vnc!Retry
  BY <1>9 DEF Vnc!Retry
<1>10. CASE Vnc!Framed
  BY <1>10 DEF Vnc!Framed
<1>11. CASE Vnc!Over
  <2>1. vnc_pc' # "new"
    BY <1>11 DEF Vnc!Over
  <2> QED BY <2>1
<1>12. CASE Vnc!Signal
  <2>1. vnc_pc' # "new"
    BY <1>12 DEF Vnc!Signal, VncPlaceInv
  <2> QED BY <2>1
<1>13. CASE Vnc!Notify
  <2>1. vnc_pc' # "new"
    BY <1>13 DEF Vnc!Notify, VncPlaceInv
  <2> QED BY <2>1
<1>14. CASE Vnc!Connected
  BY <1>14 DEF Vnc!Connected
<1>15. CASE Vnc!Select
  BY <1>15 DEF Vnc!Select
<1>16. CASE Vnc!Drain
  BY <1>16 DEF Vnc!Drain
<1>17. CASE Vnc!Read
  BY <1>17 DEF Vnc!Read
<1>18. CASE Vnc!Message
  BY <1>18 DEF Vnc!Message, Vnc!AllocFrameBuffer
<1>19. CASE Vnc!ServeScale
  BY <1>19 DEF Vnc!ServeScale, Vnc!MainFree
<1>20. CASE Vnc!Draw
  BY <1>20 DEF Vnc!Draw, Vnc!MainFree
<1>21. CASE Vnc!ServerText
  BY <1>21 DEF Vnc!ServerText, Vnc!MainFree
<1>22. CASE Vnc!Write
  BY <1>22 DEF Vnc!Write
<1>23. CASE Vnc!OpenChat
  BY <1>23 DEF Vnc!OpenChat, Vnc!event_push, Vnc!MainFree
<1>24. CASE Vnc!on_cuttext_request
  BY <1>24 DEF Vnc!on_cuttext_request, Vnc!event_push, Vnc!MainFree
<1>25. CASE Vnc!close_connection
  BY <1>25 DEF Vnc!close_connection
<1>26. CASE Vnc!Die
  BY <1>26 DEF Vnc!Die
<1>27. CASE Vnc!Join
  BY <1>27 DEF Vnc!Join, Vnc!CleanUp
<1>28. CASE Vnc!CloseTimer
  BY <1>28 DEF Vnc!CloseTimer, Vnc!CleanUp, Vnc!MainFree
<1>29. CASE Vnc!Input
  BY <1>29 DEF Vnc!Input, Vnc!event_push, Vnc!MainFree
<1>30. CASE Vnc!on_cuttext
  BY <1>30 DEF Vnc!on_cuttext, Vnc!MainFree
<1>31. CASE Vnc!CloseRequest
  BY <1>31 DEF Vnc!CloseRequest, Vnc!MainFree
<1>32. CASE UNCHANGED Vnc!vars
  BY <1>32 DEF Vnc!vars
<1>33. CASE Vnc!call_feature
  BY <1>33 DEF Vnc!call_feature, Vnc!event_push, Vnc!MainFree
<1>34. CASE Vnc!TabGone
  BY <1>34 DEF Vnc!TabGone, Vnc!MainFree
<1> QED
  BY <1>1, <1>2, <1>3, <1>4, <1>5, <1>6, <1>7, <1>8, <1>9, <1>10, <1>11, <1>12, <1>13,
     <1>14, <1>15, <1>16, <1>17, <1>18, <1>19, <1>20, <1>21, <1>22, <1>23, <1>24, <1>25,
     <1>26, <1>27, <1>28, <1>29, <1>30, <1>31, <1>32, <1>33, <1>34 DEF Vnc!Next, Vnc!ThreadStep,
     Vnc!MainStep

\* The thread signals the end where it stops; the clean-up waits until it has stopped.
LEMMA VncEndStep ==
    ASSUME MaxEvents \in Nat, VncTypes, VncPlaceInv, VncNewInv, VncEndInv, VncCloseInv,
           [Vnc!Next]_(Vnc!vars)
    PROVE  VncEndInv'
<1> USE DEF VncTypes, VncSession, VncQueue, VncIdle, VncWidget, VncPlaceInv, VncNewInv,
   VncEndInv, VncCloseInv, VncBefore, VncAfter
<1>1. CASE Vnc!Open
  BY <1>1 DEF Vnc!Open, Vnc!MainFree
<1>2. CASE Vnc!Start
  BY <1>2 DEF Vnc!Start
<1>3. CASE Vnc!Attempt
  BY <1>3 DEF Vnc!Attempt
<1>4. CASE Vnc!Listen
  BY <1>4 DEF Vnc!Listen
<1>5. CASE Vnc!InitClient
  BY <1>5 DEF Vnc!InitClient, Vnc!AllocFrameBuffer
<1>6. CASE Vnc!Auth
  BY <1>6 DEF Vnc!Auth, Vnc!AllocFrameBuffer
<1>7. CASE Vnc!Answer
  BY <1>7 DEF Vnc!Answer, Vnc!AllocFrameBuffer
<1>8. CASE Vnc!Result
  BY <1>8 DEF Vnc!Result
<1>9. CASE Vnc!Retry
  BY <1>9 DEF Vnc!Retry
<1>10. CASE Vnc!Framed
  BY <1>10 DEF Vnc!Framed
<1>11. CASE Vnc!Over
  BY <1>11 DEF Vnc!Over
<1>12. CASE Vnc!Signal
  BY <1>12 DEF Vnc!Signal
<1>13. CASE Vnc!Notify
  BY <1>13 DEF Vnc!Notify
<1>14. CASE Vnc!Connected
  BY <1>14 DEF Vnc!Connected
<1>15. CASE Vnc!Select
  BY <1>15 DEF Vnc!Select
<1>16. CASE Vnc!Drain
  BY <1>16 DEF Vnc!Drain
<1>17. CASE Vnc!Read
  BY <1>17 DEF Vnc!Read
<1>18. CASE Vnc!Message
  BY <1>18 DEF Vnc!Message, Vnc!AllocFrameBuffer
<1>19. CASE Vnc!ServeScale
  BY <1>19 DEF Vnc!ServeScale, Vnc!MainFree
<1>20. CASE Vnc!Draw
  BY <1>20 DEF Vnc!Draw, Vnc!MainFree
<1>21. CASE Vnc!ServerText
  BY <1>21 DEF Vnc!ServerText, Vnc!MainFree
<1>22. CASE Vnc!Write
  BY <1>22 DEF Vnc!Write
<1>23. CASE Vnc!OpenChat
  BY <1>23 DEF Vnc!OpenChat, Vnc!event_push, Vnc!MainFree
<1>24. CASE Vnc!on_cuttext_request
  BY <1>24 DEF Vnc!on_cuttext_request, Vnc!event_push, Vnc!MainFree
<1>25. CASE Vnc!close_connection
  BY <1>25 DEF Vnc!close_connection
<1>26. CASE Vnc!Die
  BY <1>26 DEF Vnc!Die
<1>27. CASE Vnc!Join
  BY <1>27 DEF Vnc!Join, Vnc!CleanUp
<1>28. CASE Vnc!CloseTimer
  BY <1>28 DEF Vnc!CloseTimer, Vnc!CleanUp, Vnc!MainFree
<1>29. CASE Vnc!Input
  BY <1>29 DEF Vnc!Input, Vnc!event_push, Vnc!MainFree
<1>30. CASE Vnc!on_cuttext
  BY <1>30 DEF Vnc!on_cuttext, Vnc!MainFree
<1>31. CASE Vnc!CloseRequest
  BY <1>31 DEF Vnc!CloseRequest, Vnc!MainFree
<1>32. CASE UNCHANGED Vnc!vars
  BY <1>32 DEF Vnc!vars
<1>33. CASE Vnc!call_feature
  BY <1>33 DEF Vnc!call_feature, Vnc!event_push, Vnc!MainFree
<1>34. CASE Vnc!TabGone
  BY <1>34 DEF Vnc!TabGone, Vnc!MainFree
<1> QED
  BY <1>1, <1>2, <1>3, <1>4, <1>5, <1>6, <1>7, <1>8, <1>9, <1>10, <1>11, <1>12, <1>13,
     <1>14, <1>15, <1>16, <1>17, <1>18, <1>19, <1>20, <1>21, <1>22, <1>23, <1>24, <1>25,
     <1>26, <1>27, <1>28, <1>29, <1>30, <1>31, <1>32, <1>33, <1>34 DEF Vnc!Next, Vnc!ThreadStep,
     Vnc!MainStep

\* A close begins on a session that has not ended, and disconnects it.
LEMMA VncCloseStep ==
    ASSUME MaxEvents \in Nat, VncTypes, VncNewInv, VncCloseInv, [Vnc!Next]_(Vnc!vars)
    PROVE  VncCloseInv'
<1> USE DEF VncTypes, VncSession, VncQueue, VncIdle, VncWidget, VncHistory, VncNewInv,
   VncCloseInv, Vnc!Closing
<1>1. CASE Vnc!Open
  BY <1>1 DEF Vnc!Open, Vnc!MainFree
<1>2. CASE Vnc!Start
  BY <1>2 DEF Vnc!Start
<1>3. CASE Vnc!Attempt
  BY <1>3 DEF Vnc!Attempt
<1>4. CASE Vnc!Listen
  BY <1>4 DEF Vnc!Listen
<1>5. CASE Vnc!InitClient
  BY <1>5 DEF Vnc!InitClient, Vnc!AllocFrameBuffer
<1>6. CASE Vnc!Auth
  BY <1>6 DEF Vnc!Auth, Vnc!AllocFrameBuffer
<1>7. CASE Vnc!Answer
  BY <1>7 DEF Vnc!Answer, Vnc!AllocFrameBuffer
<1>8. CASE Vnc!Result
  BY <1>8 DEF Vnc!Result
<1>9. CASE Vnc!Retry
  BY <1>9 DEF Vnc!Retry
<1>10. CASE Vnc!Framed
  BY <1>10 DEF Vnc!Framed
<1>11. CASE Vnc!Over
  BY <1>11 DEF Vnc!Over
<1>12. CASE Vnc!Signal
  BY <1>12 DEF Vnc!Signal
<1>13. CASE Vnc!Notify
  BY <1>13 DEF Vnc!Notify
<1>14. CASE Vnc!Connected
  BY <1>14 DEF Vnc!Connected
<1>15. CASE Vnc!Select
  BY <1>15 DEF Vnc!Select
<1>16. CASE Vnc!Drain
  BY <1>16 DEF Vnc!Drain
<1>17. CASE Vnc!Read
  BY <1>17 DEF Vnc!Read
<1>18. CASE Vnc!Message
  <2>1. vnc_idle'.timer = vnc_idle.timer
    BY <1>18 DEF Vnc!Message, Vnc!AllocFrameBuffer
  <2>2. vnc_sess'.threaded = vnc_sess.threaded /\ vnc_sess'.connected = vnc_sess.connected
    BY <1>18 DEF Vnc!Message
  <2>3. vnc_gp'.closes = vnc_gp.closes
    BY <1>18 DEF Vnc!Message
  <2> QED BY <1>18, <2>1, <2>2, <2>3 DEF Vnc!Message
<1>19. CASE Vnc!ServeScale
  BY <1>19 DEF Vnc!ServeScale, Vnc!MainFree
<1>20. CASE Vnc!Draw
  BY <1>20 DEF Vnc!Draw, Vnc!MainFree
<1>21. CASE Vnc!ServerText
  BY <1>21 DEF Vnc!ServerText, Vnc!MainFree
<1>22. CASE Vnc!Write
  BY <1>22 DEF Vnc!Write
<1>23. CASE Vnc!OpenChat
  BY <1>23 DEF Vnc!OpenChat, Vnc!event_push, Vnc!MainFree
<1>24. CASE Vnc!on_cuttext_request
  BY <1>24 DEF Vnc!on_cuttext_request, Vnc!event_push, Vnc!MainFree
<1>25. CASE Vnc!close_connection
  BY <1>25 DEF Vnc!close_connection
<1>26. CASE Vnc!Die
  BY <1>26 DEF Vnc!Die
<1>27. CASE Vnc!Join
  BY <1>27 DEF Vnc!Join, Vnc!CleanUp
<1>28. CASE Vnc!CloseTimer
  <2>1. /\ vnc_idle.timer \in {1, 2} /\ ~vnc_sess.threaded /\ ~vnc_sess.connected
        /\ vnc_main = "loop" /\ vnc_main' = "loop"
    BY <1>28 DEF Vnc!CloseTimer, Vnc!MainFree
  <2>2. vnc_idle'.timer = vnc_idle.timer - 1 /\ ~vnc_sess'.threaded /\ ~vnc_sess'.connected
    BY <1>28, <2>1 DEF Vnc!CloseTimer, Vnc!CleanUp
  <2>3. vnc_idle'.timer > 0 => vnc_hist'.late
    BY <1>28, <2>1, <2>2 DEF Vnc!CloseTimer, Vnc!CleanUp
  <2> QED BY <2>1, <2>2, <2>3
<1>29. CASE Vnc!Input
  BY <1>29 DEF Vnc!Input, Vnc!event_push, Vnc!MainFree
<1>30. CASE Vnc!on_cuttext
  BY <1>30 DEF Vnc!on_cuttext, Vnc!MainFree
<1>31. CASE Vnc!CloseRequest
  BY <1>31 DEF Vnc!CloseRequest, Vnc!MainFree
<1>32. CASE UNCHANGED Vnc!vars
  BY <1>32 DEF Vnc!vars
<1>33. CASE Vnc!call_feature
  BY <1>33 DEF Vnc!call_feature, Vnc!event_push, Vnc!MainFree
<1>34. CASE Vnc!TabGone
  BY <1>34 DEF Vnc!TabGone, Vnc!MainFree
<1> QED
  BY <1>1, <1>2, <1>3, <1>4, <1>5, <1>6, <1>7, <1>8, <1>9, <1>10, <1>11, <1>12, <1>13,
     <1>14, <1>15, <1>16, <1>17, <1>18, <1>19, <1>20, <1>21, <1>22, <1>23, <1>24, <1>25,
     <1>26, <1>27, <1>28, <1>29, <1>30, <1>31, <1>32, <1>33, <1>34 DEF Vnc!Next, Vnc!ThreadStep,
     Vnc!MainStep

\* What comes back after the clean-up was under way when it began.
LEMMA VncLateStep ==
    ASSUME MaxEvents \in Nat, VncTypes, VncPlaceInv, VncNewInv, VncEndInv, VncCloseInv,
           VncLateInv, [Vnc!Next]_(Vnc!vars)
    PROVE  VncLateInv'
<1> USE DEF VncTypes, VncSession, VncQueue, VncIdle, VncWidget, VncHistory, VncPlaceInv,
   VncNewInv, VncEndInv, VncCloseInv, VncLateInv, VncBefore, VncAfter
<1>1. CASE Vnc!Open
  BY <1>1 DEF Vnc!Open, Vnc!MainFree
<1>2. CASE Vnc!Start
  BY <1>2 DEF Vnc!Start
<1>3. CASE Vnc!Attempt
  BY <1>3 DEF Vnc!Attempt
<1>4. CASE Vnc!Listen
  BY <1>4 DEF Vnc!Listen
<1>5. CASE Vnc!InitClient
  BY <1>5 DEF Vnc!InitClient, Vnc!AllocFrameBuffer
<1>6. CASE Vnc!Auth
  BY <1>6 DEF Vnc!Auth, Vnc!AllocFrameBuffer
<1>7. CASE Vnc!Answer
  BY <1>7 DEF Vnc!Answer, Vnc!AllocFrameBuffer
<1>8. CASE Vnc!Result
  BY <1>8 DEF Vnc!Result
<1>9. CASE Vnc!Retry
  BY <1>9 DEF Vnc!Retry
<1>10. CASE Vnc!Framed
  BY <1>10 DEF Vnc!Framed
<1>11. CASE Vnc!Over
  BY <1>11 DEF Vnc!Over
<1>12. CASE Vnc!Signal
  BY <1>12 DEF Vnc!Signal
<1>13. CASE Vnc!Notify
  BY <1>13 DEF Vnc!Notify
<1>14. CASE Vnc!Connected
  BY <1>14 DEF Vnc!Connected
<1>15. CASE Vnc!Select
  BY <1>15 DEF Vnc!Select
<1>16. CASE Vnc!Drain
  BY <1>16 DEF Vnc!Drain
<1>17. CASE Vnc!Read
  BY <1>17 DEF Vnc!Read
<1>18. CASE Vnc!Message
  BY <1>18 DEF Vnc!Message, Vnc!AllocFrameBuffer
<1>19. CASE Vnc!ServeScale
  BY <1>19 DEF Vnc!ServeScale, Vnc!MainFree
<1>20. CASE Vnc!Draw
  BY <1>20 DEF Vnc!Draw, Vnc!MainFree
<1>21. CASE Vnc!ServerText
  BY <1>21 DEF Vnc!ServerText, Vnc!MainFree
<1>22. CASE Vnc!Write
  BY <1>22 DEF Vnc!Write
<1>23. CASE Vnc!OpenChat
  BY <1>23 DEF Vnc!OpenChat, Vnc!event_push, Vnc!MainFree
<1>24. CASE Vnc!on_cuttext_request
  BY <1>24 DEF Vnc!on_cuttext_request, Vnc!event_push, Vnc!MainFree
<1>25. CASE Vnc!close_connection
  BY <1>25 DEF Vnc!close_connection
<1>26. CASE Vnc!Die
  BY <1>26 DEF Vnc!Die
<1>27. CASE Vnc!Join
  BY <1>27 DEF Vnc!Join, Vnc!CleanUp
<1>28. CASE Vnc!CloseTimer
  BY <1>28 DEF Vnc!CloseTimer, Vnc!CleanUp, Vnc!MainFree
<1>29. CASE Vnc!Input
  BY <1>29 DEF Vnc!Input, Vnc!event_push, Vnc!MainFree
<1>30. CASE Vnc!on_cuttext
  BY <1>30 DEF Vnc!on_cuttext, Vnc!MainFree
<1>31. CASE Vnc!CloseRequest
  BY <1>31 DEF Vnc!CloseRequest, Vnc!MainFree
<1>32. CASE UNCHANGED Vnc!vars
  BY <1>32 DEF Vnc!vars
<1>33. CASE Vnc!call_feature
  BY <1>33 DEF Vnc!call_feature, Vnc!event_push, Vnc!MainFree
<1>34. CASE Vnc!TabGone
  BY <1>34 DEF Vnc!TabGone, Vnc!MainFree
<1> QED
  BY <1>1, <1>2, <1>3, <1>4, <1>5, <1>6, <1>7, <1>8, <1>9, <1>10, <1>11, <1>12, <1>13,
     <1>14, <1>15, <1>16, <1>17, <1>18, <1>19, <1>20, <1>21, <1>22, <1>23, <1>24, <1>25,
     <1>26, <1>27, <1>28, <1>29, <1>30, <1>31, <1>32, <1>33, <1>34 DEF Vnc!Next, Vnc!ThreadStep,
     Vnc!MainStep

\* The source that draws has its number, up to the clean-up that removes it.
LEMMA VncDrawStep ==
    ASSUME MaxEvents \in Nat, VncTypes, VncPlaceInv, VncNewInv, VncCloseInv, VncDrawInv,
           [Vnc!Next]_(Vnc!vars)
    PROVE  VncDrawInv'
<1> USE DEF VncTypes, VncSession, VncIdle, VncPlaceInv, VncNewInv, VncCloseInv, VncDrawInv,
   Vnc!DrawKnown, VncBefore, VncAfter
<1>1. CASE Vnc!Open
  BY <1>1 DEF Vnc!Open, Vnc!MainFree
<1>2. CASE Vnc!Start
  BY <1>2 DEF Vnc!Start
<1>3. CASE Vnc!Attempt
  BY <1>3 DEF Vnc!Attempt
<1>4. CASE Vnc!Listen
  BY <1>4 DEF Vnc!Listen
<1>5. CASE Vnc!InitClient
  BY <1>5 DEF Vnc!InitClient, Vnc!AllocFrameBuffer
<1>6. CASE Vnc!Auth
  BY <1>6 DEF Vnc!Auth, Vnc!AllocFrameBuffer
<1>7. CASE Vnc!Answer
  BY <1>7 DEF Vnc!Answer, Vnc!AllocFrameBuffer
<1>8. CASE Vnc!Result
  BY <1>8 DEF Vnc!Result
<1>9. CASE Vnc!Retry
  BY <1>9 DEF Vnc!Retry
<1>10. CASE Vnc!Framed
  BY <1>10 DEF Vnc!Framed
<1>11. CASE Vnc!Over
  BY <1>11 DEF Vnc!Over
<1>12. CASE Vnc!Signal
  BY <1>12 DEF Vnc!Signal
<1>13. CASE Vnc!Notify
  BY <1>13 DEF Vnc!Notify
<1>14. CASE Vnc!Connected
  BY <1>14 DEF Vnc!Connected
<1>15. CASE Vnc!Select
  BY <1>15 DEF Vnc!Select
<1>16. CASE Vnc!Drain
  BY <1>16 DEF Vnc!Drain
<1>17. CASE Vnc!Read
  BY <1>17 DEF Vnc!Read
<1>18. CASE Vnc!Message
  BY <1>18 DEF Vnc!Message, Vnc!AllocFrameBuffer
<1>19. CASE Vnc!ServeScale
  BY <1>19 DEF Vnc!ServeScale, Vnc!MainFree
<1>20. CASE Vnc!Draw
  BY <1>20 DEF Vnc!Draw, Vnc!MainFree
<1>21. CASE Vnc!ServerText
  BY <1>21 DEF Vnc!ServerText, Vnc!MainFree
<1>22. CASE Vnc!Write
  BY <1>22 DEF Vnc!Write
<1>23. CASE Vnc!OpenChat
  BY <1>23 DEF Vnc!OpenChat, Vnc!event_push, Vnc!MainFree
<1>24. CASE Vnc!on_cuttext_request
  BY <1>24 DEF Vnc!on_cuttext_request, Vnc!event_push, Vnc!MainFree
<1>25. CASE Vnc!close_connection
  BY <1>25 DEF Vnc!close_connection
<1>26. CASE Vnc!Die
  BY <1>26 DEF Vnc!Die
<1>27. CASE Vnc!Join
  BY <1>27 DEF Vnc!Join, Vnc!CleanUp
<1>28. CASE Vnc!CloseTimer
  BY <1>28 DEF Vnc!CloseTimer, Vnc!CleanUp, Vnc!MainFree
<1>29. CASE Vnc!Input
  BY <1>29 DEF Vnc!Input, Vnc!event_push, Vnc!MainFree
<1>30. CASE Vnc!on_cuttext
  BY <1>30 DEF Vnc!on_cuttext, Vnc!MainFree
<1>31. CASE Vnc!CloseRequest
  BY <1>31 DEF Vnc!CloseRequest, Vnc!MainFree
<1>32. CASE UNCHANGED Vnc!vars
  BY <1>32 DEF Vnc!vars
<1>33. CASE Vnc!call_feature
  BY <1>33 DEF Vnc!call_feature, Vnc!event_push, Vnc!MainFree
<1>34. CASE Vnc!TabGone
  BY <1>34 DEF Vnc!TabGone, Vnc!MainFree
<1> QED
  BY <1>1, <1>2, <1>3, <1>4, <1>5, <1>6, <1>7, <1>8, <1>9, <1>10, <1>11, <1>12, <1>13,
     <1>14, <1>15, <1>16, <1>17, <1>18, <1>19, <1>20, <1>21, <1>22, <1>23, <1>24, <1>25,
     <1>26, <1>27, <1>28, <1>29, <1>30, <1>31, <1>32, <1>33, <1>34 DEF Vnc!Next, Vnc!ThreadStep,
     Vnc!MainStep

\* The properties.
LEMMA VncFaultStep ==
    ASSUME MaxEvents \in Nat, VncTypes, VncNewInv, VncEndInv, VncCloseInv, VncLateInv,
           Vnc!ClosedOnce, Vnc!FaultNeedsLate, [Vnc!Next]_(Vnc!vars)
    PROVE  (Vnc!ClosedOnce /\ Vnc!FaultNeedsLate)'
<1> USE DEF VncTypes, VncSession, VncQueue, VncIdle, VncWidget, VncHistory, VncNewInv,
   VncEndInv, VncCloseInv, VncLateInv, Vnc!ClosedOnce, Vnc!FaultNeedsLate, Vnc!Closing
<1>1. CASE Vnc!Open
  BY <1>1 DEF Vnc!Open, Vnc!MainFree
<1>2. CASE Vnc!Start
  BY <1>2 DEF Vnc!Start, Vnc!ThreadRuns
<1>3. CASE Vnc!Attempt
  BY <1>3 DEF Vnc!Attempt, Vnc!ThreadRuns
<1>4. CASE Vnc!Listen
  BY <1>4 DEF Vnc!Listen, Vnc!ThreadRuns
<1>5. CASE Vnc!InitClient
  BY <1>5 DEF Vnc!InitClient, Vnc!AllocFrameBuffer, Vnc!ThreadRuns
<1>6. CASE Vnc!Auth
  BY <1>6 DEF Vnc!Auth, Vnc!AllocFrameBuffer, Vnc!ThreadRuns
<1>7. CASE Vnc!Answer
  BY <1>7 DEF Vnc!Answer, Vnc!AllocFrameBuffer, Vnc!ThreadRuns
<1>8. CASE Vnc!Result
  BY <1>8 DEF Vnc!Result, Vnc!ThreadRuns
<1>9. CASE Vnc!Retry
  BY <1>9 DEF Vnc!Retry, Vnc!ThreadRuns
<1>10. CASE Vnc!Framed
  BY <1>10 DEF Vnc!Framed, Vnc!ThreadRuns
<1>11. CASE Vnc!Over
  BY <1>11 DEF Vnc!Over, Vnc!ThreadRuns
<1>12. CASE Vnc!Signal
  BY <1>12 DEF Vnc!Signal, Vnc!ThreadRuns
<1>13. CASE Vnc!Notify
  BY <1>13 DEF Vnc!Notify, Vnc!ThreadRuns
<1>14. CASE Vnc!Connected
  BY <1>14 DEF Vnc!Connected, Vnc!ThreadRuns
<1>15. CASE Vnc!Select
  BY <1>15 DEF Vnc!Select, Vnc!ThreadRuns
<1>16. CASE Vnc!Drain
  BY <1>16 DEF Vnc!Drain, Vnc!ThreadRuns
<1>17. CASE Vnc!Read
  BY <1>17 DEF Vnc!Read, Vnc!ThreadRuns
<1>18. CASE Vnc!Message
  BY <1>18 DEF Vnc!Message, Vnc!AllocFrameBuffer, Vnc!ThreadRuns
<1>19. CASE Vnc!ServeScale
  BY <1>19 DEF Vnc!ServeScale, Vnc!MainFree
<1>20. CASE Vnc!Draw
  BY <1>20 DEF Vnc!Draw, Vnc!MainFree
<1>21. CASE Vnc!ServerText
  BY <1>21 DEF Vnc!ServerText, Vnc!MainFree
<1>22. CASE Vnc!Write
  BY <1>22 DEF Vnc!Write
<1>23. CASE Vnc!OpenChat
  BY <1>23 DEF Vnc!OpenChat, Vnc!event_push, Vnc!MainFree
<1>24. CASE Vnc!on_cuttext_request
  BY <1>24 DEF Vnc!on_cuttext_request, Vnc!event_push, Vnc!MainFree
<1>25. CASE Vnc!close_connection
  BY <1>25 DEF Vnc!close_connection
<1>26. CASE Vnc!Die
  BY <1>26 DEF Vnc!Die
<1>27. CASE Vnc!Join
  BY <1>27 DEF Vnc!Join, Vnc!CleanUp
<1>28. CASE Vnc!CloseTimer
  BY <1>28 DEF Vnc!CloseTimer, Vnc!CleanUp, Vnc!MainFree
<1>29. CASE Vnc!Input
  BY <1>29 DEF Vnc!Input, Vnc!event_push, Vnc!MainFree
<1>30. CASE Vnc!on_cuttext
  BY <1>30 DEF Vnc!on_cuttext, Vnc!MainFree
<1>31. CASE Vnc!CloseRequest
  BY <1>31 DEF Vnc!CloseRequest, Vnc!MainFree
<1>32. CASE UNCHANGED Vnc!vars
  BY <1>32 DEF Vnc!vars
<1>33. CASE Vnc!call_feature
  BY <1>33 DEF Vnc!call_feature, Vnc!event_push, Vnc!MainFree
<1>34. CASE Vnc!TabGone
  BY <1>34 DEF Vnc!TabGone, Vnc!MainFree
<1> QED
  BY <1>1, <1>2, <1>3, <1>4, <1>5, <1>6, <1>7, <1>8, <1>9, <1>10, <1>11, <1>12, <1>13,
     <1>14, <1>15, <1>16, <1>17, <1>18, <1>19, <1>20, <1>21, <1>22, <1>23, <1>24, <1>25,
     <1>26, <1>27, <1>28, <1>29, <1>30, <1>31, <1>32, <1>33, <1>34 DEF Vnc!Next, Vnc!ThreadStep,
     Vnc!MainStep

(* The theorems.                                                           *)

\* It holds before the thread starts.
LEMMA VncInitInv == ASSUME MaxEvents \in Nat, Vnc!Init PROVE VncIInv
<1>1. VncTypes
  <2> USE DEF Vnc!Init
  <2>1. vnc_sess \in VncSession /\ vnc_hist \in VncHistory /\ vnc_gp \in VncWidget
    BY DEF VncSession, VncHistory, VncWidget
  <2>2. vnc_queue \in VncQueue /\ vnc_idle \in VncIdle
    BY DEF VncQueue, VncIdle
  <2> QED BY <2>1, <2>2 DEF VncTypes, Vnc!ThreadStates
<1>2. VncPlaceInv /\ VncNewInv /\ VncEndInv
  BY DEF Vnc!Init, VncPlaceInv, VncNewInv, VncEndInv, VncBefore, VncAfter
<1>3. VncCloseInv /\ VncLateInv
  BY DEF Vnc!Init, VncCloseInv, VncLateInv, Vnc!Closing
<1>4. VncDrawInv /\ Vnc!ClosedOnce /\ Vnc!FaultNeedsLate
  BY DEF Vnc!Init, VncDrawInv, Vnc!DrawKnown, VncBefore, VncAfter, Vnc!ClosedOnce,
     Vnc!FaultNeedsLate
<1> QED BY <1>1, <1>2, <1>3, <1>4 DEF VncIInv

\* Every step keeps the invariant.
LEMMA VncStepInv == ASSUME MaxEvents \in Nat, VncIInv, [Vnc!Next]_(Vnc!vars) PROVE VncIInv'
BY VncTypeStep, VncPlaceStep, VncNewStep, VncEndStep, VncCloseStep, VncLateStep,
   VncDrawStep, VncFaultStep DEF VncIInv

\* The invariant of a VNC session (src/plugins/vnc/vnc_plugin.c) holds for any bound on the
\* events in its queue.
THEOREM VncInvariance ==
    ASSUME MaxEvents \in Nat
    PROVE  Vnc!Spec => []VncIInv
<1>1. Vnc!Init => VncIInv
  BY VncInitInv
<1>2. VncIInv /\ [Vnc!Next]_(Vnc!vars) => VncIInv'
  BY VncStepInv
<1> QED BY <1>1, <1>2, PTL DEF Vnc!Spec

\* The variables of the session stay in their types: no more than two closes are signalled
\* (remmina_protocol_widget_signal_connection_closed), and no more than two timers of a
\* close are pending.
THEOREM VncTyping ==
    ASSUME MaxEvents \in Nat
    PROVE  Vnc!Spec => []Vnc!TypeOK
<1>1. VncIInv => Vnc!TypeOK
  BY VncTypesAre DEF VncIInv
<1> QED BY <1>1, VncInvariance, PTL

\* The end is signalled twice only if the thread signalled it under a close of the user, or
\* something came late; after the clean-up (remmina_plugin_vnc_close_connection_timeout)
\* nothing is used that it freed, but by what was on its way when it began or by a feature
\* that the tab calls before it goes (remmina_plugin_vnc_call_feature looks at nothing); and
\* the source that draws is removed by its number.
THEOREM VncCleansUpOnce ==
    ASSUME MaxEvents \in Nat
    PROVE  Vnc!Spec => [](Vnc!ClosedOnce /\ Vnc!FaultNeedsLate /\ Vnc!DrawKnown)
<1>1. VncIInv => Vnc!ClosedOnce /\ Vnc!FaultNeedsLate /\ Vnc!DrawKnown
  BY DEF VncIInv, VncDrawInv
<1> QED BY <1>1, VncInvariance, PTL

(* What the protocol widget is told.                                       *)

\* The clean-up signals the end, if nobody did.
LEMMA VncCleanUpKeeps ==
    ASSUME VncTypes, vnc_pc # "new", UNCHANGED vnc_pc, NEW n, Vnc!CleanUp(n)
    PROVE  [Vnc!Promise!Next]_(Vnc!Promise!vars)
<1>1. vnc_gp \in VncWidget
  BY DEF VncTypes
<1>2. CASE vnc_gp.closes = 0
  <2>1. vnc_gp' = [vnc_gp EXCEPT !.closes = 1]
    BY <1>2 DEF Vnc!CleanUp
  <2>2. vnc_gp'.opened = vnc_gp.opened /\ vnc_gp'.closes = 1
    BY <1>1, <2>1 DEF VncWidget
  <2> QED BY <1>2, <2>2 DEF Vnc!Promise!Next, Vnc!Promise!Closed
<1>3. CASE vnc_gp.closes > 0
  <2>1. vnc_gp'.opened = vnc_gp.opened /\ vnc_gp'.closes > 0
    BY <1>1, <1>3 DEF Vnc!CleanUp, VncWidget
  <2> QED BY <1>3, <2>1 DEF Vnc!Promise!vars
<1> QED BY <1>1, <1>2, <1>3 DEF VncWidget

\* The thread signals the opening once, and the end when nobody did.
LEMMA VncSignalKeeps ==
    ASSUME VncTypes, VncPlaceInv, VncEndInv, Vnc!Signal
    PROVE  [Vnc!Promise!Next]_(Vnc!Promise!vars)
<1>1. vnc_gp \in VncWidget /\ vnc_gp.closes = 0
  BY DEF VncTypes, VncWidget, VncEndInv, Vnc!Signal
<1>2. CASE vnc_next = "ended"
  <2>1. vnc_gp'.opened = vnc_gp.opened /\ vnc_gp'.closes = 1
    BY <1>1, <1>2 DEF Vnc!Signal, VncWidget
  <2>2. vnc_pc # "new" /\ vnc_pc' # "new"
    BY <1>2 DEF Vnc!Signal
  <2> QED BY <1>1, <2>1, <2>2 DEF Vnc!Promise!Next, Vnc!Promise!Closed
<1>3. CASE vnc_next = "select"
  <2>1. ~vnc_gp.opened /\ vnc_gp'.opened /\ vnc_gp'.closes = 0
    BY <1>1, <1>3 DEF Vnc!Signal, VncWidget, VncPlaceInv
  <2>2. vnc_pc # "new" /\ vnc_pc' # "new"
    BY <1>3 DEF Vnc!Signal
  <2> QED BY <1>1, <2>1, <2>2 DEF Vnc!Promise!Next, Vnc!Promise!Opened
<1> QED BY <1>2, <1>3 DEF Vnc!Signal, VncPlaceInv

\* Every other step is silent.
LEMMA VncPromiseStep ==
    ASSUME VncIInv, [Vnc!Next]_(Vnc!vars)
    PROVE  [Vnc!Promise!Next]_(Vnc!Promise!vars)
<1> USE DEF VncIInv
<1>1. CASE Vnc!Open
  <2>1. vnc_gp.closes = 0 /\ ~vnc_gp.opened
    BY <1>1 DEF Vnc!Open, VncTypes, VncWidget, VncEndInv, VncPlaceInv, VncBefore
  <2> QED BY <1>1, <2>1 DEF Vnc!Open, Vnc!Promise!Next, Vnc!Promise!Start
<1>2. CASE Vnc!Signal
  BY <1>2, VncSignalKeeps
<1>3. CASE Vnc!Join
  BY <1>3, VncCleanUpKeeps DEF Vnc!Join
<1>4. CASE Vnc!CloseTimer
  <2>1. vnc_pc # "new"
    BY <1>4 DEF Vnc!CloseTimer, VncNewInv, VncTypes, VncIdle
  <2> QED BY <1>4, <2>1, VncCleanUpKeeps DEF Vnc!CloseTimer
<1>5. CASE UNCHANGED Vnc!vars
  BY <1>5 DEF Vnc!vars, Vnc!Promise!vars
<1>6. CASE Vnc!Start
  BY <1>6 DEF Vnc!Start, Vnc!Promise!vars
<1>7. CASE Vnc!Attempt
  <2>1. vnc_gp'.opened = vnc_gp.opened /\ vnc_gp'.closes = vnc_gp.closes
    BY <1>7 DEF Vnc!Attempt, VncTypes, VncWidget
  <2> QED BY <1>7, <2>1 DEF Vnc!Attempt, Vnc!Promise!vars
<1>8. CASE Vnc!Listen
  BY <1>8 DEF Vnc!Listen, Vnc!Promise!vars
<1>9. CASE Vnc!InitClient
  BY <1>9 DEF Vnc!InitClient, Vnc!AllocFrameBuffer, Vnc!Promise!vars
<1>10. CASE Vnc!Auth
  BY <1>10 DEF Vnc!Auth, Vnc!AllocFrameBuffer, Vnc!Promise!vars
<1>11. CASE Vnc!Answer
  BY <1>11 DEF Vnc!Answer, Vnc!AllocFrameBuffer, Vnc!Promise!vars
<1>12. CASE Vnc!Result
  BY <1>12 DEF Vnc!Result, Vnc!Promise!vars
<1>13. CASE Vnc!Retry
  BY <1>13 DEF Vnc!Retry, Vnc!Promise!vars
<1>14. CASE Vnc!Framed
  BY <1>14 DEF Vnc!Framed, Vnc!Promise!vars
<1>15. CASE Vnc!Over
  <2>1. vnc_gp'.opened = vnc_gp.opened /\ vnc_gp'.closes = vnc_gp.closes
    BY <1>15 DEF Vnc!Over, VncTypes, VncWidget
  <2> QED BY <1>15, <2>1 DEF Vnc!Over, Vnc!Promise!vars
<1>16. CASE Vnc!Notify
  BY <1>16 DEF Vnc!Notify, VncPlaceInv, Vnc!Promise!vars
<1>17. CASE Vnc!Connected
  BY <1>17 DEF Vnc!Connected, Vnc!Promise!vars
<1>18. CASE Vnc!Select
  BY <1>18 DEF Vnc!Select, Vnc!Promise!vars
<1>19. CASE Vnc!Drain
  BY <1>19 DEF Vnc!Drain, Vnc!Promise!vars
<1>20. CASE Vnc!Read
  BY <1>20 DEF Vnc!Read, Vnc!Promise!vars
<1>21. CASE Vnc!Message
  <2>1. vnc_gp'.opened = vnc_gp.opened /\ vnc_gp'.closes = vnc_gp.closes
    BY <1>21 DEF Vnc!Message, VncTypes, VncWidget
  <2> QED BY <1>21, <2>1 DEF Vnc!Message, Vnc!AllocFrameBuffer, Vnc!Promise!vars
<1>22. CASE Vnc!ServeScale
  BY <1>22 DEF Vnc!ServeScale, Vnc!MainFree, Vnc!Promise!vars
<1>23. CASE Vnc!Draw
  BY <1>23 DEF Vnc!Draw, Vnc!MainFree, Vnc!Promise!vars
<1>24. CASE Vnc!ServerText
  BY <1>24 DEF Vnc!ServerText, Vnc!MainFree, Vnc!Promise!vars
<1>25. CASE Vnc!Write
  BY <1>25 DEF Vnc!Write, Vnc!Promise!vars
<1>26. CASE Vnc!OpenChat
  BY <1>26 DEF Vnc!OpenChat, Vnc!event_push, Vnc!MainFree, Vnc!Promise!vars
<1>27. CASE Vnc!on_cuttext_request
  BY <1>27 DEF Vnc!on_cuttext_request, Vnc!event_push, Vnc!MainFree, Vnc!Promise!vars
<1>28. CASE Vnc!close_connection
  BY <1>28 DEF Vnc!close_connection, Vnc!Promise!vars
<1>29. CASE Vnc!Die
  <2>1. vnc_pc # "new"
    BY <1>29 DEF Vnc!Die, VncNewInv
  <2> QED BY <1>29, <2>1 DEF Vnc!Die, Vnc!Promise!vars
<1>30. CASE Vnc!Input
  BY <1>30 DEF Vnc!Input, Vnc!event_push, Vnc!MainFree, Vnc!Promise!vars
<1>31. CASE Vnc!on_cuttext
  BY <1>31 DEF Vnc!on_cuttext, Vnc!MainFree, Vnc!Promise!vars
<1>32. CASE Vnc!CloseRequest
  BY <1>32 DEF Vnc!CloseRequest, Vnc!MainFree, Vnc!Promise!vars
<1>33. CASE Vnc!call_feature
  BY <1>33 DEF Vnc!call_feature, Vnc!event_push, Vnc!MainFree, Vnc!Promise!vars
<1>34. CASE Vnc!TabGone
  <2>1. vnc_gp'.opened = vnc_gp.opened /\ vnc_gp'.closes = vnc_gp.closes
    BY <1>34 DEF Vnc!TabGone, VncTypes, VncWidget
  <2> QED BY <1>34, <2>1 DEF Vnc!TabGone, Vnc!Promise!vars
<1> QED
  BY <1>1, <1>2, <1>3, <1>4, <1>5, <1>6, <1>7, <1>8, <1>9, <1>10, <1>11, <1>12, <1>13,
     <1>14, <1>15, <1>16, <1>17, <1>18, <1>19, <1>20, <1>21, <1>22, <1>23, <1>24, <1>25,
     <1>26, <1>27, <1>28, <1>29, <1>30, <1>31, <1>32, <1>33, <1>34 DEF Vnc!Next, Vnc!ThreadStep,
     Vnc!MainStep

\* The session keeps the promise that ConnectionLifecycle relies on: opened at most once, then
\* over, whoever ends it.
THEOREM VncRefinement ==
    ASSUME MaxEvents \in Nat
    PROVE  Vnc!Spec => Vnc!KeepsPromise
<1>1. Vnc!Init => Vnc!Promise!Init
  BY DEF Vnc!Init, Vnc!Promise!Init
<1>2. VncIInv /\ [Vnc!Next]_(Vnc!vars) => [Vnc!Promise!Next]_(Vnc!Promise!vars)
  BY VncPromiseStep
<1> QED BY <1>1, <1>2, VncInvariance, PTL DEF Vnc!Spec, Vnc!KeepsPromise, Vnc!Promise!Spec

-----------------------------------------------------------------------------
(* The SSH tunnel (src/src/remmina_ssh.c), for any bound on the connections. *)
(* The invariant says which sockets and channels are open at each place of   *)
(* the thread: those in the arrays and the one in hand, but for what it is   *)
(* just about to remove or has already closed.  While the thread is alive    *)
(* this is an equality; a cancellation in the middle of a removal leaves     *)
(* one direction, which is enough for the freeing by the main thread to      *)
(* close the rest.                                                           *)

TunnelSlot == [ch : Tunnel!Ids \cup {0}, sk : Tunnel!Ids, buf : Tunnel!Ids \cup {0}]

TunnelRemoving == {"removing in read", "removing in poll"}
TunnelHolding == {"forward", "forward again"}
TunnelOver == {"none", "returned", "ending", "dead"}

\* Slot k has its socket, its channel, at this place of the thread.
TunnelHasSocket(k) ==
    /\ tunnel_pc = "closing" => k >= tunnel_i
    /\ tunnel_pc = "closing channel" => k > tunnel_i
TunnelHasChannel(k) ==
    /\ tunnel_pc \in {"closing", "closing channel"} => k >= tunnel_i
    /\ tunnel_pc \in TunnelRemoving => k # tunnel_i

\* Every slot was made by a connection of its own.
TunnelRoom ==
    /\ Len(tunnel_slots) <= tunnel_conns
    /\ tunnel_hand.sk # 0 => Len(tunnel_slots) < tunnel_conns
    /\ tunnel_hand.sk <= tunnel_conns /\ tunnel_hand.ch = 0
    /\ \A k \in 1 .. Len(tunnel_slots) : tunnel_slots[k].sk <= tunnel_conns

TunnelDistinct ==
    \A j, k \in 1 .. Len(tunnel_slots) : tunnel_slots[j].sk = tunnel_slots[k].sk => j = k

\* Where the index of the thread is, and what it has in hand.
TunnelPlace ==
    /\ tunnel_pc \in {"read", "poll", "closing"} => tunnel_i <= Len(tunnel_slots) + 1
    /\ tunnel_pc \in TunnelRemoving \cup {"closing channel"} => tunnel_i <= Len(tunnel_slots)
    /\ tunnel_pc \in TunnelHolding =>
          /\ tunnel_hand.sk \in tunnel_sockets /\ tunnel_hand.sk # 0
          /\ \A k \in 1 .. Len(tunnel_slots) : tunnel_slots[k].sk # tunnel_hand.sk
    /\ tunnel_pc \notin TunnelHolding \cup {"dead"} => tunnel_hand = Tunnel!Nothing

\* A channel that is missing is found by the pass over the channels, before another
\* connection is accepted.
TunnelHoles ==
    /\ \A k \in 1 .. Len(tunnel_slots) : tunnel_slots[k].ch = 0 => Len(tunnel_slots) = 1
       /\ tunnel_kind = "open"
    /\ tunnel_pc \in {"poll", "removing in poll"} =>
          \A k \in 1 .. Len(tunnel_slots) : k < tunnel_i => tunnel_slots[k].ch # 0
    /\ tunnel_pc \in {"accept", "forward again"} =>
          \A k \in 1 .. Len(tunnel_slots) : tunnel_slots[k].ch # 0
    /\ tunnel_pc = "first" => tunnel_kind # "open"
    /\ tunnel_pc = "forward" => tunnel_kind = "open"

\* Where nothing is left in the arrays, and what the main thread knows.
TunnelEmpty ==
    /\ tunnel_pc \in {"none", "start", "forward", "first", "returned", "ended", "ending"} =>
          tunnel_slots = <<>>
    /\ tunnel_notice => tunnel_pc = "dead" /\ tunnel_slots = <<>>
    /\ ~tunnel_alive => tunnel_slots = <<>> /\ tunnel_pc \in TunnelOver
    /\ tunnel_own = "new" => tunnel_pc = "none" /\ ~tunnel_listening
    /\ tunnel_own = "freed" => tunnel_slots = <<>> /\ ~tunnel_listening
       /\ tunnel_pc \in TunnelOver

\* What is open belongs to a slot or is in hand ...
TunnelOwned ==
    /\ \A s \in tunnel_sockets :
          s = tunnel_hand.sk \/ \E k \in 1 .. Len(tunnel_slots) : TunnelHasSocket(k)
             /\ tunnel_slots[k].sk = s
    /\ \A c \in tunnel_channels :
          \E k \in 1 .. Len(tunnel_slots) : TunnelHasChannel(k) /\ tunnel_slots[k].ch = c

\* ... and what belongs to a slot is open.
TunnelKept ==
    ~tunnel_torn =>
        \A k \in 1 .. Len(tunnel_slots) :
            /\ TunnelHasSocket(k) => tunnel_slots[k].sk \in tunnel_sockets
            /\ TunnelHasChannel(k) => tunnel_slots[k].ch \in tunnel_channels \cup {0}

TunnelTorn == (tunnel_torn => tunnel_pc = "dead") /\ Tunnel!ClosedOnce

TunnelPairs ==
    \A k \in 1 .. Len(tunnel_slots) :
        tunnel_slots[k].ch \in {0, tunnel_slots[k].sk}
           /\ tunnel_slots[k].buf \in {0, tunnel_slots[k].sk}

TunnelIInv ==
    /\ Tunnel!TypeOK /\ TunnelRoom /\ TunnelDistinct /\ TunnelPlace /\ TunnelHoles
       /\ TunnelEmpty
    /\ TunnelOwned /\ TunnelKept /\ TunnelTorn /\ TunnelPairs

(* The arrays.                                                             *)

\* The next slot goes to the end.
LEMMA TunnelAdded ==
    ASSUME NEW s \in Seq(TunnelSlot), NEW e \in TunnelSlot
    PROVE  LET t == Append(s, e) IN
           /\ t \in Seq(TunnelSlot) /\ Len(t) = Len(s) + 1
           /\ \A k \in 1 .. Len(s) : t[k] = s[k]
           /\ t[Len(s) + 1] = e
OBVIOUS

\* The last slot takes the place of the one that goes.
LEMMA TunnelFilled ==
    ASSUME tunnel_slots \in Seq(TunnelSlot), NEW n \in 1 .. Len(tunnel_slots)
    PROVE  /\ Tunnel!remove_slot(n) \in Seq(TunnelSlot)
           /\ Len(Tunnel!remove_slot(n)) = Len(tunnel_slots) - 1
           /\ \A k \in 1 .. Len(tunnel_slots) - 1 :
                 Tunnel!remove_slot(n)[k] = IF k = n
                    THEN tunnel_slots[Len(tunnel_slots)] ELSE tunnel_slots[k]
<1> DEFINE m == Len(tunnel_slots)
           s == [tunnel_slots EXCEPT ![n] = tunnel_slots[m]]
<1>1. m \in Nat /\ m \in 1 .. m /\ tunnel_slots[m] \in TunnelSlot
  OBVIOUS
<1>2. s \in Seq(TunnelSlot) /\ Len(s) = m
  BY <1>1
<1>3. \A k \in 1 .. m : s[k] = IF k = n THEN tunnel_slots[m] ELSE tunnel_slots[k]
  BY <1>1
<1>4. Tunnel!remove_slot(n) = SubSeq(s, 1, m - 1)
  BY DEF Tunnel!remove_slot
<1> HIDE DEF s
<1>5. m - 1 \in Nat /\ \A k \in 1 .. m - 1 : k \in 1 .. m
  BY <1>1
<1>6. SubSeq(s, 1, m - 1) \in Seq(TunnelSlot) /\ Len(SubSeq(s, 1, m - 1)) = m - 1
  BY <1>1, <1>2, <1>5
<1>7. \A k \in 1 .. m - 1 : SubSeq(s, 1, m - 1)[k] = s[k]
  BY <1>2, <1>5
<1> QED BY <1>3, <1>4, <1>5, <1>6, <1>7

(* The steps.                                                              *)

\* The types of what the steps compute with.
LEMMA TunnelShape ==
    ASSUME MaxConns \in Nat, TunnelIInv
    PROVE  /\ tunnel_slots \in Seq(TunnelSlot) /\ Len(tunnel_slots) \in Nat
              /\ DOMAIN tunnel_slots = 1 .. Len(tunnel_slots)
           /\ tunnel_i \in Nat /\ 1 <= tunnel_i /\ tunnel_i <= MaxConns + 1
           /\ tunnel_conns \in Nat /\ tunnel_conns <= MaxConns
              /\ Len(tunnel_slots) <= tunnel_conns
           /\ tunnel_hand.sk \in Nat /\ tunnel_hand.ch = 0
           /\ tunnel_pc \in Tunnel!Cancellable \cup {"none", "returned", "ended", "ending",
              "dead"}
<1>1. tunnel_hand.sk \in Tunnel!Ids \cup {0} /\ tunnel_conns \in 0 .. MaxConns
      /\ tunnel_i \in 1 .. MaxConns + 1
  BY DEF TunnelIInv, Tunnel!TypeOK
<1>2. tunnel_slots \in Seq(TunnelSlot)
  BY DEF TunnelIInv, Tunnel!TypeOK, TunnelSlot
<1>3. tunnel_pc \in Tunnel!Cancellable \cup {"none", "returned", "ended", "ending", "dead"}
  BY DEF TunnelIInv, Tunnel!TypeOK
<1> QED BY <1>1, <1>2, <1>3 DEF Tunnel!Ids, TunnelIInv, TunnelRoom

\* The thread moves on without touching the arrays.
TunnelMoved ==
    /\ UNCHANGED <<Tunnel!mainvars, tunnel_listening, tunnel_notice, tunnel_torn, tunnel_fault>>
    /\ UNCHANGED <<tunnel_alive, tunnel_running, tunnel_slots, tunnel_hand, tunnel_conns,
       tunnel_sockets, tunnel_channels, tunnel_twice>>

\* A step that leaves the sockets and channels as they are.
LEMMA TunnelMovesOn ==
    ASSUME MaxConns \in Nat, TunnelIInv, TunnelMoved,
           \/ /\ tunnel_pc \in {"loop", "first", "select", "read", "poll"}
              /\ tunnel_pc' = "closing" /\ tunnel_i' = 1
           \/ tunnel_pc = "loop" /\ tunnel_pc' = "select" /\ tunnel_i' = 1
           \/ tunnel_pc = "select" /\ tunnel_pc' \in {"read", "loop"} /\ tunnel_i' = 1
           \/ tunnel_pc = "read" /\ tunnel_pc' = "poll" /\ tunnel_i' = 1
           \/ tunnel_pc = "read" /\ tunnel_pc' = "read" /\ tunnel_i <= Len(tunnel_slots)
              /\ tunnel_i' = tunnel_i + 1
           \/ tunnel_pc = "poll" /\ tunnel_pc' = "accept"
              /\ tunnel_i > Len(tunnel_slots) /\ tunnel_i' = 1
           \/ tunnel_pc = "accept" /\ tunnel_pc' = "loop" /\ tunnel_i' = tunnel_i
    PROVE  TunnelIInv'
<1>1. /\ Len(tunnel_slots) \in Nat /\ tunnel_conns \in Nat /\ tunnel_i \in Nat /\ 1 <= tunnel_i
      /\ Len(tunnel_slots) <= tunnel_conns /\ tunnel_conns <= MaxConns
         /\ tunnel_i <= MaxConns + 1
  BY TunnelShape
<1>2. tunnel_pc' \notin TunnelHolding \cup TunnelRemoving \cup {"closing channel", "dead"}
  BY DEF TunnelHolding, TunnelRemoving
<1>3. tunnel_pc \notin TunnelHolding \cup TunnelRemoving \cup {"closing",
      "closing channel", "dead"}
  BY DEF TunnelHolding, TunnelRemoving
<1>4. tunnel_pc' = "closing" => tunnel_i' = 1
  OBVIOUS
<1>5. tunnel_i' \in 1 .. MaxConns + 1
      /\ (tunnel_pc' \in {"read", "poll"} => tunnel_i' <= Len(tunnel_slots) + 1)
  BY <1>1
<1>6. tunnel_pc' \in Tunnel!Cancellable
  BY DEF Tunnel!Cancellable
<1>7. Tunnel!TypeOK'
  BY <1>5, <1>6 DEF TunnelIInv, Tunnel!TypeOK, TunnelMoved, Tunnel!mainvars
<1>8. TunnelRoom' /\ TunnelDistinct' /\ TunnelPairs' /\ TunnelTorn'
  BY <1>2, <1>3 DEF TunnelIInv, TunnelRoom, TunnelDistinct, TunnelPairs, TunnelTorn,
     Tunnel!ClosedOnce, TunnelMoved
<1>9. TunnelPlace'
  <2>1. tunnel_hand = Tunnel!Nothing
    BY <1>3 DEF TunnelIInv, TunnelPlace
  <2>2. tunnel_pc' \in {"read", "poll", "closing"} => tunnel_i' <= Len(tunnel_slots) + 1
    BY <1>1, <1>4, <1>5
  <2>3. tunnel_slots' = tunnel_slots /\ tunnel_hand' = tunnel_hand
    BY DEF TunnelMoved
  <2> QED BY <1>2, <2>1, <2>2, <2>3 DEF TunnelPlace
<1>10. TunnelHoles'
  <2>1. /\ tunnel_pc' # "first" /\ tunnel_pc' # "removing in poll"
           /\ tunnel_pc' # "forward again" /\ tunnel_pc' # "forward"
        /\ tunnel_pc' = "poll" => tunnel_i' = 1
        /\ tunnel_pc' = "accept" => tunnel_pc = "poll" /\ tunnel_i > Len(tunnel_slots)
    OBVIOUS
  <2>2. tunnel_pc' = "accept" => \A k \in 1 .. Len(tunnel_slots) : tunnel_slots[k].ch # 0
    BY <1>1, <2>1 DEF TunnelIInv, TunnelHoles
  <2>3. \A k \in 1 .. Len(tunnel_slots) : tunnel_slots[k].ch = 0
        => Len(tunnel_slots) = 1 /\ tunnel_kind = "open"
    BY DEF TunnelIInv, TunnelHoles
  <2>4. \A k \in 1 .. Len(tunnel_slots) : ~ (k < 1)
    BY <1>1
  <2>5. UNCHANGED <<tunnel_slots, tunnel_kind>>
    BY DEF TunnelMoved, Tunnel!mainvars
  <2> QED BY <2>1, <2>2, <2>3, <2>4, <2>5 DEF TunnelHoles
<1>11. TunnelEmpty'
  BY TunnelShape DEF TunnelIInv, TunnelEmpty, TunnelOver, TunnelMoved, Tunnel!mainvars
<1>12. TunnelOwned'
  <2>1. ASSUME NEW k \in 1 .. Len(tunnel_slots) PROVE TunnelHasSocket(k)'
               /\ TunnelHasChannel(k)'
    <3>1. k >= 1
      BY <1>1
    <3> QED BY <1>2, <1>4, <3>1 DEF TunnelHasSocket, TunnelHasChannel
  <2> QED BY <2>1 DEF TunnelIInv, TunnelOwned, TunnelMoved
<1>13. TunnelKept'
  <2>1. \A k \in 1 .. Len(tunnel_slots) : TunnelHasSocket(k) /\ TunnelHasChannel(k)
    BY <1>3 DEF TunnelHasSocket, TunnelHasChannel
  <2> QED BY <2>1 DEF TunnelIInv, TunnelKept, TunnelMoved
<1> QED
  BY <1>7, <1>8, <1>9, <1>10, <1>11, <1>12, <1>13 DEF TunnelIInv

\* What no step of the thread that goes on changes.
TunnelAside == UNCHANGED <<Tunnel!mainvars, tunnel_listening, tunnel_notice, tunnel_torn,
   tunnel_fault, tunnel_alive>>

\* A connection takes a slot of its own: its socket sk is that of no slot, and its channel
\* ch is missing only if it is the first.
TunnelJoins(sk, ch) ==
    /\ TunnelAside /\ tunnel_twice' = tunnel_twice /\ tunnel_running' \in BOOLEAN
       /\ tunnel_i' \in 1 .. MaxConns + 1
    /\ tunnel_slots' = Append(tunnel_slots, [ch |-> ch, sk |-> sk, buf |-> 0])
    /\ tunnel_sockets' = tunnel_sockets \cup {sk}
       /\ tunnel_channels' = tunnel_channels \cup ({ch} \ {0})
    /\ tunnel_hand' = Tunnel!Nothing /\ tunnel_hand.sk \in {0, sk}
    /\ tunnel_conns' \in Nat /\ tunnel_conns <= tunnel_conns' /\ tunnel_conns' <= MaxConns
    /\ Len(tunnel_slots) + 1 <= tunnel_conns' /\ sk <= tunnel_conns'
    /\ \A k \in 1 .. Len(tunnel_slots) : tunnel_slots[k].sk # sk /\ tunnel_slots[k].ch # 0
    /\ ch = 0 => tunnel_slots = <<>> /\ tunnel_kind = "open"
    /\ tunnel_pc \in {"forward", "forward again", "first", "loop"}
    /\ tunnel_pc' \in {"loop", "select"}

\* A pair that is added to the arrays.
LEMMA TunnelAdds ==
    ASSUME MaxConns \in Nat, TunnelIInv, NEW sk \in Tunnel!Ids, NEW ch \in {0, sk},
           TunnelJoins(sk, ch)
    PROVE  TunnelIInv'
<1> DEFINE e == [ch |-> ch, sk |-> sk, buf |-> 0]
           n == Len(tunnel_slots) + 1
<1>1. /\ tunnel_slots \in Seq(TunnelSlot) /\ Len(tunnel_slots) \in Nat /\ tunnel_conns \in Nat
      /\ Len(tunnel_slots) <= tunnel_conns
  BY TunnelShape
<1>2. e \in TunnelSlot
  BY DEF TunnelSlot
<1>3. /\ tunnel_slots' \in Seq(TunnelSlot) /\ Len(tunnel_slots') = n
      /\ \A k \in 1 .. Len(tunnel_slots) : tunnel_slots'[k] = tunnel_slots[k]
      /\ tunnel_slots'[n] = e
  BY <1>1, <1>2, TunnelAdded DEF TunnelJoins
<1>4. /\ n \in Nat /\ n \in 1 .. n
      /\ \A k \in 1 .. n : k = n \/ k \in 1 .. Len(tunnel_slots)
      /\ \A k \in 1 .. Len(tunnel_slots) : k \in 1 .. n
  BY <1>1
<1>5. e.ch = ch /\ e.sk = sk /\ e.buf = 0
  OBVIOUS
<1>6. tunnel_pc \notin TunnelRemoving \cup {"closing", "closing channel", "dead"}
  BY DEF TunnelRemoving, TunnelJoins
<1>7. tunnel_pc' \notin TunnelHolding \cup TunnelRemoving \cup TunnelOver \cup
                 {"closing", "closing channel", "poll", "read", "accept", "first",
                  "forward", "start", "ended"}
  BY DEF TunnelRemoving, TunnelHolding, TunnelOver, TunnelJoins
<1>8. tunnel_alive /\ tunnel_own # "new" /\ tunnel_own # "freed" /\ ~tunnel_notice
      /\ ~tunnel_torn
  <2>1. tunnel_pc \notin TunnelOver
    BY DEF TunnelOver, TunnelJoins
  <2> QED BY <1>6, <2>1 DEF TunnelIInv, TunnelEmpty, TunnelTorn, TunnelOver
<1>8a. /\ tunnel_conns' \in Nat /\ tunnel_conns <= tunnel_conns' /\ tunnel_conns' <= MaxConns
       /\ Len(tunnel_slots) + 1 <= tunnel_conns' /\ sk <= tunnel_conns'
          /\ tunnel_hand' = Tunnel!Nothing
  BY DEF TunnelJoins
<1> HIDE DEF e
<1>9. Tunnel!TypeOK'
  <2>1. tunnel_hand' \in [ch : Tunnel!Ids \cup {0}, sk : Tunnel!Ids \cup {0}]
        /\ tunnel_pc' \in Tunnel!Cancellable
    BY DEF Tunnel!Nothing, Tunnel!Cancellable, TunnelJoins
  <2>2. tunnel_sockets' \subseteq Tunnel!Ids /\ tunnel_channels' \subseteq Tunnel!Ids
    BY DEF TunnelIInv, Tunnel!TypeOK, TunnelJoins
  <2>3. tunnel_conns' \in 0 .. MaxConns
    BY <1>8a
  <2>4. tunnel_slots' \in Seq([ch : Tunnel!Ids \cup {0}, sk : Tunnel!Ids,
        buf : Tunnel!Ids \cup {0}])
    BY <1>3 DEF TunnelSlot
  <2>5. TunnelAside /\ tunnel_twice' = tunnel_twice /\ tunnel_running' \in BOOLEAN
        /\ tunnel_i' \in 1 .. MaxConns + 1
    BY DEF TunnelJoins
  <2> QED BY <2>1, <2>2, <2>3, <2>4, <2>5 DEF TunnelIInv, Tunnel!TypeOK, TunnelAside,
     Tunnel!mainvars
<1>10. TunnelRoom'
  <2>1. ASSUME NEW k \in 1 .. Len(tunnel_slots) PROVE tunnel_slots[k].sk <= tunnel_conns'
    <3>1. tunnel_slots[k] \in TunnelSlot /\ tunnel_slots[k].sk <= tunnel_conns
      BY <1>1 DEF TunnelIInv, TunnelRoom
    <3>2. tunnel_slots[k].sk \in Nat
      BY <3>1 DEF TunnelSlot, Tunnel!Ids
    <3> QED BY <1>1, <1>8a, <3>1, <3>2
  <2>2. sk <= tunnel_conns' /\ n <= tunnel_conns'
    BY DEF TunnelJoins
  <2>3. \A k \in 1 .. n : tunnel_slots'[k].sk <= tunnel_conns'
    BY <1>3, <1>4, <1>5, <2>1, <2>2
  <2>4. tunnel_hand'.sk = 0 /\ tunnel_hand'.ch = 0 /\ 0 <= tunnel_conns'
    BY <1>8a DEF Tunnel!Nothing
  <2> QED BY <1>3, <2>2, <2>3, <2>4 DEF TunnelRoom
<1>11. TunnelDistinct'
  <2>1. \A k \in 1 .. Len(tunnel_slots) : tunnel_slots[k].sk # sk
    BY DEF TunnelJoins
  <2>2. \A j, k \in 1 .. Len(tunnel_slots) : tunnel_slots[j].sk = tunnel_slots[k].sk => j = k
    BY DEF TunnelIInv, TunnelDistinct
  <2> SUFFICES ASSUME NEW j \in 1 .. n, NEW k \in 1 .. n,
      tunnel_slots'[j].sk = tunnel_slots'[k].sk
               PROVE  j = k
    BY <1>3 DEF TunnelDistinct
  <2> QED BY <1>3, <1>4, <1>5, <2>1, <2>2
<1>12. TunnelPlace'
  BY <1>7 DEF TunnelPlace, TunnelJoins
<1>13. TunnelHoles'
  <2>1. ASSUME NEW k \in 1 .. n, tunnel_slots'[k].ch = 0 PROVE n = 1 /\ tunnel_kind = "open"
    <3>1. k = n /\ ch = 0
      BY <1>3, <1>4, <1>5, <2>1 DEF TunnelJoins
    <3>2. tunnel_slots = <<>> /\ tunnel_kind = "open"
      BY <3>1 DEF TunnelJoins
    <3> QED BY <3>1, <3>2
  <2> QED BY <1>3, <1>7, <2>1 DEF TunnelHoles, TunnelAside, Tunnel!mainvars, TunnelJoins
<1>14. TunnelEmpty'
  BY <1>7, <1>8 DEF TunnelEmpty, TunnelOver, TunnelAside, Tunnel!mainvars, TunnelJoins
<1>15. \A k : TunnelHasSocket(k)' /\ TunnelHasChannel(k)' /\ TunnelHasSocket(k)
       /\ TunnelHasChannel(k)
  BY <1>6, <1>7 DEF TunnelHasSocket, TunnelHasChannel
<1>16. TunnelOwned'
  <2>1. ASSUME NEW s \in tunnel_sockets' PROVE \E k \in 1 .. n : tunnel_slots'[k].sk = s
    <3>1. s = sk \/ s \in tunnel_sockets
      BY <2>1 DEF TunnelJoins
    <3>2. s = sk \/ s = 0 \/ \E k \in 1 .. Len(tunnel_slots) : tunnel_slots[k].sk = s
      BY <3>1 DEF TunnelIInv, TunnelOwned, TunnelJoins
    <3>3. s # 0
      BY <3>1 DEF TunnelIInv, Tunnel!TypeOK, Tunnel!Ids
    <3> QED BY <1>3, <1>4, <1>5, <3>2, <3>3
  <2>2. ASSUME NEW c \in tunnel_channels' PROVE \E k \in 1 .. n : tunnel_slots'[k].ch = c
    <3>1. c = ch \/ \E k \in 1 .. Len(tunnel_slots) : tunnel_slots[k].ch = c
      BY <2>2 DEF TunnelIInv, TunnelOwned, TunnelJoins
    <3> QED BY <1>3, <1>4, <1>5, <3>1
  <2> QED BY <1>3, <1>15, <2>1, <2>2 DEF TunnelOwned
<1>17. TunnelKept'
  <2>1. \A k \in 1 .. Len(tunnel_slots) : tunnel_slots[k].sk \in tunnel_sockets
        /\ tunnel_slots[k].ch \in tunnel_channels \cup {0}
    BY <1>8, <1>15 DEF TunnelIInv, TunnelKept
  <2>2. sk \in tunnel_sockets' /\ ch \in tunnel_channels' \cup {0}
    BY DEF TunnelJoins
  <2>3. tunnel_sockets \subseteq tunnel_sockets' /\ tunnel_channels \subseteq tunnel_channels'
    BY DEF TunnelJoins
  <2> QED BY <1>3, <1>4, <1>5, <2>1, <2>2, <2>3 DEF TunnelKept
<1>18. TunnelTorn'
  BY <1>8 DEF TunnelIInv, TunnelTorn, Tunnel!ClosedOnce, TunnelAside, TunnelJoins
<1>19. TunnelPairs'
  BY <1>3, <1>4, <1>5 DEF TunnelIInv, TunnelPairs
<1> QED
  BY <1>9, <1>10, <1>11, <1>12, <1>13, <1>14, <1>16, <1>17, <1>18, <1>19 DEF TunnelIInv

\* A slot goes and the last one takes its place.
LEMMA TunnelRemoves ==
    ASSUME MaxConns \in Nat, TunnelIInv, TunnelAside, Tunnel!Remove,
           UNCHANGED <<tunnel_running, tunnel_i, tunnel_hand, tunnel_conns, tunnel_channels>>
    PROVE  TunnelIInv'
<1> DEFINE n == Len(tunnel_slots)
<1>1. /\ tunnel_slots \in Seq(TunnelSlot) /\ n \in Nat /\ tunnel_conns \in Nat
         /\ n <= tunnel_conns
      /\ tunnel_i \in Nat /\ 1 <= tunnel_i
  BY TunnelShape
<1>2. tunnel_pc \in TunnelRemoving /\ tunnel_pc' \in {"read", "poll"}
      /\ (tunnel_pc' = "poll" => tunnel_pc = "removing in poll")
  BY DEF Tunnel!Remove, TunnelRemoving, Tunnel!Go
<1>3. tunnel_i \in 1 .. n
  <2>1. tunnel_i <= n
    BY <1>2 DEF TunnelIInv, TunnelPlace
  <2> QED BY <1>1, <2>1
<1>4. tunnel_slots' = Tunnel!remove_slot(tunnel_i)
      /\ tunnel_sockets' = tunnel_sockets \ {tunnel_slots[tunnel_i].sk}
      /\ tunnel_twice' = (tunnel_twice \/ tunnel_slots[tunnel_i].sk \notin tunnel_sockets)
  BY DEF Tunnel!Remove, Tunnel!close_socket
<1>5. /\ tunnel_slots' \in Seq(TunnelSlot) /\ Len(tunnel_slots') = n - 1
      /\ \A k \in 1 .. n - 1 : tunnel_slots'[k] = IF k = tunnel_i THEN tunnel_slots[n]
         ELSE tunnel_slots[k]
  BY <1>1, <1>3, <1>4, TunnelFilled
\* Every slot of the new array was another slot than i of the old one, and the other way
\* round.
<1>6. ASSUME NEW k \in 1 .. n - 1
      PROVE  \E j \in 1 .. n : j # tunnel_i /\ tunnel_slots'[k] = tunnel_slots[j]
             /\ (k # tunnel_i => j = k)
  <2>1. k \in 1 .. n /\ n \in 1 .. n /\ n # k
    BY <1>1
  <2>2. CASE k = tunnel_i
    BY <1>5, <2>1, <2>2
  <2>3. CASE k # tunnel_i
    BY <1>5, <2>1, <2>3
  <2> QED BY <2>2, <2>3
<1>7. ASSUME NEW j \in 1 .. n, j # tunnel_i
      PROVE  \E k \in 1 .. n - 1 : tunnel_slots'[k] = tunnel_slots[j]
  <2>1. CASE j = n
    BY <1>1, <1>3, <1>5, <1>7, <2>1
  <2>2. CASE j # n
    BY <1>1, <1>3, <1>5, <1>7, <2>2
  <2> QED BY <2>1, <2>2
<1>8. ~tunnel_torn /\ ~tunnel_twice /\ tunnel_slots[tunnel_i].sk \in tunnel_sockets
      /\ tunnel_pc' \notin TunnelRemoving \cup TunnelOver
  <2>1. tunnel_pc # "dead" /\ tunnel_pc # "closing" /\ tunnel_pc # "closing channel"
    BY <1>2 DEF TunnelRemoving
  <2>2. ~tunnel_torn /\ ~tunnel_twice
    BY <2>1 DEF TunnelIInv, TunnelTorn, Tunnel!ClosedOnce
  <2>3. tunnel_slots[tunnel_i].sk \in tunnel_sockets
    BY <1>3, <2>1, <2>2 DEF TunnelIInv, TunnelKept, TunnelHasSocket
  <2> QED BY <1>2, <2>2, <2>3 DEF TunnelRemoving, TunnelOver
<1>9. \A k : TunnelHasSocket(k) /\ TunnelHasSocket(k)' /\ TunnelHasChannel(k)'
      /\ (k # tunnel_i => TunnelHasChannel(k))
  BY <1>2 DEF TunnelHasSocket, TunnelHasChannel, TunnelRemoving
<1>10. Tunnel!TypeOK'
  <2>1. tunnel_slots' \in Seq([ch : Tunnel!Ids \cup {0}, sk : Tunnel!Ids,
        buf : Tunnel!Ids \cup {0}])
    BY <1>5 DEF TunnelSlot
  <2>2. tunnel_sockets' \subseteq Tunnel!Ids /\ tunnel_twice' \in BOOLEAN
        /\ tunnel_pc' \in Tunnel!Cancellable
    BY <1>2, <1>4 DEF TunnelIInv, Tunnel!TypeOK, Tunnel!Cancellable
  <2>3. tunnel_alive' \in BOOLEAN /\ tunnel_running' \in BOOLEAN
    BY DEF TunnelIInv, Tunnel!TypeOK, TunnelAside
  <2> QED BY <2>1, <2>2, <2>3 DEF TunnelIInv, Tunnel!TypeOK, TunnelAside, Tunnel!mainvars
<1>11. TunnelRoom'
  <2>1. n - 1 <= tunnel_conns /\ (tunnel_hand.sk # 0 => n - 1 < tunnel_conns)
    BY <1>1 DEF TunnelIInv, TunnelRoom
  <2>2. \A k \in 1 .. n - 1 : tunnel_slots'[k].sk <= tunnel_conns
    BY <1>6 DEF TunnelIInv, TunnelRoom
  <2> QED BY <1>5, <2>1, <2>2 DEF TunnelIInv, TunnelRoom
<1>12. TunnelDistinct'
  <2> SUFFICES ASSUME NEW j \in 1 .. n - 1, NEW k \in 1 .. n - 1,
      tunnel_slots'[j].sk = tunnel_slots'[k].sk
               PROVE  j = k
    BY <1>5 DEF TunnelDistinct
  <2>1. \A l, m \in 1 .. n : tunnel_slots[l].sk = tunnel_slots[m].sk => l = m
    BY DEF TunnelIInv, TunnelDistinct
  <2>2. DEFINE old(m) == IF m = tunnel_i THEN n ELSE m
  <2>3. old(j) \in 1 .. n /\ old(k) \in 1 .. n /\ (old(j) = old(k) => j = k)
    BY <1>1
  <2>4. tunnel_slots'[j] = tunnel_slots[old(j)] /\ tunnel_slots'[k] = tunnel_slots[old(k)]
    BY <1>5
  <2>5. old(j) = old(k)
    BY <2>1, <2>3, <2>4
  <2> QED BY <2>3, <2>5
<1>13. TunnelPlace'
  <2>1. tunnel_pc' \notin TunnelRemoving \cup TunnelHolding \cup {"closing",
        "closing channel", "dead"}
    BY <1>2 DEF TunnelRemoving, TunnelHolding
  <2>2. tunnel_hand = Tunnel!Nothing
    BY <1>2 DEF TunnelIInv, TunnelPlace, TunnelRemoving, TunnelHolding
  <2>3. tunnel_i <= n - 1 + 1
    BY <1>1, <1>3
  <2> QED BY <1>5, <2>1, <2>2, <2>3 DEF TunnelPlace
<1>14. TunnelHoles'
  <2>1. ASSUME NEW k \in 1 .. n - 1 PROVE tunnel_slots'[k].ch # 0
    <3>1. n # 1
      <4>1. n \in Nat
        BY <1>1
      <4> HIDE DEF n
      <4> QED BY <4>1
    <3> QED BY <1>6, <3>1 DEF TunnelIInv, TunnelHoles
  <2> QED BY <1>2, <1>5, <2>1 DEF TunnelHoles
<1>15. TunnelEmpty'
  <2>1. tunnel_alive /\ tunnel_own # "new" /\ tunnel_own # "freed" /\ ~tunnel_notice
    BY <1>2 DEF TunnelIInv, TunnelEmpty, TunnelOver, TunnelRemoving
  <2> QED BY <1>2, <2>1 DEF TunnelEmpty, TunnelAside, Tunnel!mainvars
<1>16. TunnelOwned'
  <2>1. ASSUME NEW s \in tunnel_sockets'
        PROVE  s = tunnel_hand.sk \/ \E k \in 1 .. n - 1 : tunnel_slots'[k].sk = s
    <3>1. s # tunnel_slots[tunnel_i].sk
          /\ (s = tunnel_hand.sk \/ \E j \in 1 .. n : tunnel_slots[j].sk = s)
      BY <1>4, <2>1 DEF TunnelIInv, TunnelOwned
    <3> QED BY <1>7, <3>1
  <2>2. ASSUME NEW c \in tunnel_channels PROVE \E k \in 1 .. n - 1 : tunnel_slots'[k].ch = c
    <3>1. \E j \in 1 .. n : j # tunnel_i /\ tunnel_slots[j].ch = c
      BY <1>2, <2>2 DEF TunnelIInv, TunnelOwned, TunnelHasChannel
    <3> QED BY <1>7, <3>1
  <2> QED BY <1>5, <1>9, <2>1, <2>2 DEF TunnelOwned
<1>17. TunnelKept'
  <2>1. ASSUME NEW k \in 1 .. n - 1
        PROVE  tunnel_slots'[k].sk \in tunnel_sockets'
               /\ tunnel_slots'[k].ch \in tunnel_channels \cup {0}
    <3>1. PICK j \in 1 .. n : j # tunnel_i /\ tunnel_slots'[k] = tunnel_slots[j]
      BY <1>6
    <3>2. tunnel_slots[j].sk \in tunnel_sockets
          /\ tunnel_slots[j].ch \in tunnel_channels \cup {0}
      BY <1>8, <1>9, <3>1 DEF TunnelIInv, TunnelKept
    <3>3. tunnel_slots[j].sk # tunnel_slots[tunnel_i].sk
      BY <1>3, <3>1 DEF TunnelIInv, TunnelDistinct
    <3> QED BY <1>4, <3>1, <3>2, <3>3
  <2> QED BY <1>5, <2>1 DEF TunnelKept
<1>18. TunnelTorn'
  BY <1>4, <1>8 DEF TunnelTorn, Tunnel!ClosedOnce, TunnelAside
<1>19. TunnelPairs'
  BY <1>5, <1>6 DEF TunnelIInv, TunnelPairs
<1> QED
  BY <1>10, <1>11, <1>12, <1>13, <1>14, <1>15, <1>16, <1>17, <1>18, <1>19 DEF TunnelIInv

\* A channel of a slot is freed, the first half of a removal.
LEMMA TunnelDisconnects ==
    ASSUME MaxConns \in Nat, TunnelIInv, TunnelAside, Tunnel!Disconnected
    PROVE  TunnelIInv'
<1> DEFINE n == Len(tunnel_slots)
<1>1. n \in Nat /\ tunnel_i \in 1 .. n /\ tunnel_i <= n
  <2>1. tunnel_i <= n
    BY DEF Tunnel!Disconnected
  <2> QED BY TunnelShape, <2>1
<1>2. tunnel_pc \in {"read", "poll"} /\ tunnel_pc' \in TunnelRemoving
      /\ (tunnel_pc' = "removing in poll" => tunnel_pc = "poll")
  BY DEF Tunnel!Disconnected, TunnelRemoving, Tunnel!Go
<1>3. /\ UNCHANGED <<tunnel_running, tunnel_slots, tunnel_i, tunnel_hand, tunnel_conns,
         tunnel_sockets>>
      /\ tunnel_channels' = tunnel_channels \ {tunnel_slots[tunnel_i].ch}
      /\ tunnel_twice' = (tunnel_twice
         \/ tunnel_slots[tunnel_i].ch \notin tunnel_channels \cup {0})
  BY DEF Tunnel!Disconnected, Tunnel!free_channel
<1>4. \A k : TunnelHasSocket(k) /\ TunnelHasChannel(k) /\ TunnelHasSocket(k)'
      /\ (TunnelHasChannel(k)' <=> k # tunnel_i)
  BY <1>2, <1>3 DEF TunnelHasSocket, TunnelHasChannel, TunnelRemoving
<1>5. ~tunnel_torn /\ ~tunnel_twice
  BY <1>2 DEF TunnelIInv, TunnelTorn, Tunnel!ClosedOnce
<1>6. \A k \in 1 .. n : tunnel_slots[k].sk \in tunnel_sockets
      /\ tunnel_slots[k].ch \in tunnel_channels \cup {0}
  BY <1>4, <1>5 DEF TunnelIInv, TunnelKept
<1>7. Tunnel!TypeOK'
  <2>1. tunnel_channels' \subseteq Tunnel!Ids /\ tunnel_twice' \in BOOLEAN
        /\ tunnel_pc' \in Tunnel!Cancellable
    BY <1>2, <1>3 DEF TunnelIInv, Tunnel!TypeOK, Tunnel!Cancellable, TunnelRemoving
  <2> QED BY <1>3, <2>1 DEF TunnelIInv, Tunnel!TypeOK, TunnelAside, Tunnel!mainvars
<1>8. TunnelRoom' /\ TunnelDistinct' /\ TunnelPairs'
  BY <1>3 DEF TunnelIInv, TunnelRoom, TunnelDistinct, TunnelPairs
<1>9. TunnelPlace'
  <2>1. tunnel_pc' \notin TunnelHolding \cup {"read", "poll", "closing", "closing channel",
        "dead"}
    BY <1>2 DEF TunnelRemoving, TunnelHolding
  <2>2. tunnel_hand = Tunnel!Nothing
    BY <1>2 DEF TunnelIInv, TunnelPlace, TunnelHolding
  <2> QED BY <1>1, <1>3, <2>1, <2>2 DEF TunnelPlace
<1>10. TunnelHoles'
  <2>1. tunnel_pc' \notin {"poll", "accept", "forward again", "first", "forward"}
    BY <1>2 DEF TunnelRemoving
  <2> QED BY <1>2, <1>3, <2>1 DEF TunnelIInv, TunnelHoles, TunnelAside, Tunnel!mainvars
<1>11. TunnelEmpty'
  <2>1. tunnel_alive /\ tunnel_own # "new" /\ tunnel_own # "freed" /\ ~tunnel_notice
    BY <1>2 DEF TunnelIInv, TunnelEmpty, TunnelOver
  <2> QED BY <1>2, <2>1 DEF TunnelEmpty, TunnelAside, Tunnel!mainvars, TunnelRemoving
<1>12. TunnelOwned'
  BY <1>3, <1>4 DEF TunnelIInv, TunnelOwned
<1>13. TunnelKept'
  <2>1. ASSUME NEW k \in 1 .. n,
               k # tunnel_i PROVE tunnel_slots[k].ch \in tunnel_channels' \cup {0}
    <3>1. tunnel_slots[k].sk # tunnel_slots[tunnel_i].sk
      BY <1>1, <2>1 DEF TunnelIInv, TunnelDistinct
    <3>2. tunnel_slots[k].ch \in {0, tunnel_slots[k].sk}
          /\ tunnel_slots[tunnel_i].ch \in {0, tunnel_slots[tunnel_i].sk}
      BY <1>1 DEF TunnelIInv, TunnelPairs
    <3>3. tunnel_slots[k].ch \in tunnel_channels \cup {0}
      BY <1>6
    <3> QED BY <1>3, <3>1, <3>2, <3>3
  <2> QED BY <1>3, <1>4, <1>6, <2>1 DEF TunnelKept
<1>14. TunnelTorn'
  BY <1>1, <1>3, <1>5, <1>6 DEF TunnelTorn, Tunnel!ClosedOnce, TunnelAside
<1> QED
  BY <1>7, <1>8, <1>9, <1>10, <1>11, <1>12, <1>13, <1>14 DEF TunnelIInv

\* The end: the socket and then the channel of each slot, in this order.
LEMMA TunnelClosesSocket ==
    ASSUME MaxConns \in Nat, TunnelIInv, TunnelAside, Tunnel!CloseSocket
    PROVE  TunnelIInv'
<1> DEFINE n == Len(tunnel_slots)
<1>1. n \in Nat /\ tunnel_i \in 1 .. n /\ tunnel_i <= n /\ tunnel_i \in Nat
  <2>1. tunnel_i <= n
    BY DEF Tunnel!CloseSocket
  <2> QED BY TunnelShape, <2>1
<1>2. tunnel_pc = "closing" /\ tunnel_pc' = "closing channel"
  BY DEF Tunnel!CloseSocket, Tunnel!Go
<1>3. /\ UNCHANGED <<tunnel_running, tunnel_slots, tunnel_i, tunnel_hand, tunnel_conns,
         tunnel_channels>>
      /\ tunnel_sockets' = tunnel_sockets \ {tunnel_slots[tunnel_i].sk}
      /\ tunnel_twice' = (tunnel_twice \/ tunnel_slots[tunnel_i].sk \notin tunnel_sockets)
  BY DEF Tunnel!CloseSocket, Tunnel!close_socket
<1>4. ASSUME NEW k \in 1 .. n
      PROVE  /\ TunnelHasSocket(k)' <=> TunnelHasSocket(k) /\ k # tunnel_i
             /\ TunnelHasChannel(k)' <=> TunnelHasChannel(k)
  <2>1. k > tunnel_i <=> k >= tunnel_i /\ k # tunnel_i
    BY <1>1
  <2>2. tunnel_i' = tunnel_i
    BY <1>3
  <2> QED BY <1>2, <2>1, <2>2 DEF TunnelHasSocket, TunnelHasChannel, TunnelRemoving
<1>5. ~tunnel_torn /\ ~tunnel_twice
  BY <1>2 DEF TunnelIInv, TunnelTorn, Tunnel!ClosedOnce
<1>6. tunnel_slots[tunnel_i].sk \in tunnel_sockets
  <2>1. TunnelHasSocket(tunnel_i)
    <3>1. \A a \in Nat : a >= a
      OBVIOUS
    <3> QED BY <1>1, <1>2, <3>1 DEF TunnelHasSocket
  <2> QED BY <1>1, <1>5, <2>1 DEF TunnelIInv, TunnelKept
<1>7. Tunnel!TypeOK'
  <2>1. tunnel_sockets' \subseteq Tunnel!Ids /\ tunnel_twice' \in BOOLEAN
        /\ tunnel_pc' \in Tunnel!Cancellable
    BY <1>2, <1>3 DEF TunnelIInv, Tunnel!TypeOK, Tunnel!Cancellable
  <2> QED BY <1>3, <2>1 DEF TunnelIInv, Tunnel!TypeOK, TunnelAside, Tunnel!mainvars
<1>8. TunnelRoom' /\ TunnelDistinct' /\ TunnelPairs'
  BY <1>3 DEF TunnelIInv, TunnelRoom, TunnelDistinct, TunnelPairs
<1>9. TunnelPlace'
  <2>1. tunnel_hand = Tunnel!Nothing
    BY <1>2 DEF TunnelIInv, TunnelPlace, TunnelHolding
  <2> QED BY <1>1, <1>2, <1>3, <2>1 DEF TunnelPlace, TunnelHolding, TunnelRemoving
<1>10. TunnelHoles'
  BY <1>2, <1>3 DEF TunnelIInv, TunnelHoles, TunnelAside, Tunnel!mainvars
<1>11. TunnelEmpty'
  <2>1. tunnel_alive /\ tunnel_own # "new" /\ tunnel_own # "freed" /\ ~tunnel_notice
    BY <1>2 DEF TunnelIInv, TunnelEmpty, TunnelOver
  <2> QED BY <1>2, <2>1 DEF TunnelEmpty, TunnelAside, Tunnel!mainvars
<1>12. TunnelOwned'
  <2>1. ASSUME NEW s \in tunnel_sockets'
        PROVE  s = tunnel_hand.sk \/ \E k \in 1 .. n : TunnelHasSocket(k)'
               /\ tunnel_slots[k].sk = s
    <3>1. s \in tunnel_sockets /\ s # tunnel_slots[tunnel_i].sk
      BY <1>3, <2>1
    <3> QED BY <1>4, <3>1 DEF TunnelIInv, TunnelOwned
  <2>2. \A c \in tunnel_channels : \E k \in 1 .. n : TunnelHasChannel(k)'
        /\ tunnel_slots[k].ch = c
    BY <1>4 DEF TunnelIInv, TunnelOwned
  <2> QED BY <1>3, <2>1, <2>2 DEF TunnelOwned
<1>13. TunnelKept'
  <2>1. ASSUME NEW k \in 1 .. n,
               TunnelHasSocket(k)' PROVE tunnel_slots[k].sk \in tunnel_sockets'
    <3>1. TunnelHasSocket(k) /\ k # tunnel_i
      BY <1>4, <2>1
    <3>2. tunnel_slots[k].sk # tunnel_slots[tunnel_i].sk
      BY <1>1, <3>1 DEF TunnelIInv, TunnelDistinct
    <3> QED BY <1>3, <1>5, <3>1, <3>2 DEF TunnelIInv, TunnelKept
  <2>2. ASSUME NEW k \in 1 .. n,
               TunnelHasChannel(k)' PROVE tunnel_slots[k].ch \in tunnel_channels \cup {0}
    BY <1>4, <1>5, <2>2 DEF TunnelIInv, TunnelKept
  <2> QED BY <1>3, <2>1, <2>2 DEF TunnelKept
<1>14. TunnelTorn'
  BY <1>3, <1>5, <1>6 DEF TunnelTorn, Tunnel!ClosedOnce, TunnelAside
<1> QED
  BY <1>7, <1>8, <1>9, <1>10, <1>11, <1>12, <1>13, <1>14 DEF TunnelIInv

\* A channel that is closed.
LEMMA TunnelClosesChannel ==
    ASSUME MaxConns \in Nat, TunnelIInv, TunnelAside, Tunnel!CloseChannel
    PROVE  TunnelIInv'
<1> DEFINE n == Len(tunnel_slots)
<1>1. tunnel_pc = "closing channel" /\ tunnel_pc' = "closing"
  BY DEF Tunnel!CloseChannel, Tunnel!Go
<1>2. n \in Nat /\ n <= MaxConns /\ tunnel_i \in 1 .. n /\ tunnel_i <= n /\ tunnel_i \in Nat
  <2>1. tunnel_i <= n
    BY <1>1 DEF TunnelIInv, TunnelPlace
  <2> QED BY <2>1, TunnelShape
<1>3. /\ UNCHANGED <<tunnel_running, tunnel_slots, tunnel_hand, tunnel_conns, tunnel_sockets>>
      /\ tunnel_i' = tunnel_i + 1
      /\ tunnel_channels' = tunnel_channels \ {tunnel_slots[tunnel_i].ch}
      /\ tunnel_twice' = (tunnel_twice
         \/ tunnel_slots[tunnel_i].ch \notin tunnel_channels \cup {0})
  BY DEF Tunnel!CloseChannel, Tunnel!free_channel
<1>4. ASSUME NEW k \in 1 .. n
      PROVE  /\ TunnelHasSocket(k)' <=> TunnelHasSocket(k)
             /\ TunnelHasChannel(k)' <=> TunnelHasChannel(k) /\ k # tunnel_i
  <2>1. (k >= tunnel_i + 1 <=> k > tunnel_i) /\ (k >= tunnel_i + 1 <=> k >= tunnel_i
        /\ k # tunnel_i)
    BY <1>2
  <2>2. tunnel_i' = tunnel_i + 1
    BY <1>3
  <2> QED BY <1>1, <2>1, <2>2 DEF TunnelHasSocket, TunnelHasChannel, TunnelRemoving
<1>5. ~tunnel_torn /\ ~tunnel_twice
  BY <1>1 DEF TunnelIInv, TunnelTorn, Tunnel!ClosedOnce
<1>6. tunnel_slots[tunnel_i].ch \in tunnel_channels \cup {0}
  <2>1. TunnelHasChannel(tunnel_i)
    <3>1. \A a \in Nat : a >= a
      OBVIOUS
    <3>2. tunnel_pc \notin TunnelRemoving
      BY <1>1 DEF TunnelRemoving
    <3> QED BY <1>2, <3>1, <3>2 DEF TunnelHasChannel
  <2> QED BY <1>2, <1>5, <2>1 DEF TunnelIInv, TunnelKept
<1>7. Tunnel!TypeOK'
  <2>1. tunnel_channels' \subseteq Tunnel!Ids /\ tunnel_twice' \in BOOLEAN
        /\ tunnel_pc' \in Tunnel!Cancellable
    BY <1>1, <1>3 DEF TunnelIInv, Tunnel!TypeOK, Tunnel!Cancellable
  <2>2. tunnel_i' \in 1 .. MaxConns + 1
    BY <1>2, <1>3
  <2> QED BY <1>3, <2>1, <2>2 DEF TunnelIInv, Tunnel!TypeOK, TunnelAside, Tunnel!mainvars
<1>8. TunnelRoom' /\ TunnelDistinct' /\ TunnelPairs'
  BY <1>3 DEF TunnelIInv, TunnelRoom, TunnelDistinct, TunnelPairs
<1>9. TunnelPlace'
  <2>1. tunnel_hand = Tunnel!Nothing
    BY <1>1 DEF TunnelIInv, TunnelPlace, TunnelHolding
  <2>2. tunnel_i' <= n + 1
    BY <1>2, <1>3
  <2> QED BY <1>1, <1>3, <2>1, <2>2 DEF TunnelPlace, TunnelHolding, TunnelRemoving
<1>10. TunnelHoles'
  BY <1>1, <1>3 DEF TunnelIInv, TunnelHoles, TunnelAside, Tunnel!mainvars
<1>11. TunnelEmpty'
  <2>1. tunnel_alive /\ tunnel_own # "new" /\ tunnel_own # "freed" /\ ~tunnel_notice
    BY <1>1 DEF TunnelIInv, TunnelEmpty, TunnelOver
  <2> QED BY <1>1, <2>1 DEF TunnelEmpty, TunnelAside, Tunnel!mainvars
<1>12. TunnelOwned'
  <2>1. ASSUME NEW c \in tunnel_channels'
        PROVE  \E k \in 1 .. n : TunnelHasChannel(k)' /\ tunnel_slots[k].ch = c
    <3>1. c \in tunnel_channels /\ c # tunnel_slots[tunnel_i].ch
      BY <1>3, <2>1
    <3> QED BY <1>4, <3>1 DEF TunnelIInv, TunnelOwned
  <2>2. \A s \in tunnel_sockets : s = tunnel_hand.sk
        \/ \E k \in 1 .. n : TunnelHasSocket(k)' /\ tunnel_slots[k].sk = s
    BY <1>4 DEF TunnelIInv, TunnelOwned
  <2> QED BY <1>3, <2>1, <2>2 DEF TunnelOwned
<1>13. TunnelKept'
  <2>1. ASSUME NEW k \in 1 .. n,
               TunnelHasChannel(k)' PROVE tunnel_slots[k].ch \in tunnel_channels' \cup {0}
    <3>1. TunnelHasChannel(k) /\ k # tunnel_i
      BY <1>4, <2>1
    <3>2. tunnel_slots[k].sk # tunnel_slots[tunnel_i].sk
      BY <1>2, <3>1 DEF TunnelIInv, TunnelDistinct
    <3>3. tunnel_slots[k].ch \in {0, tunnel_slots[k].sk}
          /\ tunnel_slots[tunnel_i].ch \in {0, tunnel_slots[tunnel_i].sk}
      BY <1>2 DEF TunnelIInv, TunnelPairs
    <3>4. tunnel_slots[k].ch \in tunnel_channels \cup {0}
      BY <1>5, <3>1 DEF TunnelIInv, TunnelKept
    <3> QED BY <1>3, <3>2, <3>3, <3>4
  <2>2. ASSUME NEW k \in 1 .. n, TunnelHasSocket(k)' PROVE tunnel_slots[k].sk \in tunnel_sockets
    BY <1>4, <1>5, <2>2 DEF TunnelIInv, TunnelKept
  <2> QED BY <1>3, <2>1, <2>2 DEF TunnelKept
<1>14. TunnelTorn'
  BY <1>3, <1>5, <1>6 DEF TunnelTorn, Tunnel!ClosedOnce, TunnelAside
<1> QED
  BY <1>7, <1>8, <1>9, <1>10, <1>11, <1>12, <1>13, <1>14 DEF TunnelIInv

\* All are closed.
LEMMA TunnelCloses ==
    ASSUME MaxConns \in Nat, TunnelIInv, TunnelAside, Tunnel!Closed
    PROVE  TunnelIInv'
<1>1. Len(tunnel_slots) \in Nat /\ tunnel_i \in Nat /\ tunnel_i > Len(tunnel_slots)
      /\ tunnel_conns \in Nat
  BY TunnelShape DEF Tunnel!Closed
<1>2. tunnel_pc = "closing" /\ tunnel_pc' = "ended"
  BY DEF Tunnel!Closed, Tunnel!Go
<1>3. /\ UNCHANGED <<tunnel_hand, tunnel_conns, tunnel_sockets, tunnel_channels, tunnel_twice>>
      /\ tunnel_slots' = <<>> /\ tunnel_i' = 1 /\ tunnel_running' = FALSE
  BY DEF Tunnel!Closed
<1>4. /\ tunnel_slots' \in Seq([ch : Tunnel!Ids \cup {0}, sk : Tunnel!Ids,
         buf : Tunnel!Ids \cup {0}])
      /\ Len(tunnel_slots') = 0 /\ \A k \in 1 .. Len(tunnel_slots') : FALSE
  BY <1>3
<1>5. tunnel_hand = Tunnel!Nothing /\ tunnel_hand.sk = 0
  BY <1>2 DEF TunnelIInv, TunnelPlace, TunnelHolding, Tunnel!Nothing
<1>6. Tunnel!TypeOK'
  <2>1. 1 \in 1 .. MaxConns + 1
    OBVIOUS
  <2>2. tunnel_i' \in 1 .. MaxConns + 1 /\ tunnel_pc' \in {"ended"}
        /\ tunnel_running' \in BOOLEAN
    BY <1>2, <1>3, <2>1
  <2> QED BY <1>3, <1>4, <2>2 DEF TunnelIInv, Tunnel!TypeOK, TunnelAside, Tunnel!mainvars
<1>7. TunnelRoom' /\ TunnelDistinct' /\ TunnelPairs' /\ TunnelKept'
  BY <1>1, <1>3, <1>4, <1>5 DEF TunnelIInv, TunnelRoom, TunnelDistinct, TunnelPairs,
     TunnelKept
<1>8. TunnelPlace' /\ TunnelHoles'
  BY <1>2, <1>3, <1>4, <1>5 DEF TunnelPlace, TunnelHoles, TunnelRemoving, TunnelHolding
<1>9. TunnelEmpty'
  <2>1. tunnel_alive /\ tunnel_own # "new" /\ tunnel_own # "freed" /\ ~tunnel_notice
    BY <1>2 DEF TunnelIInv, TunnelEmpty, TunnelOver
  <2> QED BY <1>3, <2>1 DEF TunnelEmpty, TunnelAside, Tunnel!mainvars
<1>10. TunnelOwned'
  <2>1. \A k \in 1 .. Len(tunnel_slots) : ~TunnelHasSocket(k) /\ ~TunnelHasChannel(k)
    BY <1>1, <1>2 DEF TunnelHasSocket, TunnelHasChannel
  <2> QED BY <1>3, <2>1 DEF TunnelIInv, TunnelOwned
<1>11. TunnelTorn'
  BY <1>2, <1>3 DEF TunnelIInv, TunnelTorn, Tunnel!ClosedOnce, TunnelAside
<1> QED BY <1>6, <1>7, <1>8, <1>9, <1>10, <1>11 DEF TunnelIInv

\* A poll fills the buffer of a slot.
LEMMA TunnelPolls ==
    ASSUME MaxConns \in Nat, TunnelIInv, TunnelAside, Tunnel!Poll
    PROVE  TunnelIInv'
<1> DEFINE n == Len(tunnel_slots)
<1>1. /\ UNCHANGED <<tunnel_pc, tunnel_running, tunnel_hand, tunnel_conns, tunnel_sockets,
         tunnel_channels, tunnel_twice>>
      /\ tunnel_pc = "poll" /\ tunnel_i <= n /\ tunnel_i' = tunnel_i + 1
         /\ tunnel_slots[tunnel_i].ch # 0
  BY DEF Tunnel!Poll
<1>2. n \in Nat /\ n <= MaxConns /\ tunnel_i \in Nat /\ tunnel_i \in 1 .. n
      /\ tunnel_slots \in Seq(TunnelSlot)
  BY <1>1, TunnelShape
<1>3. PICK b \in {0,
      tunnel_slots[tunnel_i].ch} : tunnel_slots' = [tunnel_slots EXCEPT ![tunnel_i].buf = b]
  BY DEF Tunnel!Poll
<1>4. tunnel_slots[tunnel_i] \in TunnelSlot /\ b \in Tunnel!Ids \cup {0}
  <2>1. tunnel_slots[tunnel_i] \in TunnelSlot
    BY <1>2
  <2>2. tunnel_slots[tunnel_i].ch \in Tunnel!Ids \cup {0}
    BY <2>1 DEF TunnelSlot
  <2> QED BY <2>1, <2>2
<1>5. tunnel_slots' = [tunnel_slots EXCEPT ![tunnel_i]
      = [tunnel_slots[tunnel_i] EXCEPT !.buf = b]]
  BY <1>3
<1>6. [tunnel_slots[tunnel_i] EXCEPT !.buf = b] \in TunnelSlot
  BY <1>4 DEF TunnelSlot
<1>7. /\ tunnel_slots' \in Seq(TunnelSlot) /\ Len(tunnel_slots') = n
      /\ \A k \in 1 .. n : tunnel_slots'[k] = IF k = tunnel_i
         THEN [tunnel_slots[tunnel_i] EXCEPT !.buf = b] ELSE tunnel_slots[k]
  BY <1>2, <1>5, <1>6
<1>8. ASSUME NEW k \in 1 .. n
      PROVE  /\ tunnel_slots'[k].sk = tunnel_slots[k].sk
                /\ tunnel_slots'[k].ch = tunnel_slots[k].ch
             /\ tunnel_slots'[k].buf = IF k = tunnel_i THEN b ELSE tunnel_slots[k].buf
  BY <1>2, <1>4, <1>7 DEF TunnelSlot
<1>9. \A k : TunnelHasSocket(k) /\ TunnelHasChannel(k) /\ TunnelHasSocket(k)'
      /\ TunnelHasChannel(k)'
  BY <1>1 DEF TunnelHasSocket, TunnelHasChannel, TunnelRemoving
<1>10. Tunnel!TypeOK'
  <2>1. tunnel_slots' \in Seq([ch : Tunnel!Ids \cup {0}, sk : Tunnel!Ids,
        buf : Tunnel!Ids \cup {0}])
    BY <1>7 DEF TunnelSlot
  <2>2. tunnel_i' \in 1 .. MaxConns + 1
    BY <1>1, <1>2
  <2> QED BY <1>1, <2>1, <2>2 DEF TunnelIInv, Tunnel!TypeOK, TunnelAside, Tunnel!mainvars
<1>11. TunnelRoom' /\ TunnelDistinct'
  BY <1>1, <1>7, <1>8 DEF TunnelIInv, TunnelRoom, TunnelDistinct
<1>12. TunnelPairs'
  BY <1>1, <1>2, <1>7, <1>8 DEF TunnelIInv, TunnelPairs
<1>13. TunnelPlace'
  <2>1. tunnel_hand = Tunnel!Nothing
    BY <1>1 DEF TunnelIInv, TunnelPlace, TunnelHolding
  <2>2. tunnel_i' <= n + 1
    BY <1>1, <1>2
  <2> QED BY <1>1, <1>7, <2>1, <2>2 DEF TunnelPlace, TunnelHolding, TunnelRemoving
<1>14. TunnelHoles'
  <2>1. ASSUME NEW k \in 1 .. n, k < tunnel_i' PROVE tunnel_slots'[k].ch # 0
    <3>1. k = tunnel_i \/ k < tunnel_i
      BY <1>1, <1>2, <2>1
    <3> QED BY <1>1, <1>8, <3>1 DEF TunnelIInv, TunnelHoles
  <2>2. ASSUME NEW k \in 1 .. n, tunnel_slots'[k].ch = 0 PROVE n = 1 /\ tunnel_kind = "open"
    BY <1>8, <2>2 DEF TunnelIInv, TunnelHoles
  <2> QED BY <1>1, <1>7, <2>1, <2>2 DEF TunnelHoles, TunnelAside, Tunnel!mainvars
<1>15. TunnelEmpty'
  <2>1. tunnel_alive /\ tunnel_own # "new" /\ tunnel_own # "freed" /\ ~tunnel_notice
    BY <1>1 DEF TunnelIInv, TunnelEmpty, TunnelOver
  <2> QED BY <1>1, <2>1 DEF TunnelEmpty, TunnelAside, Tunnel!mainvars
<1>16. TunnelOwned' /\ TunnelKept'
  BY <1>1, <1>7, <1>8, <1>9 DEF TunnelIInv, TunnelOwned, TunnelKept, TunnelAside
<1>17. TunnelTorn'
  BY <1>1 DEF TunnelIInv, TunnelTorn, Tunnel!ClosedOnce, TunnelAside
<1> QED BY <1>10, <1>11, <1>12, <1>13, <1>14, <1>15, <1>16, <1>17 DEF TunnelIInv

\* A local connection is in hand until its channel is there.
TunnelTakes(n) ==
    /\ TunnelAside /\ Tunnel!accept_local_connection(n) /\ tunnel_running' = tunnel_running
    /\ \/ tunnel_pc = "start" /\ tunnel_pc' = "forward" /\ tunnel_kind = "open"
       \/ tunnel_pc = "accept" /\ tunnel_pc' = "forward again"

\* A socket or a channel that is taken in hand.
LEMMA TunnelTakesInHand ==
    ASSUME MaxConns \in Nat, TunnelIInv, NEW n \in Tunnel!Ids, TunnelTakes(n)
    PROVE  TunnelIInv'
<1>0. /\ tunnel_pc \in {"start", "accept"} /\ tunnel_pc' \in TunnelHolding
      /\ tunnel_pc' = "forward again" => tunnel_pc = "accept"
      /\ tunnel_pc' = "forward" => tunnel_pc = "start"
      /\ TunnelAside /\ tunnel_running' = tunnel_running
  BY DEF TunnelTakes, TunnelHolding
<1>1. /\ tunnel_conns < MaxConns /\ n = tunnel_conns + 1 /\ tunnel_conns' = n
      /\ tunnel_hand' = [ch |-> 0, sk |-> n] /\ tunnel_sockets' = tunnel_sockets \cup {n}
      /\ UNCHANGED <<tunnel_slots, tunnel_i, tunnel_channels, tunnel_twice>>
  BY DEF TunnelTakes, Tunnel!accept_local_connection
<1>2. /\ tunnel_conns \in Nat /\ Len(tunnel_slots) \in Nat
         /\ Len(tunnel_slots) <= tunnel_conns /\ tunnel_slots \in Seq(TunnelSlot)
  BY TunnelShape
<1>3. tunnel_hand'.ch = 0 /\ tunnel_hand'.sk = n /\ n # 0
      /\ tunnel_hand = Tunnel!Nothing /\ tunnel_hand.sk = 0
  <2>1. n # 0
    BY DEF Tunnel!Ids
  <2>2. tunnel_hand = Tunnel!Nothing
    BY <1>0 DEF TunnelIInv, TunnelPlace, TunnelHolding
  <2> QED BY <1>1, <2>1, <2>2 DEF Tunnel!Nothing
<1>15. /\ tunnel_conns < MaxConns /\ n = tunnel_conns + 1 /\ tunnel_conns' = n
       /\ tunnel_conns \in Nat /\ Len(tunnel_slots) \in Nat /\ Len(tunnel_slots) <= tunnel_conns
  BY <1>1, <1>2
<1>4. \A k : TunnelHasSocket(k) /\ TunnelHasChannel(k) /\ TunnelHasSocket(k)'
      /\ TunnelHasChannel(k)'
  BY <1>0 DEF TunnelHasSocket, TunnelHasChannel, TunnelRemoving, TunnelHolding
<1>5. ASSUME NEW k \in 1 .. Len(tunnel_slots) PROVE tunnel_slots[k].sk # n
             /\ tunnel_slots[k].sk <= n
  <2>1. tunnel_slots[k] \in TunnelSlot
    BY <1>2
  <2>2. tunnel_slots[k].sk \in Nat
    BY <2>1 DEF TunnelSlot, Tunnel!Ids
  <2>3. tunnel_slots[k].sk <= tunnel_conns
    BY DEF TunnelIInv, TunnelRoom
  <2> QED BY <1>15, <2>2, <2>3
<1>6. Tunnel!TypeOK'
  <2>1. tunnel_conns' \in 0 .. MaxConns
    BY <1>15
  <2>2. tunnel_hand' \in [ch : Tunnel!Ids \cup {0}, sk : Tunnel!Ids \cup {0}]
        /\ tunnel_sockets' \subseteq Tunnel!Ids
    BY <1>1 DEF TunnelIInv, Tunnel!TypeOK
  <2>3. tunnel_pc' \in Tunnel!Cancellable
    BY <1>0 DEF Tunnel!Cancellable, TunnelHolding
  <2>4. TunnelAside
        /\ UNCHANGED <<tunnel_slots, tunnel_i, tunnel_channels, tunnel_twice, tunnel_running>>
    BY <1>0, <1>1
  <2> QED BY <2>1, <2>2, <2>3, <2>4 DEF TunnelIInv, Tunnel!TypeOK, TunnelAside,
     Tunnel!mainvars
<1>7. TunnelRoom'
  <2>1. Len(tunnel_slots) <= n /\ Len(tunnel_slots) < n /\ n <= n
    BY <1>15
  <2> QED BY <1>1, <1>3, <1>5, <2>1 DEF TunnelRoom
<1>8. TunnelDistinct' /\ TunnelPairs'
  BY <1>1 DEF TunnelIInv, TunnelDistinct, TunnelPairs
<1>9. TunnelPlace'
  BY <1>0, <1>1, <1>3, <1>5 DEF TunnelPlace, TunnelHolding, TunnelRemoving
<1>10. TunnelHoles'
  <2>1. tunnel_pc' # "accept" /\ tunnel_pc' # "first" /\ tunnel_pc' # "poll"
        /\ tunnel_pc' # "removing in poll"
    BY <1>0 DEF TunnelHolding
  <2>2. tunnel_pc' = "forward" => tunnel_kind = "open"
    BY DEF TunnelTakes
  <2> QED BY <1>0, <1>1, <2>1, <2>2 DEF TunnelIInv, TunnelHoles, TunnelAside,
     Tunnel!mainvars
<1>11. TunnelEmpty'
  <2>1. tunnel_alive /\ tunnel_own # "new" /\ tunnel_own # "freed" /\ ~tunnel_notice
    BY <1>0 DEF TunnelIInv, TunnelEmpty, TunnelOver
  <2> QED BY <1>0, <1>1, <2>1 DEF TunnelIInv, TunnelEmpty, TunnelAside, Tunnel!mainvars,
     TunnelHolding
<1>12. TunnelOwned'
  <2>1. \A s \in tunnel_sockets' : s = tunnel_hand'.sk
        \/ \E k \in 1 .. Len(tunnel_slots) : tunnel_slots[k].sk = s
    <3>1. \A s \in tunnel_sockets : s # 0
      <4>1. tunnel_sockets \subseteq Tunnel!Ids
        BY DEF TunnelIInv, Tunnel!TypeOK
      <4>2. 0 \notin Tunnel!Ids
        BY DEF Tunnel!Ids
      <4> QED BY <4>1, <4>2
    <3> QED BY <1>1, <1>3, <3>1 DEF TunnelIInv, TunnelOwned
  <2> QED BY <1>1, <1>4, <2>1 DEF TunnelIInv, TunnelOwned
<1>13. TunnelKept'
  BY <1>0, <1>1, <1>4 DEF TunnelIInv, TunnelKept, TunnelAside
<1>14. TunnelTorn'
  BY <1>0, <1>1 DEF TunnelIInv, TunnelTorn, Tunnel!ClosedOnce, TunnelAside
<1> QED BY <1>6, <1>7, <1>8, <1>9, <1>10, <1>11, <1>12, <1>13, <1>14 DEF TunnelIInv

\* A later connection that cannot be forwarded is closed and ends the tunnel.
TunnelRefused ==
    /\ TunnelAside /\ tunnel_pc = "forward again" /\ tunnel_pc' = "loop"
    /\ tunnel_hand' = Tunnel!Nothing /\ tunnel_running' = FALSE
       /\ Tunnel!close_socket(tunnel_hand.sk)
    /\ UNCHANGED <<tunnel_slots, tunnel_channels, tunnel_i, tunnel_conns>>

\* A connection that is refused.
LEMMA TunnelRefuses ==
    ASSUME MaxConns \in Nat, TunnelIInv, TunnelRefused
    PROVE  TunnelIInv'
<1>0. /\ TunnelAside /\ tunnel_pc = "forward again" /\ tunnel_pc' = "loop"
         /\ tunnel_hand' = Tunnel!Nothing
      /\ UNCHANGED <<tunnel_slots, tunnel_channels, tunnel_i, tunnel_conns>>
  BY DEF TunnelRefused
<1>1. tunnel_sockets' = tunnel_sockets \ {tunnel_hand.sk}
      /\ tunnel_twice' = (tunnel_twice \/ tunnel_hand.sk \notin tunnel_sockets)
  BY DEF Tunnel!close_socket, TunnelRefused
<1>2. tunnel_hand.sk \in tunnel_sockets /\ tunnel_hand'.sk = 0 /\ tunnel_hand'.ch = 0
      /\ tunnel_conns \in Nat
      /\ \A k \in 1 .. Len(tunnel_slots) : tunnel_slots[k].sk # tunnel_hand.sk
  BY <1>0, TunnelShape DEF TunnelIInv, TunnelPlace, TunnelHolding, Tunnel!Nothing
<1>3. \A k : TunnelHasSocket(k) /\ TunnelHasChannel(k) /\ TunnelHasSocket(k)'
      /\ TunnelHasChannel(k)'
  BY <1>0 DEF TunnelHasSocket, TunnelHasChannel, TunnelRemoving
<1>4. Tunnel!TypeOK'
  <2>1. tunnel_hand' \in [ch : Tunnel!Ids \cup {0}, sk : Tunnel!Ids \cup {0}]
        /\ tunnel_pc' \in Tunnel!Cancellable
    BY <1>0 DEF Tunnel!Nothing, Tunnel!Cancellable
  <2>2. tunnel_sockets' \subseteq Tunnel!Ids /\ tunnel_twice' \in BOOLEAN
    BY <1>1 DEF TunnelIInv, Tunnel!TypeOK
  <2>3. tunnel_running' \in BOOLEAN
    BY DEF TunnelRefused
  <2> QED BY <1>0, <2>1, <2>2, <2>3 DEF TunnelIInv, Tunnel!TypeOK, TunnelAside,
     Tunnel!mainvars
<1>5. TunnelRoom' /\ TunnelDistinct' /\ TunnelPairs'
  <2>1. Len(tunnel_slots) <= tunnel_conns /\ 0 <= tunnel_conns
        /\ \A k \in 1 .. Len(tunnel_slots) : tunnel_slots[k].sk <= tunnel_conns
    BY <1>2 DEF TunnelIInv, TunnelRoom
  <2>2. TunnelRoom'
    BY <1>0, <1>2, <2>1 DEF TunnelRoom
  <2>3. TunnelDistinct' /\ TunnelPairs'
    BY <1>0 DEF TunnelIInv, TunnelDistinct, TunnelPairs
  <2> QED BY <2>2, <2>3
<1>6. TunnelPlace' /\ TunnelHoles'
  BY <1>0 DEF TunnelIInv, TunnelPlace, TunnelHoles, TunnelHolding, TunnelRemoving,
     TunnelAside, Tunnel!mainvars
<1>7. TunnelEmpty'
  <2>1. tunnel_alive /\ tunnel_own # "new" /\ tunnel_own # "freed" /\ ~tunnel_notice
    BY <1>0 DEF TunnelIInv, TunnelEmpty, TunnelOver
  <2> QED BY <1>0, <2>1 DEF TunnelEmpty, TunnelAside, Tunnel!mainvars
<1>8. TunnelOwned' /\ TunnelKept'
  BY <1>0, <1>1, <1>2, <1>3 DEF TunnelIInv, TunnelOwned, TunnelKept, TunnelAside
<1>9. TunnelTorn'
  BY <1>0, <1>1, <1>2 DEF TunnelIInv, TunnelTorn, Tunnel!ClosedOnce, TunnelAside
<1> QED BY <1>4, <1>5, <1>6, <1>7, <1>8, <1>9 DEF TunnelIInv

\* A connection whose local end cannot be opened leaves no trace but its number.
TunnelSkips(n) ==
    /\ TunnelAside
       /\ UNCHANGED <<tunnel_running, tunnel_hand, tunnel_twice, tunnel_slots,
       tunnel_channels, tunnel_sockets>>
    /\ tunnel_conns < MaxConns /\ n = tunnel_conns + 1 /\ tunnel_conns' = n /\ tunnel_i' = 1
    /\ tunnel_pc \in {"first", "loop"} /\ tunnel_pc' \in {"closing", "select"}

\* The search passes one slot.
LEMMA TunnelSkipsOne ==
    ASSUME MaxConns \in Nat, TunnelIInv, NEW n \in Tunnel!Ids, TunnelSkips(n)
    PROVE  TunnelIInv'
<1>1. /\ TunnelAside
         /\ UNCHANGED <<tunnel_running, tunnel_hand, tunnel_twice, tunnel_slots,
         tunnel_channels, tunnel_sockets>>
      /\ tunnel_pc \in {"first", "loop"} /\ tunnel_pc' \in {"closing", "select"}
         /\ tunnel_i' = 1
  BY DEF TunnelSkips
<1>2. /\ tunnel_conns < MaxConns /\ tunnel_conns' = tunnel_conns + 1
         /\ tunnel_conns \in Nat /\ Len(tunnel_slots) \in Nat
      /\ tunnel_hand.sk \in Nat /\ Len(tunnel_slots) <= tunnel_conns
         /\ tunnel_slots \in Seq(TunnelSlot)
  BY TunnelShape DEF TunnelSkips
<1>3. ASSUME NEW k \in 1 .. Len(tunnel_slots)
      PROVE  TunnelHasSocket(k) /\ TunnelHasChannel(k) /\ TunnelHasSocket(k)'
             /\ TunnelHasChannel(k)'
  <2>1. k >= 1
    BY <1>2
  <2> QED BY <1>1, <2>1 DEF TunnelHasSocket, TunnelHasChannel, TunnelRemoving
<1>4. Tunnel!TypeOK'
  <2>1. tunnel_conns' \in 0 .. MaxConns /\ 1 \in 1 .. MaxConns + 1
    BY <1>2
  <2>2. tunnel_pc' \in Tunnel!Cancellable
    BY <1>1 DEF Tunnel!Cancellable
  <2> QED BY <1>1, <2>1, <2>2 DEF TunnelIInv, Tunnel!TypeOK, TunnelAside, Tunnel!mainvars
<1>5. TunnelRoom'
  <2>1. ASSUME NEW k \in 1 .. Len(tunnel_slots) PROVE tunnel_slots[k].sk <= tunnel_conns'
    <3>1. tunnel_slots[k] \in TunnelSlot
      BY <1>2
    <3>2. tunnel_slots[k].sk \in Nat
      BY <3>1 DEF TunnelSlot, Tunnel!Ids
    <3>3. tunnel_slots[k].sk <= tunnel_conns
      BY DEF TunnelIInv, TunnelRoom
    <3> QED BY <1>2, <3>2, <3>3
  <2>2. tunnel_hand.sk <= tunnel_conns /\ tunnel_hand.ch = 0
    BY DEF TunnelIInv, TunnelRoom
  <2>3. Len(tunnel_slots) <= tunnel_conns' /\ Len(tunnel_slots) < tunnel_conns'
        /\ tunnel_hand.sk <= tunnel_conns'
    BY <1>2, <2>2
  <2> QED BY <1>1, <2>1, <2>2, <2>3 DEF TunnelRoom
<1>6. TunnelDistinct' /\ TunnelPairs'
  BY <1>1 DEF TunnelIInv, TunnelDistinct, TunnelPairs
<1>7. TunnelPlace'
  <2>1. tunnel_hand = Tunnel!Nothing
    BY <1>1 DEF TunnelIInv, TunnelPlace, TunnelHolding
  <2>2. 1 <= Len(tunnel_slots) + 1
    BY <1>2
  <2> QED BY <1>1, <2>1, <2>2 DEF TunnelPlace, TunnelHolding, TunnelRemoving
<1>8. TunnelHoles'
  BY <1>1 DEF TunnelIInv, TunnelHoles, TunnelAside, Tunnel!mainvars
<1>9. TunnelEmpty'
  <2>1. tunnel_alive /\ tunnel_own # "new" /\ tunnel_own # "freed" /\ ~tunnel_notice
    BY <1>1 DEF TunnelIInv, TunnelEmpty, TunnelOver
  <2> QED BY <1>1, <2>1 DEF TunnelEmpty, TunnelAside, Tunnel!mainvars
<1>10. TunnelOwned' /\ TunnelKept'
  BY <1>1, <1>3 DEF TunnelIInv, TunnelOwned, TunnelKept, TunnelAside
<1>11. TunnelTorn'
  BY <1>1 DEF TunnelIInv, TunnelTorn, Tunnel!ClosedOnce, TunnelAside
<1> QED BY <1>4, <1>5, <1>6, <1>7, <1>8, <1>9, <1>10, <1>11 DEF TunnelIInv

\* The thread goes from one place outside the passes to another.
TunnelCalm == {"none", "start", "first", "loop", "returned", "ended", "ending", "dead"}

TunnelStaysCalm ==
    /\ UNCHANGED <<tunnel_kind, tunnel_slots, tunnel_hand, tunnel_conns, tunnel_sockets,
       tunnel_channels, tunnel_i, tunnel_twice, tunnel_torn>>
    /\ tunnel_pc \in TunnelCalm /\ tunnel_pc' \in TunnelCalm
    /\ tunnel_pc = "dead" => tunnel_pc' = "dead"
    /\ tunnel_pc' = "first" => tunnel_kind # "open"

\* A step outside of a removal.
LEMMA TunnelCalmly ==
    ASSUME MaxConns \in Nat, TunnelIInv, TunnelStaysCalm, Tunnel!TypeOK', TunnelEmpty'
    PROVE  TunnelIInv'
<1>1. \A k : TunnelHasSocket(k) /\ TunnelHasChannel(k) /\ TunnelHasSocket(k)'
      /\ TunnelHasChannel(k)'
  BY DEF TunnelHasSocket, TunnelHasChannel, TunnelStaysCalm, TunnelCalm, TunnelRemoving
<1>2. TunnelRoom' /\ TunnelDistinct' /\ TunnelPairs'
  BY DEF TunnelIInv, TunnelRoom, TunnelDistinct, TunnelPairs, TunnelStaysCalm
<1>3. TunnelPlace'
  <2>1. tunnel_pc' \notin TunnelHolding \cup TunnelRemoving \cup {"read", "poll",
        "closing", "closing channel"}
    BY DEF TunnelStaysCalm, TunnelCalm, TunnelHolding, TunnelRemoving
  <2>2. tunnel_pc' # "dead" => tunnel_hand' = Tunnel!Nothing
    <3>1. tunnel_pc \notin TunnelHolding
      BY DEF TunnelStaysCalm, TunnelCalm, TunnelHolding
    <3> QED BY <3>1 DEF TunnelIInv, TunnelPlace, TunnelStaysCalm
  <2> QED BY <2>1, <2>2 DEF TunnelPlace
<1>4. TunnelHoles'
  BY DEF TunnelIInv, TunnelHoles, TunnelStaysCalm, TunnelCalm
<1>5. TunnelOwned' /\ TunnelKept'
  BY <1>1 DEF TunnelIInv, TunnelOwned, TunnelKept, TunnelStaysCalm
<1>6. TunnelTorn'
  BY DEF TunnelIInv, TunnelTorn, Tunnel!ClosedOnce, TunnelStaysCalm
<1> QED BY <1>2, <1>3, <1>4, <1>5, <1>6 DEF TunnelIInv

\* The main thread changes what it knows of the tunnel.
LEMMA TunnelOwnerActs ==
    ASSUME TunnelIInv, Tunnel!TypeOK', TunnelEmpty',
           UNCHANGED <<tunnel_kind, tunnel_slots, tunnel_hand, tunnel_conns,
              tunnel_sockets, tunnel_channels, tunnel_i, tunnel_twice, tunnel_torn, tunnel_pc>>
    PROVE  TunnelIInv'
<1>1. TunnelRoom' /\ TunnelDistinct' /\ TunnelPairs'
  BY DEF TunnelIInv, TunnelRoom, TunnelDistinct, TunnelPairs
<1>2. TunnelPlace' /\ TunnelHoles'
  BY DEF TunnelIInv, TunnelPlace, TunnelHoles
<1>3. TunnelOwned' /\ TunnelKept'
  BY DEF TunnelIInv, TunnelOwned, TunnelKept, TunnelHasSocket, TunnelHasChannel
<1>4. TunnelTorn'
  BY DEF TunnelIInv, TunnelTorn, Tunnel!ClosedOnce
<1> QED BY <1>1, <1>2, <1>3, <1>4 DEF TunnelIInv

\* The thread is cancelled.
LEMMA TunnelDies ==
    ASSUME MaxConns \in Nat, TunnelIInv, Tunnel!Die
    PROVE  TunnelIInv'
<1>1. /\ tunnel_own = "joining" /\ tunnel_pc \in Tunnel!Cancellable /\ tunnel_pc' = "dead"
      /\ UNCHANGED <<tunnel_kind, tunnel_own, tunnel_slots, tunnel_hand, tunnel_conns,
         tunnel_sockets, tunnel_channels, tunnel_i, tunnel_twice>>
      /\ UNCHANGED <<tunnel_alive, tunnel_running, tunnel_listening, tunnel_notice,
         tunnel_fault, tunnel_destroy_func>>
  BY DEF Tunnel!Die, Tunnel!Go, Tunnel!mainvars, Tunnel!arrays
<1>2. tunnel_torn' = (tunnel_torn
      \/ tunnel_pc \in {"removing in read", "removing in poll", "closing channel"}
                    \/ (tunnel_pc = "closing" /\ tunnel_i > 1))
  BY DEF Tunnel!Die
<1>3. \A k : TunnelHasSocket(k)' /\ TunnelHasChannel(k)'
  BY <1>1 DEF TunnelHasSocket, TunnelHasChannel, TunnelRemoving
<1>4. Tunnel!TypeOK'
  <2>1. tunnel_torn' \in BOOLEAN
    BY <1>2 DEF TunnelIInv, Tunnel!TypeOK
  <2> QED BY <1>1, <2>1 DEF TunnelIInv, Tunnel!TypeOK
<1>5. TunnelRoom' /\ TunnelDistinct' /\ TunnelPairs'
  BY <1>1 DEF TunnelIInv, TunnelRoom, TunnelDistinct, TunnelPairs
<1>6. TunnelPlace' /\ TunnelHoles'
  BY <1>1 DEF TunnelIInv, TunnelPlace, TunnelHoles, TunnelRemoving, TunnelHolding
<1>7. TunnelEmpty'
  <2>1. tunnel_alive /\ ~tunnel_notice
    BY <1>1 DEF TunnelIInv, TunnelEmpty, TunnelOver, Tunnel!Cancellable
  <2> QED BY <1>1, <2>1 DEF TunnelEmpty
<1>8. TunnelOwned'
  BY <1>1, <1>3 DEF TunnelIInv, TunnelOwned
<1>9. TunnelKept'
  <2> SUFFICES ASSUME ~tunnel_torn'
               PROVE  \A k \in 1 .. Len(tunnel_slots) :
                         tunnel_slots[k].sk \in tunnel_sockets
                            /\ tunnel_slots[k].ch \in tunnel_channels \cup {0}
    BY <1>1 DEF TunnelKept
  <2>1. ~tunnel_torn /\ tunnel_pc \notin TunnelRemoving /\ tunnel_pc # "closing channel"
        /\ (tunnel_pc = "closing" => ~(tunnel_i > 1))
    BY <1>2 DEF TunnelRemoving
  <2>2. ASSUME NEW k \in 1 .. Len(tunnel_slots) PROVE TunnelHasSocket(k) /\ TunnelHasChannel(k)
    <3>1. ~(tunnel_i > 1) => k >= tunnel_i
      BY TunnelShape
    <3> QED BY <2>1, <3>1 DEF TunnelHasSocket, TunnelHasChannel
  <2> QED BY <2>1, <2>2 DEF TunnelIInv, TunnelKept
<1>10. TunnelTorn'
  BY <1>1, <1>2 DEF TunnelIInv, TunnelTorn, Tunnel!ClosedOnce
<1> QED BY <1>4, <1>5, <1>6, <1>7, <1>8, <1>9, <1>10 DEF TunnelIInv

\* The main thread frees the tunnel, whose thread is over.
TunnelFreed ==
    /\ Tunnel!free /\ tunnel_pc \in TunnelOver
    /\ tunnel_alive' \in BOOLEAN /\ tunnel_notice' \in BOOLEAN /\ tunnel_fault' = tunnel_fault
    /\ tunnel_notice' => tunnel_notice

\* What the freeing by the main thread closes.
LEMMA TunnelFrees ==
    ASSUME MaxConns \in Nat, TunnelIInv, TunnelFreed
    PROVE  TunnelIInv'
<1>1. /\ tunnel_own' = "freed" /\ tunnel_listening' = FALSE /\ tunnel_slots' = <<>>
      /\ UNCHANGED <<tunnel_kind, tunnel_destroy_func, tunnel_running, tunnel_i,
         tunnel_hand, tunnel_conns, tunnel_pc, tunnel_torn>>
      /\ tunnel_pc \in TunnelOver /\ (tunnel_notice' => tunnel_notice)
  BY DEF TunnelFreed, Tunnel!free, Tunnel!close_all_channels
<1>2. DOMAIN tunnel_slots = 1 .. Len(tunnel_slots) /\ tunnel_conns \in Nat
  BY TunnelShape
<1>3. /\ tunnel_sockets' = tunnel_sockets \ {tunnel_slots[k].sk : k \in 1 .. Len(tunnel_slots)}
      /\ tunnel_channels'
         = tunnel_channels \ {tunnel_slots[k].ch : k \in 1 .. Len(tunnel_slots)}
      /\ tunnel_twice' = (tunnel_twice \/ \E k \in 1 .. Len(tunnel_slots) :
                               \/ tunnel_slots[k].sk \notin tunnel_sockets
                               \/ tunnel_slots[k].ch \notin tunnel_channels \cup {0})
  BY <1>2 DEF TunnelFreed, Tunnel!free, Tunnel!close_all_channels
<1>4. /\ tunnel_slots' \in Seq([ch : Tunnel!Ids \cup {0}, sk : Tunnel!Ids,
         buf : Tunnel!Ids \cup {0}])
      /\ Len(tunnel_slots') = 0 /\ \A k \in 1 .. Len(tunnel_slots') : FALSE
  BY <1>1
<1>5. Tunnel!TypeOK'
  <2>1. tunnel_sockets' \subseteq Tunnel!Ids /\ tunnel_channels' \subseteq Tunnel!Ids
        /\ tunnel_twice' \in BOOLEAN
    BY <1>3 DEF TunnelIInv, Tunnel!TypeOK
  <2>2. tunnel_alive' \in BOOLEAN /\ tunnel_notice' \in BOOLEAN /\ tunnel_fault' = tunnel_fault
    BY DEF TunnelFreed
  <2>3. tunnel_own' \in {"freed"} /\ tunnel_listening' \in BOOLEAN
    BY <1>1
  <2>4. UNCHANGED <<tunnel_kind, tunnel_destroy_func, tunnel_running, tunnel_i,
        tunnel_hand, tunnel_conns, tunnel_pc, tunnel_torn>>
    BY <1>1
  <2> QED BY <1>4, <2>1, <2>2, <2>3, <2>4 DEF TunnelIInv, Tunnel!TypeOK
<1>6. TunnelRoom'
  <2>1. tunnel_hand.sk # 0 => 0 < tunnel_conns
    BY TunnelShape DEF TunnelIInv, TunnelRoom
  <2> QED BY <1>1, <1>2, <1>4, <2>1 DEF TunnelIInv, TunnelRoom
<1>7. TunnelDistinct' /\ TunnelPairs' /\ TunnelKept'
  BY <1>4 DEF TunnelDistinct, TunnelPairs, TunnelKept
<1>8. TunnelPlace' /\ TunnelHoles'
  BY <1>1, <1>4 DEF TunnelIInv, TunnelPlace, TunnelHoles, TunnelOver, TunnelHolding,
     TunnelRemoving
<1>9. TunnelEmpty'
  BY <1>1 DEF TunnelIInv, TunnelEmpty
<1>10. TunnelOwned'
  <2>1. \A s \in tunnel_sockets' : s = tunnel_hand.sk
    BY <1>3 DEF TunnelIInv, TunnelOwned
  <2>2. tunnel_channels' = {}
    BY <1>3 DEF TunnelIInv, TunnelOwned
  <2> QED BY <1>1, <2>1, <2>2 DEF TunnelOwned
<1>11. TunnelTorn'
  <2>1. \A k : TunnelHasSocket(k) /\ TunnelHasChannel(k)
    BY <1>1 DEF TunnelHasSocket, TunnelHasChannel, TunnelOver, TunnelRemoving
  <2>2. ASSUME ~tunnel_torn PROVE tunnel_twice' => tunnel_twice
    <3>1. \A k \in 1 .. Len(tunnel_slots) :
             tunnel_slots[k].sk \in tunnel_sockets
                /\ tunnel_slots[k].ch \in tunnel_channels \cup {0}
      BY <2>1, <2>2 DEF TunnelIInv, TunnelKept
    <3> QED BY <1>3, <3>1
  <2> QED BY <1>1, <2>2 DEF TunnelIInv, TunnelTorn, Tunnel!ClosedOnce
<1> QED BY <1>5, <1>6, <1>7, <1>8, <1>9, <1>10, <1>11 DEF TunnelIInv

(* The theorems.                                                           *)

\* The invariant holds at the start; ...
LEMMA TunnelInitInv == ASSUME MaxConns \in Nat, Tunnel!Init PROVE TunnelIInv
<1>1. Tunnel!TypeOK
  <2>1. 1 \in 1 .. MaxConns + 1 /\ 0 \in 0 .. MaxConns
    OBVIOUS
  <2>2. tunnel_hand \in [ch : Tunnel!Ids \cup {0}, sk : Tunnel!Ids \cup {0}]
    BY DEF Tunnel!Init, Tunnel!Nothing
  <2>3. tunnel_slots \in Seq([ch : Tunnel!Ids \cup {0}, sk : Tunnel!Ids,
        buf : Tunnel!Ids \cup {0}])
    BY DEF Tunnel!Init
  <2> QED BY <2>1, <2>2, <2>3 DEF Tunnel!Init, Tunnel!TypeOK
<1>2. tunnel_slots = <<>> /\ Len(tunnel_slots) = 0 /\ \A k \in 1 .. Len(tunnel_slots) : FALSE
  BY DEF Tunnel!Init
<1>3. TunnelRoom /\ TunnelDistinct /\ TunnelPairs /\ TunnelKept
  BY <1>2 DEF Tunnel!Init, TunnelRoom, TunnelDistinct, TunnelPairs, TunnelKept,
     Tunnel!Nothing
<1>4. TunnelPlace /\ TunnelHoles /\ TunnelEmpty /\ TunnelOwned /\ TunnelTorn
  BY <1>2 DEF Tunnel!Init, TunnelPlace, TunnelHoles, TunnelEmpty, TunnelOwned, TunnelTorn,
     Tunnel!ClosedOnce, TunnelRemoving, TunnelHolding, TunnelOver
<1> QED BY <1>1, <1>3, <1>4 DEF TunnelIInv

\* The thread, while it transfers.
LEMMA TunnelForwardInv ==
    ASSUME MaxConns \in Nat, TunnelIInv, Tunnel!Forward,
           UNCHANGED <<Tunnel!mainvars, tunnel_listening, tunnel_notice, tunnel_torn,
              tunnel_fault>>
    PROVE  TunnelIInv'
<1>1. PICK ch \in {0, tunnel_hand.sk} :
          Tunnel!add_channel(ch, tunnel_hand.sk)
             /\ tunnel_channels' = tunnel_channels \cup ({ch} \ {0})
  BY DEF Tunnel!Forward
<1>2. /\ tunnel_pc = "forward" /\ tunnel_pc' = "loop" /\ tunnel_hand' = Tunnel!Nothing
      /\ UNCHANGED <<tunnel_alive, tunnel_running, tunnel_i, tunnel_conns, tunnel_sockets,
         tunnel_twice>>
  BY DEF Tunnel!Forward, Tunnel!Go
<1>3. tunnel_slots = <<>> /\ Len(tunnel_slots) = 0 /\ tunnel_hand.sk \in tunnel_sockets
      /\ tunnel_hand.sk # 0 /\ tunnel_kind = "open"
  BY <1>2 DEF TunnelIInv, TunnelEmpty, TunnelPlace, TunnelHolding, TunnelHoles
<1>4. tunnel_hand.sk \in Tunnel!Ids
  BY <1>3 DEF TunnelIInv, Tunnel!TypeOK
<1>5. /\ tunnel_conns' \in Nat /\ tunnel_conns <= tunnel_conns' /\ tunnel_conns' <= MaxConns
      /\ Len(tunnel_slots) + 1 <= tunnel_conns' /\ tunnel_hand.sk <= tunnel_conns'
  <2>1. Len(tunnel_slots) < tunnel_conns /\ tunnel_hand.sk <= tunnel_conns
    BY <1>3 DEF TunnelIInv, TunnelRoom
  <2>2. tunnel_conns \in Nat /\ tunnel_conns <= MaxConns
    BY TunnelShape
  <2> QED BY <1>2, <1>3, <2>1, <2>2
<1>6. tunnel_running' \in BOOLEAN /\ tunnel_i' \in 1 .. MaxConns + 1
  BY <1>2 DEF TunnelIInv, Tunnel!TypeOK
<1>7. \A k \in 1 .. Len(tunnel_slots) : FALSE
  BY <1>3
<1>8. tunnel_slots' = Append(tunnel_slots, [ch |-> ch, sk |-> tunnel_hand.sk, buf |-> 0])
  BY <1>1 DEF Tunnel!add_channel
<1>9. tunnel_sockets' = tunnel_sockets \cup {tunnel_hand.sk}
  BY <1>2, <1>3
<1>10. TunnelJoins(tunnel_hand.sk, ch)
  BY <1>1, <1>2, <1>3, <1>5, <1>6, <1>7, <1>8, <1>9 DEF TunnelJoins, TunnelAside
<1> QED BY <1>4, <1>10, TunnelAdds

\* ... the next round of forwarding, ...
LEMMA TunnelForwardAgainInv ==
    ASSUME MaxConns \in Nat, TunnelIInv, Tunnel!ForwardAgain,
           UNCHANGED <<Tunnel!mainvars, tunnel_listening, tunnel_notice, tunnel_torn,
              tunnel_fault>>
    PROVE  TunnelIInv'
<1>1. /\ tunnel_pc = "forward again" /\ tunnel_pc' = "loop" /\ tunnel_hand' = Tunnel!Nothing
      /\ UNCHANGED <<tunnel_alive, tunnel_i, tunnel_conns>>
  BY DEF Tunnel!ForwardAgain, Tunnel!Go
<1>2. CASE /\ Tunnel!add_channel(tunnel_hand.sk, tunnel_hand.sk)
           /\ tunnel_channels' = tunnel_channels \cup {tunnel_hand.sk}
           /\ UNCHANGED <<tunnel_sockets, tunnel_running, tunnel_twice>>
  <2>1. /\ tunnel_hand.sk \in tunnel_sockets /\ tunnel_hand.sk # 0
        /\ \A k \in 1 .. Len(tunnel_slots) : tunnel_slots[k].sk # tunnel_hand.sk
           /\ tunnel_slots[k].ch # 0
    BY <1>1 DEF TunnelIInv, TunnelPlace, TunnelHolding, TunnelHoles
  <2>2. tunnel_hand.sk \in Tunnel!Ids
    BY <2>1 DEF TunnelIInv, Tunnel!TypeOK
  <2>3. /\ tunnel_conns' \in Nat /\ tunnel_conns <= tunnel_conns' /\ tunnel_conns' <= MaxConns
        /\ Len(tunnel_slots) + 1 <= tunnel_conns' /\ tunnel_hand.sk <= tunnel_conns'
    <3>1. Len(tunnel_slots) < tunnel_conns /\ tunnel_hand.sk <= tunnel_conns
      BY <2>1 DEF TunnelIInv, TunnelRoom
    <3>2. tunnel_conns \in Nat /\ tunnel_conns <= MaxConns /\ Len(tunnel_slots) \in Nat
      BY TunnelShape
    <3>3. tunnel_conns' = tunnel_conns
      BY <1>1
    <3>4. Len(tunnel_slots) + 1 <= tunnel_conns
      BY <3>1, <3>2
    <3> QED BY <3>1, <3>2, <3>3, <3>4
  <2>4. tunnel_running' \in BOOLEAN /\ tunnel_i' \in 1 .. MaxConns + 1
    BY <1>1, <1>2 DEF TunnelIInv, Tunnel!TypeOK
  <2>5. tunnel_slots' = Append(tunnel_slots, [ch |-> tunnel_hand.sk, sk |-> tunnel_hand.sk,
        buf |-> 0])
    BY <1>2 DEF Tunnel!add_channel
  <2>6. tunnel_sockets' = tunnel_sockets \cup {tunnel_hand.sk}
        /\ tunnel_channels' = tunnel_channels \cup ({tunnel_hand.sk} \ {0})
    BY <1>2, <2>1
  <2>7. TunnelJoins(tunnel_hand.sk, tunnel_hand.sk)
    BY <1>1, <1>2, <2>1, <2>3, <2>4, <2>5, <2>6 DEF TunnelJoins, TunnelAside
  <2> QED BY <2>2, <2>7, TunnelAdds
<1>3. CASE /\ tunnel_running' = FALSE
           /\ Tunnel!close_socket(tunnel_hand.sk)
           /\ UNCHANGED <<tunnel_slots, tunnel_channels>>
  <2>1. TunnelRefused
    BY <1>1, <1>3 DEF TunnelRefused, TunnelAside
  <2> QED BY <2>1, TunnelRefuses
<1> QED BY <1>2, <1>3 DEF Tunnel!ForwardAgain

\* An early return: the thread has touched nothing.
LEMMA TunnelReturns ==
    ASSUME MaxConns \in Nat, TunnelIInv, Tunnel!Return, tunnel_pc \in {"start", "first"},
           UNCHANGED <<tunnel_hand, tunnel_conns, Tunnel!mainvars, tunnel_listening,
              tunnel_notice, tunnel_torn, tunnel_fault>>
    PROVE  TunnelIInv'
<1>1. /\ tunnel_pc' = "returned" /\ tunnel_alive' = FALSE
      /\ UNCHANGED <<tunnel_running, tunnel_slots, tunnel_i, tunnel_sockets,
         tunnel_channels, tunnel_twice>>
  BY DEF Tunnel!Return, Tunnel!Go
<1>2. Tunnel!TypeOK'
  <2>1. tunnel_alive' \in BOOLEAN /\ tunnel_pc' \in {"returned"}
    BY <1>1
  <2>2. UNCHANGED <<tunnel_running, tunnel_slots, tunnel_i, tunnel_sockets,
        tunnel_channels, tunnel_twice, tunnel_hand, tunnel_conns, Tunnel!mainvars>>
    BY <1>1
  <2> QED BY <2>1, <2>2 DEF TunnelIInv, Tunnel!TypeOK, Tunnel!mainvars
<1>3. TunnelEmpty'
  BY <1>1 DEF TunnelIInv, TunnelEmpty, TunnelOver, Tunnel!mainvars
<1>4. TunnelStaysCalm
  BY <1>1 DEF TunnelStaysCalm, TunnelCalm, Tunnel!mainvars
<1> QED BY <1>2, <1>3, <1>4, TunnelCalmly

\* ... of listening, ...
LEMMA TunnelListenInv ==
    ASSUME MaxConns \in Nat, TunnelIInv, Tunnel!Listen,
           UNCHANGED <<Tunnel!mainvars, tunnel_listening, tunnel_notice, tunnel_torn,
              tunnel_fault>>
    PROVE  TunnelIInv'
<1>1. tunnel_pc = "start" /\ tunnel_kind # "open" /\ UNCHANGED <<tunnel_hand, tunnel_conns>>
  BY DEF Tunnel!Listen
<1>2. CASE Tunnel!Return
  BY <1>1, <1>2, TunnelReturns
<1>3. CASE /\ tunnel_pc' = "first"
           /\ UNCHANGED <<tunnel_alive, tunnel_running, tunnel_slots, tunnel_i,
              tunnel_sockets, tunnel_channels, tunnel_twice>>
  <2>1. Tunnel!TypeOK'
    BY <1>1, <1>3 DEF TunnelIInv, Tunnel!TypeOK, Tunnel!mainvars, Tunnel!Cancellable
  <2>2. TunnelEmpty'
    <3>1. tunnel_alive /\ tunnel_own # "new" /\ tunnel_own # "freed" /\ ~tunnel_notice
          /\ tunnel_slots = <<>>
      BY <1>1 DEF TunnelIInv, TunnelEmpty, TunnelOver
    <3> QED BY <1>3, <3>1 DEF TunnelEmpty, Tunnel!mainvars
  <2>3. TunnelStaysCalm
    BY <1>1, <1>3 DEF TunnelStaysCalm, TunnelCalm, Tunnel!mainvars
  <2> QED BY <2>1, <2>2, <2>3, TunnelCalmly
<1> QED BY <1>2, <1>3 DEF Tunnel!Listen, Tunnel!Go

\* ... of the loop over the slots, ...
LEMMA TunnelLoopInv ==
    ASSUME MaxConns \in Nat, TunnelIInv,
           \/ Tunnel!Loop \/ Tunnel!Select \/ Tunnel!Pass("read", "poll")
              \/ Tunnel!Pass("poll", "accept")
           \/ Tunnel!Read \/ Tunnel!AcceptNone,
           UNCHANGED <<Tunnel!mainvars, tunnel_listening, tunnel_notice, tunnel_torn,
              tunnel_fault>>
    PROVE  TunnelIInv'
<1>1. TunnelMoved
  BY DEF TunnelMoved, Tunnel!Loop, Tunnel!Select, Tunnel!Pass, Tunnel!Read,
     Tunnel!AcceptNone, Tunnel!arrays
<1>2. CASE Tunnel!Loop
  BY <1>1, <1>2, TunnelMovesOn DEF Tunnel!Loop, Tunnel!Go
<1>3. CASE Tunnel!Select
  BY <1>1, <1>3, TunnelMovesOn DEF Tunnel!Select, Tunnel!Go
<1>4. CASE Tunnel!Pass("read", "poll")
  BY <1>1, <1>4, TunnelMovesOn DEF Tunnel!Pass, Tunnel!Go
<1>5. CASE Tunnel!Pass("poll", "accept")
  BY <1>1, <1>5, TunnelMovesOn DEF Tunnel!Pass, Tunnel!Go
<1>6. CASE Tunnel!Read
  BY <1>1, <1>6, TunnelMovesOn DEF Tunnel!Read
<1>7. CASE Tunnel!AcceptNone
  BY <1>1, <1>7, TunnelMovesOn DEF Tunnel!AcceptNone, Tunnel!Go, Tunnel!arrays
<1> QED BY <1>2, <1>3, <1>4, <1>5, <1>6, <1>7

\* ... the work on a slot ...
LEMMA TunnelWorkInv ==
    ASSUME MaxConns \in Nat, TunnelIInv, Tunnel!Work
    PROVE  TunnelIInv'
<1>1. UNCHANGED <<Tunnel!mainvars, tunnel_listening, tunnel_notice, tunnel_torn, tunnel_fault>>
  BY DEF Tunnel!Work
<1>2. CASE Tunnel!Forward
  BY <1>1, <1>2, TunnelForwardInv
<1>3. CASE Tunnel!ForwardAgain
  BY <1>1, <1>3, TunnelForwardAgainInv
<1>4. CASE Tunnel!Listen
  BY <1>1, <1>4, TunnelListenInv
<1>5. CASE Tunnel!NoConnection
  BY <1>1, <1>5, TunnelReturns DEF Tunnel!NoConnection
<1>6. CASE \/ Tunnel!Loop \/ Tunnel!Select \/ Tunnel!Pass("read", "poll")
              \/ Tunnel!Pass("poll", "accept")
           \/ Tunnel!Read \/ Tunnel!AcceptNone
  BY <1>1, <1>6, TunnelLoopInv
<1>7. CASE Tunnel!Poll
  BY <1>1, <1>7, TunnelPolls DEF Tunnel!Poll, TunnelAside
<1>8. CASE Tunnel!Disconnected
  BY <1>1, <1>8, TunnelDisconnects DEF Tunnel!Disconnected, TunnelAside
<1>9. CASE Tunnel!Remove
  BY <1>1, <1>9, TunnelRemoves DEF Tunnel!Remove, TunnelAside
<1>10. CASE Tunnel!CloseSocket
  BY <1>1, <1>10, TunnelClosesSocket DEF Tunnel!CloseSocket, TunnelAside
<1>11. CASE Tunnel!CloseChannel
  BY <1>1, <1>11, TunnelClosesChannel DEF Tunnel!CloseChannel, TunnelAside
<1>12. CASE Tunnel!Closed
  BY <1>1, <1>12, TunnelCloses DEF Tunnel!Closed, TunnelAside
<1> QED
  BY <1>2, <1>3, <1>4, <1>5, <1>6, <1>7, <1>8, <1>9, <1>10, <1>11, <1>12 DEF Tunnel!Work

\* ... and a new connection keep it.
LEMMA TunnelConnectInv ==
    ASSUME MaxConns \in Nat, TunnelIInv, Tunnel!Connect
    PROVE  TunnelIInv'
<1>1. UNCHANGED <<Tunnel!mainvars, tunnel_listening, tunnel_notice, tunnel_torn, tunnel_fault>>
  BY DEF Tunnel!Connect
<1>2. CASE Tunnel!AcceptFails
  BY <1>1, <1>2, TunnelReturns DEF Tunnel!AcceptFails
<1>3. ASSUME NEW n \in Tunnel!Ids, Tunnel!AcceptLocal(n) PROVE TunnelIInv'
  <2>1. TunnelTakes(n)
    BY <1>1, <1>3 DEF Tunnel!AcceptLocal, TunnelTakes, TunnelAside, Tunnel!Go
  <2> QED BY <2>1, TunnelTakesInHand
<1>4. ASSUME NEW n \in Tunnel!Ids, Tunnel!AcceptMore(n) PROVE TunnelIInv'
  <2>1. TunnelTakes(n)
    BY <1>1, <1>4 DEF Tunnel!AcceptMore, TunnelTakes, TunnelAside, Tunnel!Go
  <2> QED BY <2>1, TunnelTakesInHand
<1>5. ASSUME NEW n \in Tunnel!Ids, Tunnel!FirstConnection(n) PROVE TunnelIInv'
  <2>1. /\ tunnel_pc \in {"first", "loop"} /\ (tunnel_pc = "loop" => tunnel_kind = "xport")
        /\ tunnel_conns < MaxConns /\ n = tunnel_conns + 1 /\ tunnel_conns' = n /\ tunnel_i' = 1
        /\ UNCHANGED <<tunnel_alive, tunnel_running, tunnel_hand, tunnel_twice>>
    BY <1>5 DEF Tunnel!FirstConnection
  <2>2. CASE /\ tunnel_pc' \in {"closing", "select"}
             /\ UNCHANGED <<tunnel_slots, tunnel_channels, tunnel_sockets>>
    <3>1. TunnelSkips(n)
      BY <1>1, <2>1, <2>2 DEF TunnelSkips, TunnelAside
    <3> QED BY <3>1, TunnelSkipsOne
  <2>3. CASE /\ Tunnel!add_channel(n, n)
             /\ tunnel_channels' = tunnel_channels \cup {n}
             /\ tunnel_sockets' = tunnel_sockets \cup {n}
             /\ tunnel_pc' = "select"
    <3>1. tunnel_hand = Tunnel!Nothing /\ tunnel_hand' = Tunnel!Nothing /\ tunnel_hand.sk = 0
      <4>1. tunnel_hand = Tunnel!Nothing
        BY <2>1 DEF TunnelIInv, TunnelPlace, TunnelHolding
      <4> QED BY <2>1, <4>1 DEF Tunnel!Nothing
    <3>2. /\ tunnel_conns \in Nat /\ tunnel_conns < MaxConns /\ tunnel_conns' = n
             /\ n = tunnel_conns + 1
          /\ Len(tunnel_slots) <= tunnel_conns /\ Len(tunnel_slots) \in Nat
             /\ tunnel_slots \in Seq(TunnelSlot)
      BY <2>1, TunnelShape
    <3>3. /\ tunnel_conns' \in Nat /\ tunnel_conns <= tunnel_conns' /\ tunnel_conns' <= MaxConns
          /\ Len(tunnel_slots) + 1 <= tunnel_conns' /\ n <= tunnel_conns' /\ n # 0
      BY <3>2
    <3>4. ASSUME NEW k \in 1 .. Len(tunnel_slots) PROVE tunnel_slots[k].sk # n
                 /\ tunnel_slots[k].ch # 0
      <4>1. tunnel_slots[k] \in TunnelSlot
        BY <3>2
      <4>2. tunnel_slots[k].sk \in Nat
        BY <4>1 DEF TunnelSlot, Tunnel!Ids
      <4>3. tunnel_slots[k].sk <= tunnel_conns
        BY DEF TunnelIInv, TunnelRoom
      <4>4. tunnel_slots[k].sk # n
        BY <3>2, <4>2, <4>3
      <4>5. tunnel_kind # "open"
        BY <2>1 DEF TunnelIInv, TunnelHoles
      <4> QED BY <4>4, <4>5 DEF TunnelIInv, TunnelHoles
    <3>5. tunnel_running' \in BOOLEAN
      BY <2>1 DEF TunnelIInv, Tunnel!TypeOK
    <3>6. tunnel_i' \in 1 .. MaxConns + 1
      BY <2>1
    <3>7. tunnel_slots' = Append(tunnel_slots, [ch |-> n, sk |-> n, buf |-> 0])
      BY <2>3 DEF Tunnel!add_channel
    <3>8. tunnel_channels' = tunnel_channels \cup ({n} \ {0})
      BY <2>3, <3>3
    <3>9. TunnelJoins(n, n)
      BY <1>1, <2>1, <2>3, <3>1, <3>3, <3>4, <3>5, <3>6, <3>7, <3>8, Zenon DEF TunnelJoins,
         TunnelAside
    <3> QED BY <3>9, TunnelAdds
  <2> QED BY <1>5, <2>2, <2>3 DEF Tunnel!FirstConnection, Tunnel!Go
<1> QED BY <1>2, <1>3, <1>4, <1>5 DEF Tunnel!Connect

\* Every step keeps the invariant.
LEMMA TunnelStepInv ==
    ASSUME MaxConns \in Nat, TunnelIInv, [Tunnel!Next]_(Tunnel!vars)
    PROVE  TunnelIInv'
<1>1. CASE Tunnel!Work
  BY <1>1, TunnelWorkInv
<1>2. CASE Tunnel!Connect
  BY <1>2, TunnelConnectInv
<1>3. CASE Tunnel!Die
  BY <1>3, TunnelDies
<1>4. CASE Tunnel!MainThreadEnds
  <2>1. /\ tunnel_pc \in {"returned", "ended"} /\ tunnel_pc' = "ending" /\ tunnel_alive' = FALSE
        /\ UNCHANGED <<tunnel_kind, tunnel_own, tunnel_destroy_func, tunnel_running,
           tunnel_listening, tunnel_notice, tunnel_torn>>
        /\ UNCHANGED <<tunnel_slots, tunnel_i, tunnel_hand, tunnel_conns, tunnel_sockets,
           tunnel_channels, tunnel_twice>>
    BY <1>4 DEF Tunnel!MainThreadEnds, Tunnel!Go, Tunnel!mainvars, Tunnel!arrays
  <2>2. tunnel_fault' \in {"none", "freed", "wild"}
    BY <1>4 DEF Tunnel!MainThreadEnds, TunnelIInv, Tunnel!TypeOK
  <2>3. tunnel_alive' \in BOOLEAN /\ tunnel_pc' \in {"ending"}
    BY <2>1
  <2>4. Tunnel!TypeOK'
    BY <2>1, <2>2, <2>3 DEF TunnelIInv, Tunnel!TypeOK
  <2>5. TunnelEmpty'
    BY <2>1 DEF TunnelIInv, TunnelEmpty, TunnelOver
  <2>6. TunnelStaysCalm
    BY <2>1 DEF TunnelStaysCalm, TunnelCalm
  <2> QED BY <2>4, <2>5, <2>6, TunnelCalmly
<1>5. CASE Tunnel!Announce
  <2>1. /\ tunnel_pc = "ending" /\ tunnel_pc' = "dead" /\ tunnel_notice' = TRUE
        /\ UNCHANGED <<tunnel_kind, tunnel_own, tunnel_destroy_func, tunnel_alive,
           tunnel_running, tunnel_listening, tunnel_torn, tunnel_fault>>
        /\ UNCHANGED <<tunnel_slots, tunnel_i, tunnel_hand, tunnel_conns, tunnel_sockets,
           tunnel_channels, tunnel_twice>>
    BY <1>5 DEF Tunnel!Announce, Tunnel!Go, Tunnel!mainvars, Tunnel!arrays
  <2>2. tunnel_notice' \in BOOLEAN /\ tunnel_pc' \in {"dead"}
    BY <2>1
  <2>3. Tunnel!TypeOK'
    BY <2>1, <2>2 DEF TunnelIInv, Tunnel!TypeOK
  <2>4. TunnelEmpty'
    BY <2>1 DEF TunnelIInv, TunnelEmpty, TunnelOver
  <2>5. TunnelStaysCalm
    BY <2>1 DEF TunnelStaysCalm, TunnelCalm
  <2> QED BY <2>3, <2>4, <2>5, TunnelCalmly
<1>6. CASE Tunnel!Open
  <2>1. tunnel_own = "new"
        /\ UNCHANGED <<tunnel_kind, tunnel_destroy_func, tunnel_notice, tunnel_torn,
        tunnel_fault>>
        /\ UNCHANGED <<tunnel_slots, tunnel_i, tunnel_hand, tunnel_conns, tunnel_sockets,
           tunnel_channels, tunnel_twice>>
    BY <1>6 DEF Tunnel!Open, Tunnel!arrays
  <2>2. tunnel_pc = "none" /\ ~tunnel_listening /\ tunnel_slots = <<>> /\ ~tunnel_notice
    BY <2>1 DEF TunnelIInv, TunnelEmpty
  <2>3. /\ tunnel_alive' \in BOOLEAN /\ tunnel_running' \in BOOLEAN
           /\ tunnel_listening' \in BOOLEAN
        /\ tunnel_pc' \in {"none", "start"} /\ tunnel_own' \in {"open", "freed"}
    BY <1>6, <2>2 DEF Tunnel!Open, Tunnel!Go, TunnelIInv, Tunnel!TypeOK
  <2>4. \/ tunnel_own' = "open" /\ tunnel_alive' = TRUE /\ tunnel_pc' = "start"
        \/ tunnel_own' = "freed" /\ UNCHANGED <<tunnel_alive, tunnel_listening, tunnel_pc>>
    BY <1>6 DEF Tunnel!Open, Tunnel!Go
  <2>5. Tunnel!TypeOK'
    <3>1. tunnel_own' \in {"new", "open", "joining", "freed"}
      BY <2>3
    <3>2. tunnel_pc' \in Tunnel!Cancellable \cup {"none", "returned", "ended", "ending", "dead"}
      BY <2>3 DEF Tunnel!Cancellable
    <3> QED BY <2>1, <2>3, <3>1, <3>2 DEF TunnelIInv, Tunnel!TypeOK
  <2>6. TunnelEmpty'
    BY <2>1, <2>2, <2>4 DEF TunnelIInv, TunnelEmpty, TunnelOver
  <2>7. TunnelStaysCalm
    BY <2>1, <2>2, <2>3 DEF TunnelStaysCalm, TunnelCalm
  <2> QED BY <2>5, <2>6, <2>7, TunnelCalmly
<1>7. CASE Tunnel!SetDestroy \/ Tunnel!CancelAccept
  <2>1. /\ UNCHANGED <<tunnel_kind, tunnel_own, tunnel_alive, tunnel_running, tunnel_pc,
           tunnel_notice, tunnel_torn, tunnel_fault>>
        /\ UNCHANGED <<tunnel_slots, tunnel_i, tunnel_hand, tunnel_conns, tunnel_sockets,
           tunnel_channels, tunnel_twice>>
        /\ tunnel_own = "open"
    BY <1>7 DEF Tunnel!SetDestroy, Tunnel!CancelAccept, Tunnel!mainvars, Tunnel!arrays
  <2>2. tunnel_listening' \in BOOLEAN /\ tunnel_destroy_func' \in {"garbage", "owner"}
    BY <1>7 DEF Tunnel!SetDestroy, Tunnel!CancelAccept, Tunnel!mainvars, TunnelIInv,
       Tunnel!TypeOK
  <2>3. Tunnel!TypeOK'
    BY <2>1, <2>2 DEF TunnelIInv, Tunnel!TypeOK
  <2>4. TunnelEmpty'
    BY <2>1 DEF TunnelIInv, TunnelEmpty
  <2> QED BY <2>1, <2>3, <2>4, TunnelOwnerActs
<1>8. CASE Tunnel!Free
  <2>1. CASE tunnel_alive
    <3>1. /\ tunnel_own = "open" /\ tunnel_own' = "joining" /\ tunnel_running' = FALSE
          /\ UNCHANGED <<tunnel_kind, tunnel_destroy_func, tunnel_alive, tunnel_listening,
             tunnel_pc, tunnel_notice, tunnel_torn, tunnel_fault>>
          /\ UNCHANGED <<tunnel_slots, tunnel_i, tunnel_hand, tunnel_conns, tunnel_sockets,
             tunnel_channels, tunnel_twice>>
      BY <1>8, <2>1 DEF Tunnel!Free, Tunnel!arrays
    <3>2. tunnel_running' \in BOOLEAN
      BY <3>1
    <3>3. Tunnel!TypeOK'
      BY <3>1, <3>2 DEF TunnelIInv, Tunnel!TypeOK
    <3>4. TunnelEmpty'
      BY <3>1 DEF TunnelIInv, TunnelEmpty
    <3> QED BY <3>1, <3>3, <3>4, TunnelOwnerActs
  <2>2. CASE ~tunnel_alive
    <3>1. Tunnel!free /\ UNCHANGED <<tunnel_alive, tunnel_notice, tunnel_fault>>
      BY <1>8, <2>2 DEF Tunnel!Free
    <3>2. tunnel_pc \in TunnelOver /\ tunnel_alive \in BOOLEAN /\ tunnel_notice \in BOOLEAN
      BY <2>2 DEF TunnelIInv, TunnelEmpty, Tunnel!TypeOK
    <3>3. TunnelFreed
      BY <3>1, <3>2 DEF TunnelFreed
    <3> QED BY <3>3, TunnelFrees
  <2> QED BY <2>1, <2>2
<1>9. CASE Tunnel!Joined
  <2>1. Tunnel!free /\ tunnel_pc = "dead" /\ tunnel_alive' = FALSE
        /\ tunnel_notice' = tunnel_notice /\ tunnel_fault' = tunnel_fault
    BY <1>9 DEF Tunnel!Joined
  <2>2. tunnel_notice \in BOOLEAN
    BY DEF TunnelIInv, Tunnel!TypeOK
  <2>3. TunnelFreed
    BY <2>1, <2>2 DEF TunnelFreed, TunnelOver
  <2> QED BY <2>3, TunnelFrees
<1>10. CASE Tunnel!Notify
  <2>1. tunnel_notice /\ tunnel_notice' = FALSE /\ tunnel_alive' = tunnel_alive
    BY <1>10 DEF Tunnel!Notify
  <2>2. CASE tunnel_own = "open" /\ tunnel_destroy_func = "owner"
    <3>1. Tunnel!free /\ tunnel_fault' = tunnel_fault
      BY <1>10, <2>2 DEF Tunnel!Notify
    <3>2. tunnel_pc \in TunnelOver /\ tunnel_alive \in BOOLEAN
      BY <2>1 DEF TunnelIInv, TunnelEmpty, Tunnel!TypeOK, TunnelOver
    <3>3. TunnelFreed
      BY <2>1, <3>1, <3>2 DEF TunnelFreed
    <3> QED BY <3>3, TunnelFrees
  <2>3. CASE ~(tunnel_own = "open" /\ tunnel_destroy_func = "owner")
    <3>1. /\ UNCHANGED <<tunnel_kind, tunnel_own, tunnel_destroy_func, tunnel_running,
             tunnel_listening, tunnel_pc, tunnel_torn>>
          /\ UNCHANGED <<tunnel_slots, tunnel_i, tunnel_hand, tunnel_conns, tunnel_sockets,
             tunnel_channels, tunnel_twice>>
          /\ tunnel_fault' \in {"none", "freed", "wild"}
      BY <1>10, <2>3 DEF Tunnel!Notify, Tunnel!mainvars, Tunnel!arrays
    <3>2. tunnel_notice' \in BOOLEAN
      BY <2>1
    <3>3. Tunnel!TypeOK'
      BY <2>1, <3>1, <3>2 DEF TunnelIInv, Tunnel!TypeOK
    <3>4. TunnelEmpty'
      BY <2>1, <3>1 DEF TunnelIInv, TunnelEmpty
    <3> QED BY <3>1, <3>3, <3>4, TunnelOwnerActs
  <2> QED BY <2>2, <2>3
<1>11. CASE UNCHANGED Tunnel!vars
  <2>1. UNCHANGED <<tunnel_kind, tunnel_own, tunnel_destroy_func, tunnel_alive,
        tunnel_running, tunnel_listening, tunnel_pc, tunnel_notice, tunnel_torn, tunnel_fault>>
        /\ UNCHANGED <<tunnel_slots, tunnel_i, tunnel_hand, tunnel_conns, tunnel_sockets,
           tunnel_channels, tunnel_twice>>
    BY <1>11 DEF Tunnel!vars, Tunnel!mainvars, Tunnel!arrays
  <2>2. Tunnel!TypeOK' /\ TunnelEmpty'
    BY <2>1 DEF TunnelIInv, Tunnel!TypeOK, TunnelEmpty
  <2> QED BY <2>1, <2>2, TunnelOwnerActs
<1> QED
  BY <1>1, <1>2, <1>3, <1>4, <1>5, <1>6, <1>7, <1>8, <1>9, <1>10, <1>11 DEF Tunnel!Next

\* The invariant of the arrays holds for any bound on the connections made through the tunnel.
THEOREM TunnelInvariance ==
    ASSUME MaxConns \in Nat
    PROVE  Tunnel!Spec => []TunnelIInv
<1>1. Tunnel!Init => TunnelIInv
  BY TunnelInitInv
<1>2. TunnelIInv /\ [Tunnel!Next]_(Tunnel!vars) => TunnelIInv'
  BY TunnelStepInv
<1> QED BY <1>1, <1>2, PTL DEF Tunnel!Spec

\* A channel, its socket and its buffer stay together, and a missing channel hides none,
\* however the slots are filled (remmina_ssh_tunnel_remove_channel): the bytes of one connection
\* never go to another.
THEOREM TunnelBytesStay ==
    ASSUME MaxConns \in Nat
    PROVE  Tunnel!Spec => [](Tunnel!Paired /\ Tunnel!HoleHidesNone)
<1>1. TunnelIInv => Tunnel!Paired /\ Tunnel!HoleHidesNone
  <2> SUFFICES ASSUME TunnelIInv PROVE Tunnel!Paired /\ Tunnel!HoleHidesNone
    OBVIOUS
  <2>1. DOMAIN tunnel_slots = 1 .. Len(tunnel_slots)
    BY DEF TunnelIInv, Tunnel!TypeOK
  <2> QED BY <2>1 DEF TunnelIInv, TunnelPairs, TunnelHoles, Tunnel!Paired,
     Tunnel!HoleHidesNone
<1> QED BY <1>1, TunnelInvariance, PTL

\* Nothing is closed or freed twice unless the cancellation struck in the middle of a removal,
\* and freeing closes all but what the thread had in hand (remmina_ssh_tunnel_free,
\* remmina_ssh_tunnel_close_all_channels), after the thread has stopped transferring.
THEOREM TunnelFreesAllOnce ==
    ASSUME MaxConns \in Nat
    PROVE  Tunnel!Spec => [](Tunnel!ClosedOnce /\ Tunnel!FreedClosesAll
           /\ Tunnel!TransferOverBeforeFree)
<1>1. TunnelIInv => Tunnel!ClosedOnce /\ Tunnel!FreedClosesAll /\ Tunnel!TransferOverBeforeFree
  <2> SUFFICES ASSUME TunnelIInv PROVE Tunnel!ClosedOnce /\ Tunnel!FreedClosesAll
      /\ Tunnel!TransferOverBeforeFree
    OBVIOUS
  <2>1. Tunnel!ClosedOnce
    BY DEF TunnelIInv, TunnelTorn
  <2>2. Tunnel!TransferOverBeforeFree
    BY DEF TunnelIInv, TunnelEmpty, TunnelOver, Tunnel!TransferOverBeforeFree
  <2>3. ASSUME tunnel_own = "freed"
        PROVE  ~tunnel_listening /\ tunnel_sockets \subseteq {tunnel_hand.sk}
               /\ tunnel_channels \subseteq {tunnel_hand.ch}
    <3>1. ~tunnel_listening /\ tunnel_slots = <<>>
      BY <2>3 DEF TunnelIInv, TunnelEmpty
    <3>2. \A k \in 1 .. Len(tunnel_slots) : FALSE
      BY <3>1
    <3> QED BY <3>1, <3>2 DEF TunnelIInv, TunnelOwned
  <2> QED BY <2>1, <2>2, <2>3 DEF Tunnel!FreedClosesAll
<1> QED BY <1>1, TunnelInvariance, PTL

\* The variables of the tunnel stay in their types: no array outgrows the connections made.
THEOREM TunnelTyping ==
    ASSUME MaxConns \in Nat
    PROVE  Tunnel!Spec => []Tunnel!TypeOK
<1>1. TunnelIInv => Tunnel!TypeOK
  BY DEF TunnelIInv
<1> QED BY <1>1, TunnelInvariance, PTL

-----------------------------------------------------------------------------
(* The sessions of X2Go (src/plugins/x2go/x2go_plugin.c).                   *)

X2GoData ==
    [thread : BOOLEAN, cancelled : BOOLEAN, pid : BOOLEAN, watch : BOOLEAN,
     display : BOOLEAN, window : BOOLEAN, live : BOOLEAN]
X2GoChooser ==
    [open : {"none", "queued", "open", "gone"}, hidden : SUBSET X2Go!Rows,
     sel : 0 .. MaxSessions, opt1 : 0 .. MaxSessions + 1, connect : BOOLEAN,
     selected : BOOLEAN, resume : 0 .. MaxSessions, meant : 0 .. MaxSessions]
X2GoTerminations == [start : 0 .. 1, run : SUBSET X2Go!Rows]
X2GoEmbedding == [source : {"none", "queued", "served", "stale"}, plugged : BOOLEAN]
X2GoWidget == [error : BOOLEAN, opened : BOOLEAN, closes : 0 .. 2]
X2GoHistory == [raced : BOOLEAN, late : BOOLEAN, term : BOOLEAN]

\* The places of a thread that runs, and those after its end.
X2GoRunning ==
    {"start", "auth", "phrase", "list", "asking", "choose", "spawn", "watch", "monitor",
     "found", "embed", "over", "fail", "failed"}
X2GoEnded == {"add", "done", "dead"}

X2GoTypes ==
    /\ x2go_pc \in X2GoRunning \cup X2GoEnded \cup {"new", "refused"}
    /\ x2go_data \in X2GoData /\ x2go_dlg \in X2GoChooser /\ x2go_term \in X2GoTerminations
    /\ x2go_child \in {"none", "running", "exited", "reaped"} /\ x2go_embed \in X2GoEmbedding
    /\ x2go_main \in {"loop", "tested", "cancelled", "joining", "hung"}
    /\ x2go_idle \in BOOLEAN /\ x2go_gp \in X2GoWidget /\ x2go_hist \in X2GoHistory
       /\ x2go_fault \in BOOLEAN

\* Nothing has happened to a session that was not opened, or could not be.
X2GoNewInv ==
    x2go_pc \in {"new", "refused"} =>
        /\ x2go_main = "loop" /\ ~x2go_idle /\ x2go_child = "none"
        /\ x2go_embed.source = "none" /\ ~x2go_embed.plugged
        /\ ~x2go_data.thread /\ ~x2go_data.cancelled /\ x2go_data.live /\ ~x2go_gp.opened

\* The plugin data lives until the clean-up signals the end, which it does once, and never
\* while the thread runs.
X2GoLiveInv ==
    /\ x2go_data.live <=> x2go_gp.closes = 0
    /\ x2go_gp.closes <= 1
    /\ x2go_pc \in X2GoRunning => x2go_data.thread /\ x2go_data.live
    /\ x2go_main \in {"tested", "cancelled", "joining"} => x2go_data.live

\* A window is embedded while the thread waits for it, and only then is the session open.
X2GoOpenInv ==
    /\ x2go_embed.source \in {"queued", "served"} => x2go_pc = "embed"
    /\ x2go_embed.source = "queued" => ~x2go_gp.opened
    /\ x2go_gp.opened => x2go_pc \in {"embed", "over"} \cup X2GoEnded

\* Until a session is terminated the rows of the dialog are those of the list.
X2GoChooseInv ==
    ~x2go_hist.term =>
        /\ x2go_term.start = 0 /\ x2go_term.run = {} /\ x2go_dlg.hidden = {}
        /\ x2go_dlg.opt1 \in {0, MaxSessions + 1}
        /\ x2go_dlg.selected => x2go_dlg.resume = x2go_dlg.meant

X2GoInv ==
    /\ X2GoTypes /\ X2GoNewInv /\ X2GoLiveInv /\ X2GoOpenInv /\ X2GoChooseInv /\ X2Go!FaultKnown

\* TypeOK, with names for the sets of records.
LEMMA X2GoTypesAre == X2Go!TypeOK <=> X2GoTypes
BY DEF X2Go!TypeOK, X2GoTypes, X2GoData, X2GoChooser, X2GoTerminations, X2GoEmbedding,
   X2GoWidget, X2GoHistory, X2GoRunning, X2GoEnded

\* The module counts as the theorems of the library do.
LEMMA X2GoCardinality ==
    ASSUME NEW S
    PROVE  X2Go!Cardinality(S) = Cardinality(S)
BY DEF X2Go!Cardinality, Cardinality

\* A path in the filter of the dialog is one of its rows, or none.
LEMMA X2GoPathType ==
    ASSUME MaxSessions \in Nat, NEW r \in Nat
    PROVE  X2Go!FilterPath(r) \in 0 .. MaxSessions
<1> DEFINE Upto == {q \in X2Go!Visible : q <= r}
<1>1. IsFiniteSet(1 .. MaxSessions) /\ Cardinality(1 .. MaxSessions) = MaxSessions
  BY FS_Interval
<1>2. Upto \subseteq 1 .. MaxSessions
  BY DEF X2Go!Visible, X2Go!Rows
<1>3. IsFiniteSet(Upto) /\ Cardinality(Upto) <= MaxSessions
  BY <1>1, <1>2, FS_Subset
<1>4. Cardinality(Upto) \in Nat
  BY <1>3, FS_CardinalityType
<1> HIDE DEF Upto
<1>5. Cardinality(Upto) \in 0 .. MaxSessions
  BY <1>3, <1>4
<1> QED BY <1>5, X2GoCardinality DEF X2Go!FilterPath, Upto

\* As long as nothing is hidden a path is the row itself.
LEMMA X2GoPathSame ==
    ASSUME MaxSessions \in Nat, x2go_dlg.hidden = {}, NEW r \in 0 .. MaxSessions
    PROVE  X2Go!FilterPath(r) = r
<1>1. CASE r = 0
  BY <1>1 DEF X2Go!FilterPath, X2Go!Visible, X2Go!Rows
<1>2. CASE r # 0
  <2>1. r \in X2Go!Visible /\ {q \in X2Go!Visible : q <= r} = 1 .. r
    BY <1>2 DEF X2Go!Visible, X2Go!Rows
  <2>2. Cardinality(1 .. r) = r
    BY <1>2, FS_Interval
  <2> QED BY <2>1, <2>2, X2GoCardinality DEF X2Go!FilterPath
<1> QED BY <1>1, <1>2

\* The row that is selected, ...
LEMMA X2GoSelectedRowType ==
    ASSUME MaxSessions \in Nat, x2go_dlg \in X2GoChooser
    PROVE  X2Go!SelectedRow \in 0 .. MaxSessions
<1>1. x2go_dlg.sel \in Nat
  BY DEF X2GoChooser
<1>2. X2Go!FilterPath(x2go_dlg.sel) \in Nat
  BY <1>1, X2GoPathType
<1>3. X2Go!FilterPath(X2Go!FilterPath(x2go_dlg.sel)) \in 0 .. MaxSessions
  BY <1>2, X2GoPathType
<1> QED BY <1>3 DEF X2Go!SelectedRow

\* ... while the rows stay.
LEMMA X2GoSelectedRowSame ==
    ASSUME MaxSessions \in Nat, x2go_dlg \in X2GoChooser, x2go_dlg.hidden = {}
    PROVE  X2Go!SelectedRow = x2go_dlg.sel
<1>1. x2go_dlg.sel \in 0 .. MaxSessions
  BY DEF X2GoChooser
<1>2. X2Go!FilterPath(x2go_dlg.sel) = x2go_dlg.sel
  BY <1>1, X2GoPathSame
<1> QED BY <1>2 DEF X2Go!SelectedRow

\* An answer.
LEMMA X2GoAnsweredType ==
    ASSUME MaxSessions \in Nat, x2go_dlg \in X2GoChooser, NEW row \in 0 .. MaxSessions,
           X2Go!Answered(row)
    PROVE  x2go_dlg' \in X2GoChooser
<1>1. (IF row = 0 THEN 0 ELSE x2go_dlg.sel) \in 0 .. MaxSessions
  BY DEF X2GoChooser
<1> QED BY <1>1 DEF X2Go!Answered, X2GoChooser

\* Before the dialog there is no answer.
LEMMA X2GoNobodyAnswered ==
    ASSUME MaxSessions \in Nat, x2go_dlg \in X2GoChooser, X2Go!Answered(0)
    PROVE  x2go_dlg' \in X2GoChooser
<1>1. 0 \in 0 .. MaxSessions
  OBVIOUS
<1> QED BY <1>1, X2GoAnsweredType

\* The clean-up.
LEMMA X2GoFinishTypes ==
    ASSUME X2GoTypes, X2Go!Finish
    PROVE  x2go_main' = "loop" /\ x2go_data' \in X2GoData /\ x2go_gp' \in X2GoWidget
<1>1. x2go_data' \in X2GoData
  BY DEF X2Go!Finish, X2GoTypes, X2GoData
<1>2. x2go_gp' \in X2GoWidget
  BY DEF X2Go!Finish, X2GoTypes, X2GoWidget
<1> QED BY <1>1, <1>2 DEF X2Go!Finish

\* What the end of the work, ...
LEMMA X2GoFinishFields ==
    ASSUME X2GoTypes, X2Go!Finish
    PROVE  /\ x2go_main' = "loop" /\ ~x2go_data'.live
           /\ x2go_data'.thread = x2go_data.thread /\ x2go_data'.cancelled = x2go_data.cancelled
           /\ x2go_gp'.opened = x2go_gp.opened /\ (x2go_gp.closes = 0 => x2go_gp'.closes = 1)
<1>1. ~x2go_data'.live /\ x2go_data'.thread = x2go_data.thread
      /\ x2go_data'.cancelled = x2go_data.cancelled
  BY DEF X2Go!Finish, X2GoTypes, X2GoData
<1>2. x2go_gp'.opened = x2go_gp.opened /\ (x2go_gp.closes = 0 => x2go_gp'.closes = 1)
  BY DEF X2Go!Finish, X2GoTypes, X2GoWidget
<1> QED BY <1>1, <1>2 DEF X2Go!Finish

\* ... the clean-up ...
LEMMA X2GoCleanUpTypes ==
    ASSUME X2GoTypes, X2Go!cleanup
    PROVE  x2go_main' \in {x2go_main, "loop", "tested"} /\ x2go_data' \in X2GoData
           /\ x2go_gp' \in X2GoWidget
BY X2GoFinishTypes DEF X2Go!cleanup, X2GoTypes

\* ... and the close leave behind.
LEMMA X2GoCloseTypes ==
    ASSUME X2GoTypes, X2Go!close_connection
    PROVE  /\ x2go_main' \in {x2go_main, "loop", "tested"} /\ x2go_data' \in X2GoData
              /\ x2go_gp' \in X2GoWidget
           /\ x2go_fault' \in BOOLEAN
BY X2GoCleanUpTypes DEF X2Go!close_connection, X2GoTypes

\* Every step keeps the types.
LEMMA X2GoTypeStep ==
    ASSUME MaxSessions \in Nat, X2GoTypes, [X2Go!Next]_(X2Go!vars)
    PROVE  X2GoTypes'
<1> USE DEF X2GoTypes
<1>1. CASE X2Go!open_connection
  <2>1. x2go_data' \in X2GoData
    BY <1>1 DEF X2Go!open_connection, X2Go!MainFree, X2GoData
  <2>2. x2go_gp' \in X2GoWidget
    BY <1>1 DEF X2Go!open_connection, X2Go!MainFree, X2GoWidget
  <2> QED BY <1>1, <2>1, <2>2 DEF X2Go!open_connection, X2Go!MainFree, X2GoRunning,
     X2GoEnded
<1>2. CASE X2Go!Refused
  BY <1>2, X2GoCloseTypes DEF X2Go!Refused, X2GoEnded
<1>3. CASE X2Go!Start
  <2>1. (x2go_pc' # "fail") \in BOOLEAN
    OBVIOUS
  <2>2. x2go_data' \in X2GoData
    BY <1>3, <2>1 DEF X2Go!Start, X2Go!Step, X2GoData
  <2> QED BY <1>3, <2>2 DEF X2Go!Start, X2Go!Step, X2GoRunning, X2GoEnded
<1>4. CASE X2Go!Asked
  BY <1>4 DEF X2Go!Asked, X2Go!Step, X2GoRunning, X2GoEnded
<1>5. CASE X2Go!List
  BY <1>5 DEF X2Go!List, X2Go!Step, X2GoRunning, X2GoEnded
<1>6. CASE X2Go!Ask
  <2>1. x2go_dlg' \in X2GoChooser
    BY <1>6 DEF X2Go!Ask, X2Go!Step, X2GoChooser
  <2> QED BY <1>6, <2>1 DEF X2Go!Ask, X2Go!Step, X2GoRunning, X2GoEnded
<1>7. CASE X2Go!Chosen
  BY <1>7 DEF X2Go!Chosen, X2Go!Step, X2GoRunning, X2GoEnded
<1>8. CASE X2Go!Spawn
  <2>1. (x2go_pc' = "watch") \in BOOLEAN
    OBVIOUS
  <2>2. x2go_data' \in X2GoData
    BY <1>8, <2>1 DEF X2Go!Spawn, X2Go!Step, X2GoData
  <2> QED BY <1>8, <2>2 DEF X2Go!Spawn, X2Go!Step, X2GoRunning, X2GoEnded
<1>9. CASE X2Go!Watch
  <2>1. x2go_data' \in X2GoData
    BY <1>9 DEF X2Go!Watch, X2Go!Step, X2GoData
  <2> QED BY <1>9, <2>1 DEF X2Go!Watch, X2Go!Step, X2GoRunning, X2GoEnded
<1>10. CASE X2Go!Monitor
  <2>1. (x2go_pc' = "found") \in BOOLEAN
    OBVIOUS
  <2>2. x2go_data' \in X2GoData
    BY <1>10, <2>1 DEF X2Go!Monitor, X2Go!Step, X2GoData
  <2> QED BY <1>10, <2>2 DEF X2Go!Monitor, X2Go!Step, X2GoRunning, X2GoEnded
<1>11. CASE X2Go!Embed
  <2>1. x2go_embed' \in X2GoEmbedding
    BY <1>11 DEF X2Go!Embed, X2Go!Step, X2GoEmbedding
  <2> QED BY <1>11, <2>1 DEF X2Go!Embed, X2Go!Step, X2GoRunning, X2GoEnded
<1>12. CASE X2Go!Fail
  <2>1. x2go_gp' \in X2GoWidget
    BY <1>12 DEF X2Go!Fail, X2Go!Step, X2GoWidget
  <2> QED BY <1>12, <2>1 DEF X2Go!Fail, X2Go!Step, X2GoRunning, X2GoEnded
<1>13. CASE X2Go!Over
  <2>1. x2go_data' \in X2GoData
    BY <1>13 DEF X2Go!Over, X2Go!Step, X2GoData
  <2> QED BY <1>13, <2>1 DEF X2Go!Over, X2Go!Step, X2GoRunning, X2GoEnded
<1>14. CASE X2Go!AddCleanup
  BY <1>14 DEF X2Go!AddCleanup, X2Go!Step, X2GoRunning, X2GoEnded
<1>15. CASE X2Go!Cancel
  <2>1. x2go_data.thread \in BOOLEAN /\ (x2go_hist.raced \/ ~x2go_data.thread) \in BOOLEAN
    BY DEF X2GoData
  <2>2. x2go_data' \in X2GoData
    BY <1>15, <2>1 DEF X2Go!Cancel, X2GoData
  <2>3. x2go_hist' \in X2GoHistory
    BY <1>15, <2>1 DEF X2Go!Cancel, X2GoHistory
  <2>4. x2go_fault' \in BOOLEAN
    BY <1>15, <2>1 DEF X2Go!Cancel
  <2> QED BY <1>15, <2>2, <2>3, <2>4 DEF X2Go!Cancel
<1>16. CASE X2Go!Test
  <2>1. CASE x2go_data.thread
    BY <1>16, <2>1 DEF X2Go!Test
  <2>2. CASE ~x2go_data.thread
    <3>1. x2go_hist' \in X2GoHistory
      BY <1>16, <2>2 DEF X2Go!Test, X2GoHistory
    <3> QED BY <1>16, <2>2, <3>1, X2GoFinishTypes DEF X2Go!Test
  <2> QED BY <2>1, <2>2
<1>17. CASE X2Go!Join
  BY <1>17, X2GoFinishTypes DEF X2Go!Join
<1>18. CASE X2Go!Die
  <2>1. x2go_embed' \in X2GoEmbedding
    BY <1>18 DEF X2Go!Die, X2GoEmbedding
  <2> QED BY <1>18, <2>1 DEF X2Go!Die, X2GoRunning, X2GoEnded
<1>19. CASE X2Go!CloseRequest
  BY <1>19, X2GoCloseTypes DEF X2Go!CloseRequest
<1>20. CASE X2Go!QueuedCleanup
  BY <1>20, X2GoCleanUpTypes DEF X2Go!QueuedCleanup
<1>21. CASE X2Go!pyhoca_cli_exited
  <2>1. CASE x2go_data.live /\ x2go_data.pid
    BY <1>21, <2>1, X2GoCloseTypes DEF X2Go!pyhoca_cli_exited
  <2>2. CASE ~(x2go_data.live /\ x2go_data.pid)
    BY <1>21, <2>2 DEF X2Go!pyhoca_cli_exited
  <2> QED BY <2>1, <2>2
<1>22. CASE X2Go!on_plug_removed
  <2>1. x2go_embed' \in X2GoEmbedding
    BY <1>22 DEF X2Go!on_plug_removed, X2GoEmbedding
  <2>2. x2go_hist' \in X2GoHistory
    <3>1. (x2go_hist.late \/ ~x2go_data.live) \in BOOLEAN
      OBVIOUS
    <3> QED BY <1>22, <3>1 DEF X2Go!on_plug_removed, X2GoHistory
  <2> QED BY <1>22, <2>1, <2>2, X2GoCloseTypes DEF X2Go!on_plug_removed
<1>23. CASE X2Go!Exit
  BY <1>23 DEF X2Go!Exit
<1>24. CASE X2Go!AddId
  <2>1. x2go_embed' \in X2GoEmbedding
    BY <1>24 DEF X2Go!AddId, X2Go!MainFree, X2GoEmbedding
  <2>2. x2go_gp' \in X2GoWidget
    BY <1>24 DEF X2Go!AddId, X2Go!MainFree, X2GoWidget
  <2> QED BY <1>24, <2>1, <2>2 DEF X2Go!AddId, X2Go!MainFree, X2GoRunning, X2GoEnded
<1>25. CASE X2Go!OpenDialog
  <2>1. MaxSessions + 1 \in 0 .. MaxSessions + 1
    OBVIOUS
  <2>2. x2go_dlg' \in X2GoChooser
    BY <1>25, <2>1 DEF X2Go!OpenDialog, X2GoChooser
  <2> QED BY <1>25, <2>2 DEF X2Go!OpenDialog, X2Go!Keep
<1>26. CASE X2Go!SelectRow
  <2>1. x2go_dlg' \in X2GoChooser
    BY <1>26 DEF X2Go!SelectRow, X2Go!MainFree, X2Go!Keep, X2GoChooser, X2Go!Visible,
       X2Go!Rows
  <2> QED BY <1>26, <2>1 DEF X2Go!SelectRow, X2Go!MainFree, X2Go!Keep, X2GoRunning,
     X2GoEnded
<1>27. CASE X2Go!New
  <2>1. x2go_dlg' \in X2GoChooser
    BY <1>27, X2GoNobodyAnswered DEF X2Go!New
  <2> QED BY <1>27, <2>1 DEF X2Go!New, X2Go!Keep
<1>28. CASE X2Go!Choose
  <2>1. X2Go!SelectedRow \in 0 .. MaxSessions
    BY X2GoSelectedRowType
  <2>2. x2go_dlg' \in X2GoChooser
    BY <1>28, <2>1, X2GoAnsweredType DEF X2Go!Choose
  <2> QED BY <1>28, <2>2 DEF X2Go!Choose, X2Go!Keep
<1>29. CASE X2Go!Dismiss
  <2>1. CASE x2go_dlg.connect /\ X2Go!SelectedRow # 0
    BY <1>29, <2>1, X2GoNobodyAnswered DEF X2Go!Dismiss, X2Go!Keep
  <2>2. CASE ~(x2go_dlg.connect /\ X2Go!SelectedRow # 0)
    <3>1. x2go_dlg' \in X2GoChooser
      BY <1>29, <2>2 DEF X2Go!Dismiss, X2GoChooser
    <3> QED BY <1>29, <3>1 DEF X2Go!Dismiss, X2Go!Keep
  <2> QED BY <2>1, <2>2
<1>30. CASE X2Go!RowActivated
  <2>1. x2go_dlg' \in X2GoChooser
    BY <1>30 DEF X2Go!RowActivated, X2GoChooser
  <2> QED BY <1>30, <2>1 DEF X2Go!RowActivated, X2Go!Keep
<1>31. CASE X2Go!Terminate
  <2>1. X2Go!SelectedRow \in 0 .. MaxSessions
    BY X2GoSelectedRowType
  <2>2. X2Go!SelectedRow \in X2Go!Rows
    BY <1>31, <2>1 DEF X2Go!Terminate, X2Go!Rows
  <2>3. x2go_dlg' \in X2GoChooser
    <3>1. x2go_dlg.hidden \cup {X2Go!SelectedRow} \in SUBSET X2Go!Rows
      BY <2>2 DEF X2GoChooser
    <3>2. (IF x2go_dlg.sel = X2Go!SelectedRow THEN 0 ELSE x2go_dlg.sel) \in 0 .. MaxSessions
      BY DEF X2GoChooser
    <3>3. X2Go!SelectedRow \in 0 .. MaxSessions + 1
      BY <2>1
    <3> QED BY <1>31, <2>1, <3>1, <3>2, <3>3 DEF X2Go!Terminate, X2GoChooser
  <2>4. x2go_term' \in X2GoTerminations
    BY <1>31 DEF X2Go!Terminate, X2GoTerminations
  <2>5. x2go_hist' \in X2GoHistory
    BY <1>31 DEF X2Go!Terminate, X2GoHistory
  <2> QED BY <1>31, <2>3, <2>4, <2>5 DEF X2Go!Terminate, X2Go!Keep
<1>32. CASE X2Go!TerminateStarts
  <2>1. x2go_term' \in X2GoTerminations
    BY <1>32 DEF X2Go!TerminateStarts, X2GoTerminations
  <2>2. x2go_fault' \in BOOLEAN
    BY <1>32 DEF X2Go!TerminateStarts
  <2> QED BY <1>32, <2>1, <2>2 DEF X2Go!TerminateStarts, X2Go!Keep
<1>33. CASE X2Go!TerminateEnds
  <2>1. x2go_term' \in X2GoTerminations
    BY <1>33 DEF X2Go!TerminateEnds, X2GoTerminations
  <2>2. x2go_dlg' \in X2GoChooser
    <3>1. PICK r \in x2go_term.run :
             \/ UNCHANGED x2go_dlg
             \/ x2go_dlg' = [x2go_dlg EXCEPT !.hidden = x2go_dlg.hidden \ {r}, !.opt1 = 0,
                !.connect = FALSE]
      BY <1>33 DEF X2Go!TerminateEnds
    <3>2. x2go_dlg.hidden \ {r} \in SUBSET X2Go!Rows /\ 0 \in 0 .. MaxSessions + 1
      BY DEF X2GoChooser
    <3> QED BY <3>1, <3>2 DEF X2GoChooser
  <2>3. x2go_fault' \in BOOLEAN
    BY <1>33 DEF X2Go!TerminateEnds
  <2> QED BY <1>33, <2>1, <2>2, <2>3 DEF X2Go!TerminateEnds, X2Go!Keep
<1>34. CASE UNCHANGED X2Go!vars
  BY <1>34 DEF X2Go!vars
<1> QED
  BY <1>1, <1>2, <1>3, <1>4, <1>5, <1>6, <1>7, <1>8, <1>9, <1>10, <1>11, <1>12, <1>13,
     <1>14, <1>15, <1>16, <1>17, <1>18, <1>19, <1>20, <1>21, <1>22, <1>23, <1>24, <1>25,
     <1>26, <1>27, <1>28, <1>29, <1>30, <1>31, <1>32, <1>33, <1>34 DEF X2Go!Next,
        X2Go!ThreadStep,
     X2Go!CleanUpStep, X2Go!Dialog

\* A session is new until it is opened.
LEMMA X2GoNewStep ==
    ASSUME X2GoTypes, X2GoNewInv, X2GoLiveInv, X2GoOpenInv, [X2Go!Next]_(X2Go!vars)
    PROVE  X2GoNewInv'
<1> USE DEF X2GoTypes, X2GoData, X2GoEmbedding, X2GoWidget, X2GoNewInv
<1>1. CASE X2Go!open_connection
  <2>1. CASE x2go_pc' = "start"
    BY <2>1
  <2>2. CASE x2go_pc' = "refused"
    <3>1. x2go_gp'.opened = x2go_gp.opened
      BY <1>1, <2>2 DEF X2Go!open_connection, X2GoWidget
    <3> QED BY <1>1, <2>2, <3>1 DEF X2Go!open_connection
  <2> QED BY <1>1, <2>1, <2>2 DEF X2Go!open_connection
<1>2. CASE X2Go!Refused
  BY <1>2 DEF X2Go!Refused, X2Go!cleanup, X2Go!close_connection, X2Go!Finish
<1>3. CASE X2Go!Start
  BY <1>3 DEF X2Go!Start, X2Go!Step
<1>4. CASE X2Go!Asked
  BY <1>4 DEF X2Go!Asked, X2Go!Step
<1>5. CASE X2Go!List
  BY <1>5 DEF X2Go!List, X2Go!Step
<1>6. CASE X2Go!Ask
  BY <1>6 DEF X2Go!Ask, X2Go!Step
<1>7. CASE X2Go!Chosen
  BY <1>7 DEF X2Go!Chosen, X2Go!Step
<1>8. CASE X2Go!Spawn
  BY <1>8 DEF X2Go!Spawn, X2Go!Step
<1>9. CASE X2Go!Watch
  BY <1>9 DEF X2Go!Watch, X2Go!Step
<1>10. CASE X2Go!Monitor
  BY <1>10 DEF X2Go!Monitor, X2Go!Step
<1>11. CASE X2Go!Embed
  BY <1>11 DEF X2Go!Embed, X2Go!Step
<1>12. CASE X2Go!Fail
  BY <1>12 DEF X2Go!Fail, X2Go!Step
<1>13. CASE X2Go!Over
  BY <1>13 DEF X2Go!Over, X2Go!Step
<1>14. CASE X2Go!AddCleanup
  BY <1>14 DEF X2Go!AddCleanup, X2Go!Step
<1>15. CASE X2Go!Cancel
  BY <1>15 DEF X2Go!Cancel
<1>16. CASE X2Go!Test
  BY <1>16 DEF X2Go!Test, X2Go!Finish
<1>17. CASE X2Go!Join
  BY <1>17 DEF X2Go!Join, X2Go!Finish
<1>18. CASE X2Go!Die
  BY <1>18 DEF X2Go!Die
<1>19. CASE X2Go!CloseRequest
  BY <1>19 DEF X2Go!CloseRequest, X2Go!MainFree, X2Go!cleanup, X2Go!close_connection,
     X2Go!Finish
<1>20. CASE X2Go!QueuedCleanup
  BY <1>20 DEF X2Go!QueuedCleanup, X2Go!MainFree, X2Go!cleanup, X2Go!Finish
<1>21. CASE X2Go!pyhoca_cli_exited
  BY <1>21 DEF X2Go!pyhoca_cli_exited, X2Go!MainFree, X2Go!cleanup, X2Go!close_connection,
     X2Go!Finish
<1>22. CASE X2Go!on_plug_removed
  BY <1>22 DEF X2Go!on_plug_removed, X2Go!MainFree, X2Go!cleanup, X2Go!close_connection,
     X2Go!Finish
<1>23. CASE X2Go!Exit
  BY <1>23 DEF X2Go!Exit
<1>24. CASE X2Go!AddId
  BY <1>24 DEF X2Go!AddId, X2Go!MainFree, X2GoOpenInv
<1>25. CASE X2Go!OpenDialog
  BY <1>25 DEF X2Go!OpenDialog, X2Go!MainFree, X2Go!Keep
<1>26. CASE X2Go!SelectRow
  BY <1>26 DEF X2Go!SelectRow, X2Go!MainFree, X2Go!Keep
<1>27. CASE X2Go!New
  BY <1>27 DEF X2Go!New, X2Go!Responds, X2Go!MainFree, X2Go!Keep, X2Go!Answered
<1>28. CASE X2Go!Choose
  BY <1>28 DEF X2Go!Choose, X2Go!Responds, X2Go!MainFree, X2Go!Keep, X2Go!Answered
<1>29. CASE X2Go!Dismiss
  BY <1>29 DEF X2Go!Dismiss, X2Go!MainFree, X2Go!Keep, X2Go!Answered
<1>30. CASE X2Go!RowActivated
  BY <1>30 DEF X2Go!RowActivated, X2Go!MainFree, X2Go!Keep
<1>31. CASE X2Go!Terminate
  BY <1>31 DEF X2Go!Terminate, X2Go!Responds, X2Go!MainFree, X2Go!Keep
<1>32. CASE X2Go!TerminateStarts
  BY <1>32 DEF X2Go!TerminateStarts, X2Go!Keep
<1>33. CASE X2Go!TerminateEnds
  BY <1>33 DEF X2Go!TerminateEnds, X2Go!Keep
<1>34. CASE UNCHANGED X2Go!vars
  BY <1>34 DEF X2Go!vars
<1> QED
  BY <1>1, <1>2, <1>3, <1>4, <1>5, <1>6, <1>7, <1>8, <1>9, <1>10, <1>11, <1>12, <1>13,
     <1>14, <1>15, <1>16, <1>17, <1>18, <1>19, <1>20, <1>21, <1>22, <1>23, <1>24, <1>25,
     <1>26, <1>27, <1>28, <1>29, <1>30, <1>31, <1>32, <1>33, <1>34 DEF X2Go!Next,
        X2Go!ThreadStep,
     X2Go!CleanUpStep, X2Go!Dialog

\* The end is signalled once, by whoever finds the plugin data.
LEMMA X2GoLiveStep ==
    ASSUME X2GoTypes, X2GoNewInv, X2GoLiveInv, [X2Go!Next]_(X2Go!vars)
    PROVE  X2GoLiveInv'
<1> USE DEF X2GoTypes
<1>1. CASE X2Go!open_connection
  <2>1. x2go_data.live /\ x2go_main = "loop" /\ x2go_gp.closes = 0
    BY <1>1 DEF X2Go!open_connection, X2GoNewInv, X2GoLiveInv
  <2>2. CASE x2go_pc' = "start"
    <3>1. x2go_data'.live /\ x2go_data'.thread
      BY <1>1, <2>1, <2>2 DEF X2Go!open_connection, X2GoData
    <3> QED BY <1>1, <2>1, <2>2, <3>1 DEF X2Go!open_connection, X2GoLiveInv
  <2>3. CASE x2go_pc' = "refused"
    <3>1. x2go_gp'.closes = 0 /\ UNCHANGED <<x2go_data, x2go_main>>
      BY <1>1, <2>1, <2>3 DEF X2Go!open_connection, X2GoWidget
    <3> QED BY <2>1, <2>3, <3>1 DEF X2GoLiveInv, X2GoRunning
  <2> QED BY <1>1, <2>2, <2>3 DEF X2Go!open_connection
<1>2. CASE X2Go!Refused
  BY <1>2, X2GoFinishFields DEF X2Go!Refused, X2GoLiveInv, X2Go!cleanup,
     X2Go!close_connection, X2GoNewInv, X2GoRunning
<1>3. CASE X2Go!Start
  <2>1. x2go_data'.live = x2go_data.live /\ x2go_data'.thread = x2go_data.thread
    BY <1>3 DEF X2Go!Start, X2Go!Step, X2GoData
  <2> QED BY <1>3, <2>1 DEF X2Go!Start, X2Go!Step, X2GoLiveInv, X2GoRunning
<1>4. CASE X2Go!Asked
  BY <1>4 DEF X2Go!Asked, X2Go!Step, X2GoLiveInv, X2GoRunning
<1>5. CASE X2Go!List
  BY <1>5 DEF X2Go!List, X2Go!Step, X2GoLiveInv, X2GoRunning
<1>6. CASE X2Go!Ask
  BY <1>6 DEF X2Go!Ask, X2Go!Step, X2GoLiveInv, X2GoRunning
<1>7. CASE X2Go!Chosen
  BY <1>7 DEF X2Go!Chosen, X2Go!Step, X2GoLiveInv, X2GoRunning
<1>8. CASE X2Go!Spawn
  <2>1. x2go_data'.live = x2go_data.live /\ x2go_data'.thread = x2go_data.thread
    BY <1>8 DEF X2Go!Spawn, X2Go!Step, X2GoData
  <2> QED BY <1>8, <2>1 DEF X2Go!Spawn, X2Go!Step, X2GoLiveInv, X2GoRunning
<1>9. CASE X2Go!Watch
  <2>1. x2go_data'.live = x2go_data.live /\ x2go_data'.thread = x2go_data.thread
    BY <1>9 DEF X2Go!Watch, X2Go!Step, X2GoData
  <2> QED BY <1>9, <2>1 DEF X2Go!Watch, X2Go!Step, X2GoLiveInv, X2GoRunning
<1>10. CASE X2Go!Monitor
  <2>1. x2go_data'.live = x2go_data.live /\ x2go_data'.thread = x2go_data.thread
    BY <1>10 DEF X2Go!Monitor, X2Go!Step, X2GoData
  <2> QED BY <1>10, <2>1 DEF X2Go!Monitor, X2Go!Step, X2GoLiveInv, X2GoRunning
<1>11. CASE X2Go!Embed
  BY <1>11 DEF X2Go!Embed, X2Go!Step, X2GoLiveInv, X2GoRunning
<1>12. CASE X2Go!Fail
  <2>1. x2go_gp'.closes = x2go_gp.closes
    BY <1>12 DEF X2Go!Fail, X2GoWidget
  <2> QED BY <1>12, <2>1 DEF X2Go!Fail, X2Go!Step, X2GoLiveInv, X2GoRunning
<1>13. CASE X2Go!Over
  <2>1. x2go_data'.live = x2go_data.live
    BY <1>13 DEF X2Go!Over, X2Go!Step, X2GoData
  <2> QED BY <1>13, <2>1 DEF X2Go!Over, X2Go!Step, X2GoLiveInv, X2GoRunning
<1>14. CASE X2Go!AddCleanup
  BY <1>14 DEF X2Go!AddCleanup, X2Go!Step, X2GoLiveInv, X2GoRunning
<1>15. CASE X2Go!Cancel
  <2>1. x2go_data'.live = x2go_data.live /\ x2go_data'.thread = x2go_data.thread
    BY <1>15 DEF X2Go!Cancel, X2GoData
  <2> QED BY <1>15, <2>1 DEF X2Go!Cancel, X2GoLiveInv
<1>16. CASE X2Go!Test
  BY <1>16, X2GoFinishFields DEF X2Go!Test, X2GoLiveInv, X2GoRunning
<1>17. CASE X2Go!Join
  BY <1>17, X2GoFinishFields DEF X2Go!Join, X2GoLiveInv, X2GoRunning
<1>18. CASE X2Go!Die
  BY <1>18 DEF X2Go!Die, X2GoLiveInv, X2GoRunning
<1>19. CASE X2Go!CloseRequest
  BY <1>19, X2GoFinishFields DEF X2Go!CloseRequest, X2GoLiveInv, X2Go!cleanup,
     X2Go!close_connection
<1>20. CASE X2Go!QueuedCleanup
  BY <1>20, X2GoFinishFields DEF X2Go!QueuedCleanup, X2GoLiveInv, X2Go!cleanup
<1>21. CASE X2Go!pyhoca_cli_exited
  BY <1>21, X2GoFinishFields DEF X2Go!pyhoca_cli_exited, X2GoLiveInv, X2Go!cleanup,
     X2Go!close_connection
<1>22. CASE X2Go!on_plug_removed
  BY <1>22, X2GoFinishFields DEF X2Go!on_plug_removed, X2GoLiveInv, X2Go!cleanup,
     X2Go!close_connection
<1>23. CASE X2Go!Exit
  BY <1>23 DEF X2Go!Exit, X2GoLiveInv
<1>24. CASE X2Go!AddId
  <2>1. x2go_gp'.closes = x2go_gp.closes
    BY <1>24 DEF X2Go!AddId, X2GoWidget
  <2> QED BY <1>24, <2>1 DEF X2Go!AddId, X2GoLiveInv
<1>25. CASE X2Go!OpenDialog
  BY <1>25 DEF X2Go!OpenDialog, X2Go!MainFree, X2Go!Keep, X2GoLiveInv
<1>26. CASE X2Go!SelectRow
  BY <1>26 DEF X2Go!SelectRow, X2Go!MainFree, X2Go!Keep, X2GoLiveInv
<1>27. CASE X2Go!New
  BY <1>27 DEF X2Go!New, X2Go!Responds, X2Go!MainFree, X2Go!Keep, X2Go!Answered, X2GoLiveInv
<1>28. CASE X2Go!Choose
  BY <1>28 DEF X2Go!Choose, X2Go!Responds, X2Go!MainFree, X2Go!Keep, X2Go!Answered,
     X2GoLiveInv
<1>29. CASE X2Go!Dismiss
  BY <1>29 DEF X2Go!Dismiss, X2Go!MainFree, X2Go!Keep, X2Go!Answered, X2GoLiveInv
<1>30. CASE X2Go!RowActivated
  BY <1>30 DEF X2Go!RowActivated, X2Go!MainFree, X2Go!Keep, X2GoLiveInv
<1>31. CASE X2Go!Terminate
  BY <1>31 DEF X2Go!Terminate, X2Go!Responds, X2Go!MainFree, X2Go!Keep, X2GoLiveInv
<1>32. CASE X2Go!TerminateStarts
  BY <1>32 DEF X2Go!TerminateStarts, X2Go!Keep, X2GoLiveInv
<1>33. CASE X2Go!TerminateEnds
  BY <1>33 DEF X2Go!TerminateEnds, X2Go!Keep, X2GoLiveInv
<1>34. CASE UNCHANGED X2Go!vars
  BY <1>34 DEF X2Go!vars, X2GoLiveInv
<1> QED
  BY <1>1, <1>2, <1>3, <1>4, <1>5, <1>6, <1>7, <1>8, <1>9, <1>10, <1>11, <1>12, <1>13,
     <1>14, <1>15, <1>16, <1>17, <1>18, <1>19, <1>20, <1>21, <1>22, <1>23, <1>24, <1>25,
     <1>26, <1>27, <1>28, <1>29, <1>30, <1>31, <1>32, <1>33, <1>34 DEF X2Go!Next,
        X2Go!ThreadStep,
     X2Go!CleanUpStep, X2Go!Dialog

\* The window is embedded while the thread waits for it.
LEMMA X2GoOpenStep ==
    ASSUME X2GoTypes, X2GoNewInv, X2GoOpenInv, [X2Go!Next]_(X2Go!vars)
    PROVE  X2GoOpenInv'
<1> USE DEF X2GoTypes, X2GoEmbedding, X2GoWidget, X2GoOpenInv, X2GoRunning, X2GoEnded
<1>1. CASE X2Go!open_connection
  BY <1>1 DEF X2Go!open_connection, X2Go!MainFree, X2GoNewInv
<1>2. CASE X2Go!Refused
  BY <1>2 DEF X2Go!Refused, X2Go!cleanup, X2Go!close_connection, X2Go!Finish, X2GoNewInv
<1>3. CASE X2Go!Start
  BY <1>3 DEF X2Go!Start, X2Go!Step
<1>4. CASE X2Go!Asked
  BY <1>4 DEF X2Go!Asked, X2Go!Step
<1>5. CASE X2Go!List
  BY <1>5 DEF X2Go!List, X2Go!Step
<1>6. CASE X2Go!Ask
  BY <1>6 DEF X2Go!Ask, X2Go!Step
<1>7. CASE X2Go!Chosen
  BY <1>7 DEF X2Go!Chosen, X2Go!Step
<1>8. CASE X2Go!Spawn
  BY <1>8 DEF X2Go!Spawn, X2Go!Step
<1>9. CASE X2Go!Watch
  BY <1>9 DEF X2Go!Watch, X2Go!Step
<1>10. CASE X2Go!Monitor
  BY <1>10 DEF X2Go!Monitor, X2Go!Step
<1>11. CASE X2Go!Embed
  BY <1>11 DEF X2Go!Embed, X2Go!Step
<1>12. CASE X2Go!Fail
  BY <1>12 DEF X2Go!Fail, X2Go!Step
<1>13. CASE X2Go!Over
  BY <1>13 DEF X2Go!Over, X2Go!Step
<1>14. CASE X2Go!AddCleanup
  BY <1>14 DEF X2Go!AddCleanup, X2Go!Step
<1>15. CASE X2Go!Cancel
  BY <1>15 DEF X2Go!Cancel
<1>16. CASE X2Go!Test
  BY <1>16 DEF X2Go!Test, X2Go!Finish
<1>17. CASE X2Go!Join
  BY <1>17 DEF X2Go!Join, X2Go!Finish
<1>18. CASE X2Go!Die
  BY <1>18 DEF X2Go!Die
<1>19. CASE X2Go!CloseRequest
  BY <1>19 DEF X2Go!CloseRequest, X2Go!MainFree, X2Go!cleanup, X2Go!close_connection,
     X2Go!Finish
<1>20. CASE X2Go!QueuedCleanup
  BY <1>20 DEF X2Go!QueuedCleanup, X2Go!MainFree, X2Go!cleanup, X2Go!Finish
<1>21. CASE X2Go!pyhoca_cli_exited
  BY <1>21 DEF X2Go!pyhoca_cli_exited, X2Go!MainFree, X2Go!cleanup, X2Go!close_connection,
     X2Go!Finish
<1>22. CASE X2Go!on_plug_removed
  BY <1>22 DEF X2Go!on_plug_removed, X2Go!MainFree, X2Go!cleanup, X2Go!close_connection,
     X2Go!Finish
<1>23. CASE X2Go!Exit
  BY <1>23 DEF X2Go!Exit
<1>24. CASE X2Go!AddId
  BY <1>24 DEF X2Go!AddId, X2Go!MainFree
<1>25. CASE X2Go!OpenDialog
  BY <1>25 DEF X2Go!OpenDialog, X2Go!MainFree, X2Go!Keep
<1>26. CASE X2Go!SelectRow
  BY <1>26 DEF X2Go!SelectRow, X2Go!MainFree, X2Go!Keep
<1>27. CASE X2Go!New
  BY <1>27 DEF X2Go!New, X2Go!Responds, X2Go!MainFree, X2Go!Keep, X2Go!Answered
<1>28. CASE X2Go!Choose
  BY <1>28 DEF X2Go!Choose, X2Go!Responds, X2Go!MainFree, X2Go!Keep, X2Go!Answered
<1>29. CASE X2Go!Dismiss
  BY <1>29 DEF X2Go!Dismiss, X2Go!MainFree, X2Go!Keep, X2Go!Answered
<1>30. CASE X2Go!RowActivated
  BY <1>30 DEF X2Go!RowActivated, X2Go!MainFree, X2Go!Keep
<1>31. CASE X2Go!Terminate
  BY <1>31 DEF X2Go!Terminate, X2Go!Responds, X2Go!MainFree, X2Go!Keep
<1>32. CASE X2Go!TerminateStarts
  BY <1>32 DEF X2Go!TerminateStarts, X2Go!Keep
<1>33. CASE X2Go!TerminateEnds
  BY <1>33 DEF X2Go!TerminateEnds, X2Go!Keep
<1>34. CASE UNCHANGED X2Go!vars
  BY <1>34 DEF X2Go!vars
<1> QED
  BY <1>1, <1>2, <1>3, <1>4, <1>5, <1>6, <1>7, <1>8, <1>9, <1>10, <1>11, <1>12, <1>13,
     <1>14, <1>15, <1>16, <1>17, <1>18, <1>19, <1>20, <1>21, <1>22, <1>23, <1>24, <1>25,
     <1>26, <1>27, <1>28, <1>29, <1>30, <1>31, <1>32, <1>33, <1>34 DEF X2Go!Next,
        X2Go!ThreadStep,
     X2Go!CleanUpStep, X2Go!Dialog

\* The dialog without a terminated session.
LEMMA X2GoChooseStep ==
    ASSUME MaxSessions \in Nat, X2GoTypes, X2GoChooseInv, [X2Go!Next]_(X2Go!vars)
    PROVE  X2GoChooseInv'
<1> USE DEF X2GoTypes, X2GoChooser, X2GoTerminations, X2GoHistory, X2GoChooseInv
<1>1. CASE X2Go!open_connection
  BY <1>1 DEF X2Go!open_connection, X2Go!MainFree
<1>2. CASE X2Go!Refused
  BY <1>2 DEF X2Go!Refused
<1>3. CASE X2Go!Start
  BY <1>3 DEF X2Go!Start, X2Go!Step
<1>4. CASE X2Go!Asked
  BY <1>4 DEF X2Go!Asked, X2Go!Step
<1>5. CASE X2Go!List
  BY <1>5 DEF X2Go!List, X2Go!Step
<1>6. CASE X2Go!Ask
  BY <1>6 DEF X2Go!Ask, X2Go!Step
<1>7. CASE X2Go!Chosen
  BY <1>7 DEF X2Go!Chosen, X2Go!Step
<1>8. CASE X2Go!Spawn
  BY <1>8 DEF X2Go!Spawn, X2Go!Step
<1>9. CASE X2Go!Watch
  BY <1>9 DEF X2Go!Watch, X2Go!Step
<1>10. CASE X2Go!Monitor
  BY <1>10 DEF X2Go!Monitor, X2Go!Step
<1>11. CASE X2Go!Embed
  BY <1>11 DEF X2Go!Embed, X2Go!Step
<1>12. CASE X2Go!Fail
  BY <1>12 DEF X2Go!Fail, X2Go!Step
<1>13. CASE X2Go!Over
  BY <1>13 DEF X2Go!Over, X2Go!Step
<1>14. CASE X2Go!AddCleanup
  BY <1>14 DEF X2Go!AddCleanup, X2Go!Step
<1>15. CASE X2Go!Cancel
  BY <1>15 DEF X2Go!Cancel
<1>16. CASE X2Go!Test
  BY <1>16 DEF X2Go!Test
<1>17. CASE X2Go!Join
  BY <1>17 DEF X2Go!Join
<1>18. CASE X2Go!Die
  BY <1>18 DEF X2Go!Die
<1>19. CASE X2Go!CloseRequest
  BY <1>19 DEF X2Go!CloseRequest, X2Go!MainFree
<1>20. CASE X2Go!QueuedCleanup
  BY <1>20 DEF X2Go!QueuedCleanup, X2Go!MainFree
<1>21. CASE X2Go!pyhoca_cli_exited
  BY <1>21 DEF X2Go!pyhoca_cli_exited, X2Go!MainFree
<1>22. CASE X2Go!on_plug_removed
  BY <1>22 DEF X2Go!on_plug_removed, X2Go!MainFree
<1>23. CASE X2Go!Exit
  BY <1>23 DEF X2Go!Exit
<1>24. CASE X2Go!AddId
  BY <1>24 DEF X2Go!AddId, X2Go!MainFree
<1>25. CASE X2Go!OpenDialog
  BY <1>25 DEF X2Go!OpenDialog, X2Go!MainFree, X2Go!Keep
<1>26. CASE X2Go!SelectRow
  BY <1>26 DEF X2Go!SelectRow, X2Go!MainFree, X2Go!Keep
<1>27. CASE X2Go!New
  BY <1>27 DEF X2Go!New, X2Go!Responds, X2Go!MainFree, X2Go!Keep, X2Go!Answered
<1>28. CASE X2Go!Choose
  <2>1. x2go_dlg'.hidden = x2go_dlg.hidden /\ x2go_dlg'.opt1 = x2go_dlg.opt1
    BY <1>28 DEF X2Go!Choose, X2Go!Answered
  <2>2. ASSUME ~x2go_hist.term PROVE x2go_dlg'.resume = x2go_dlg'.meant
    <3>1. X2Go!SelectedRow = x2go_dlg.sel
      BY <2>2, X2GoSelectedRowSame
    <3> QED BY <1>28, <3>1 DEF X2Go!Choose, X2Go!Answered
  <2> QED BY <1>28, <2>1, <2>2 DEF X2Go!Choose, X2Go!Keep
<1>29. CASE X2Go!Dismiss
  <2>1. x2go_dlg'.hidden = x2go_dlg.hidden /\ x2go_dlg'.opt1 = x2go_dlg.opt1
    BY <1>29 DEF X2Go!Dismiss, X2Go!Answered
  <2>2. CASE x2go_dlg.connect /\ X2Go!SelectedRow # 0
    <3>1. x2go_dlg'.resume = 0 /\ x2go_dlg'.meant = 0
      BY <1>29, <2>2 DEF X2Go!Dismiss, X2Go!Answered
    <3> QED BY <1>29, <2>1, <3>1 DEF X2Go!Dismiss, X2Go!Keep
  <2>3. CASE ~(x2go_dlg.connect /\ X2Go!SelectedRow # 0)
    <3>1. x2go_dlg'.resume = x2go_dlg.resume /\ x2go_dlg'.meant = x2go_dlg.meant
          /\ x2go_dlg'.selected = x2go_dlg.selected
      BY <1>29, <2>3 DEF X2Go!Dismiss
    <3> QED BY <1>29, <2>1, <3>1 DEF X2Go!Dismiss, X2Go!Keep
  <2> QED BY <2>2, <2>3
<1>30. CASE X2Go!RowActivated
  <2>1. CASE x2go_dlg.opt1 = MaxSessions + 1
    <3>1. x2go_dlg' = [x2go_dlg EXCEPT !.open = "gone", !.selected = TRUE,
          !.meant = x2go_dlg.sel,
                             !.resume = x2go_dlg.sel]
      BY <1>30, <2>1 DEF X2Go!RowActivated
    <3>2. x2go_dlg'.hidden = x2go_dlg.hidden /\ x2go_dlg'.opt1 = x2go_dlg.opt1
      BY <3>1
    <3>3. x2go_dlg'.resume = x2go_dlg.sel /\ x2go_dlg'.meant = x2go_dlg.sel
      BY <3>1
    <3> QED BY <1>30, <3>2, <3>3 DEF X2Go!RowActivated, X2Go!Keep
  <2>2. CASE x2go_dlg.opt1 # MaxSessions + 1
    BY <1>30, <2>2 DEF X2Go!RowActivated, X2Go!Keep
  <2> QED BY <2>1, <2>2
<1>31. CASE X2Go!Terminate
  BY <1>31 DEF X2Go!Terminate, X2Go!Responds, X2Go!MainFree, X2Go!Keep
<1>32. CASE X2Go!TerminateStarts
  BY <1>32 DEF X2Go!TerminateStarts, X2Go!Keep
<1>33. CASE X2Go!TerminateEnds
  BY <1>33 DEF X2Go!TerminateEnds, X2Go!Keep
<1>34. CASE UNCHANGED X2Go!vars
  BY <1>34 DEF X2Go!vars
<1> QED
  BY <1>1, <1>2, <1>3, <1>4, <1>5, <1>6, <1>7, <1>8, <1>9, <1>10, <1>11, <1>12, <1>13,
     <1>14, <1>15, <1>16, <1>17, <1>18, <1>19, <1>20, <1>21, <1>22, <1>23, <1>24, <1>25,
     <1>26, <1>27, <1>28, <1>29, <1>30, <1>31, <1>32, <1>33, <1>34 DEF X2Go!Next,
        X2Go!ThreadStep,
     X2Go!CleanUpStep, X2Go!Dialog

\* Whoever uses what is gone comes late, or finds the thread at its end.
LEMMA X2GoFaultStep ==
    ASSUME MaxSessions \in Nat, X2GoTypes, X2GoNewInv, X2GoLiveInv, X2GoChooseInv,
           X2Go!FaultKnown, [X2Go!Next]_(X2Go!vars)
    PROVE  X2Go!FaultKnown'
<1> USE DEF X2GoTypes, X2GoHistory, X2Go!FaultKnown
<1>1. CASE X2Go!open_connection
  BY <1>1 DEF X2Go!open_connection, X2Go!MainFree
<1>2. CASE X2Go!Refused
  BY <1>2 DEF X2Go!Refused, X2Go!cleanup, X2Go!close_connection, X2Go!Finish, X2GoNewInv
<1>3. CASE X2Go!Start
  BY <1>3 DEF X2Go!Start, X2Go!Step
<1>4. CASE X2Go!Asked
  BY <1>4 DEF X2Go!Asked, X2Go!Step
<1>5. CASE X2Go!List
  BY <1>5 DEF X2Go!List, X2Go!Step
<1>6. CASE X2Go!Ask
  BY <1>6 DEF X2Go!Ask, X2Go!Step
<1>7. CASE X2Go!Chosen
  BY <1>7 DEF X2Go!Chosen, X2Go!Step
<1>8. CASE X2Go!Spawn
  BY <1>8 DEF X2Go!Spawn, X2Go!Step
<1>9. CASE X2Go!Watch
  BY <1>9 DEF X2Go!Watch, X2Go!Step
<1>10. CASE X2Go!Monitor
  BY <1>10 DEF X2Go!Monitor, X2Go!Step
<1>11. CASE X2Go!Embed
  BY <1>11 DEF X2Go!Embed, X2Go!Step
<1>12. CASE X2Go!Fail
  BY <1>12 DEF X2Go!Fail, X2Go!Step
<1>13. CASE X2Go!Over
  BY <1>13 DEF X2Go!Over, X2Go!Step
<1>14. CASE X2Go!AddCleanup
  BY <1>14 DEF X2Go!AddCleanup, X2Go!Step
<1>15. CASE X2Go!Cancel
  BY <1>15 DEF X2Go!Cancel
<1>16. CASE X2Go!Test
  BY <1>16 DEF X2Go!Test, X2Go!Finish
<1>17. CASE X2Go!Join
  BY <1>17 DEF X2Go!Join, X2Go!Finish
<1>18. CASE X2Go!Die
  BY <1>18 DEF X2Go!Die
<1>19. CASE X2Go!CloseRequest
  BY <1>19 DEF X2Go!CloseRequest, X2Go!MainFree, X2Go!cleanup, X2Go!close_connection,
     X2Go!Finish, X2GoLiveInv
<1>20. CASE X2Go!QueuedCleanup
  BY <1>20 DEF X2Go!QueuedCleanup, X2Go!MainFree, X2Go!cleanup, X2Go!Finish
<1>21. CASE X2Go!pyhoca_cli_exited
  BY <1>21 DEF X2Go!pyhoca_cli_exited, X2Go!MainFree, X2Go!cleanup, X2Go!close_connection,
     X2Go!Finish
<1>22. CASE X2Go!on_plug_removed
  BY <1>22 DEF X2Go!on_plug_removed, X2Go!MainFree, X2Go!cleanup, X2Go!close_connection,
     X2Go!Finish
<1>23. CASE X2Go!Exit
  BY <1>23 DEF X2Go!Exit
<1>24. CASE X2Go!AddId
  BY <1>24 DEF X2Go!AddId, X2Go!MainFree
<1>25. CASE X2Go!OpenDialog
  BY <1>25 DEF X2Go!OpenDialog, X2Go!MainFree, X2Go!Keep
<1>26. CASE X2Go!SelectRow
  BY <1>26 DEF X2Go!SelectRow, X2Go!MainFree, X2Go!Keep
<1>27. CASE X2Go!New
  BY <1>27 DEF X2Go!New, X2Go!Responds, X2Go!MainFree, X2Go!Keep, X2Go!Answered
<1>28. CASE X2Go!Choose
  BY <1>28 DEF X2Go!Choose, X2Go!Responds, X2Go!MainFree, X2Go!Keep, X2Go!Answered
<1>29. CASE X2Go!Dismiss
  BY <1>29 DEF X2Go!Dismiss, X2Go!MainFree, X2Go!Keep, X2Go!Answered
<1>30. CASE X2Go!RowActivated
  BY <1>30 DEF X2Go!RowActivated, X2Go!MainFree, X2Go!Keep, X2GoChooseInv, X2GoChooser
<1>31. CASE X2Go!Terminate
  BY <1>31 DEF X2Go!Terminate, X2Go!Responds, X2Go!MainFree, X2Go!Keep
<1>32. CASE X2Go!TerminateStarts
  BY <1>32 DEF X2Go!TerminateStarts, X2Go!Keep, X2GoChooseInv, X2GoTerminations
<1>33. CASE X2Go!TerminateEnds
  BY <1>33 DEF X2Go!TerminateEnds, X2Go!Keep, X2GoChooseInv, X2GoTerminations
<1>34. CASE UNCHANGED X2Go!vars
  BY <1>34 DEF X2Go!vars
<1> QED
  BY <1>1, <1>2, <1>3, <1>4, <1>5, <1>6, <1>7, <1>8, <1>9, <1>10, <1>11, <1>12, <1>13,
     <1>14, <1>15, <1>16, <1>17, <1>18, <1>19, <1>20, <1>21, <1>22, <1>23, <1>24, <1>25,
     <1>26, <1>27, <1>28, <1>29, <1>30, <1>31, <1>32, <1>33, <1>34 DEF X2Go!Next,
        X2Go!ThreadStep,
     X2Go!CleanUpStep, X2Go!Dialog

\* The invariant holds at the start, ...
LEMMA X2GoInitInv == ASSUME MaxSessions \in Nat, X2Go!Init PROVE X2GoInv
<1> USE DEF X2Go!Init
<1>1. X2GoTypes
  <2>1. x2go_data \in X2GoData /\ x2go_embed \in X2GoEmbedding /\ x2go_gp \in X2GoWidget
        /\ x2go_hist \in X2GoHistory
    BY DEF X2GoData, X2GoEmbedding, X2GoWidget, X2GoHistory
  <2>2. x2go_dlg \in X2GoChooser
    BY DEF X2GoChooser
  <2>3. x2go_term \in X2GoTerminations
    BY DEF X2GoTerminations
  <2> QED BY <2>1, <2>2, <2>3 DEF X2GoTypes
<1>2. X2GoNewInv /\ X2GoLiveInv /\ X2GoOpenInv
  BY DEF X2GoNewInv, X2GoLiveInv, X2GoOpenInv, X2GoRunning
<1>3. X2GoChooseInv /\ X2Go!FaultKnown
  BY DEF X2GoChooseInv, X2Go!FaultKnown
<1> QED BY <1>1, <1>2, <1>3 DEF X2GoInv

\* ... and every step keeps it.
LEMMA X2GoStepInv == ASSUME MaxSessions \in Nat, X2GoInv, [X2Go!Next]_(X2Go!vars) PROVE X2GoInv'
BY X2GoTypeStep, X2GoNewStep, X2GoLiveStep, X2GoOpenStep, X2GoChooseStep,
   X2GoFaultStep DEF X2GoInv

\* Every step is one that the protocol widget expects, or says nothing to it.
LEMMA X2GoPromiseStep ==
    ASSUME X2GoInv, [X2Go!Next]_(X2Go!vars)
    PROVE  [X2Go!Promise!Next]_(X2Go!Promise!vars)
<1> USE DEF X2GoInv, X2GoTypes, X2GoWidget, X2GoData
<1>1. CASE X2Go!open_connection
  BY <1>1 DEF X2Go!open_connection, X2Go!MainFree, X2Go!Promise!Next, X2Go!Promise!Start,
     X2Go!Promise!vars, X2GoNewInv, X2GoLiveInv
<1>2. CASE X2Go!Refused
  BY <1>2 DEF X2Go!Refused, X2Go!cleanup, X2Go!close_connection, X2Go!Finish,
     X2Go!Promise!Next, X2Go!Promise!Closed, X2Go!Promise!vars, X2GoLiveInv, X2GoNewInv
<1>3. CASE X2Go!Start
  BY <1>3 DEF X2Go!Start, X2Go!Step, X2Go!Promise!vars
<1>4. CASE X2Go!Asked
  BY <1>4 DEF X2Go!Asked, X2Go!Step, X2Go!Promise!vars
<1>5. CASE X2Go!List
  BY <1>5 DEF X2Go!List, X2Go!Step, X2Go!Promise!vars
<1>6. CASE X2Go!Ask
  BY <1>6 DEF X2Go!Ask, X2Go!Step, X2Go!Promise!vars
<1>7. CASE X2Go!Chosen
  BY <1>7 DEF X2Go!Chosen, X2Go!Step, X2Go!Promise!vars
<1>8. CASE X2Go!Spawn
  BY <1>8 DEF X2Go!Spawn, X2Go!Step, X2Go!Promise!vars
<1>9. CASE X2Go!Watch
  BY <1>9 DEF X2Go!Watch, X2Go!Step, X2Go!Promise!vars
<1>10. CASE X2Go!Monitor
  BY <1>10 DEF X2Go!Monitor, X2Go!Step, X2Go!Promise!vars
<1>11. CASE X2Go!Embed
  BY <1>11 DEF X2Go!Embed, X2Go!Step, X2Go!Promise!vars
<1>12. CASE X2Go!Fail
  BY <1>12 DEF X2Go!Fail, X2Go!Step, X2Go!Promise!vars
<1>13. CASE X2Go!Over
  BY <1>13 DEF X2Go!Over, X2Go!Step, X2Go!Promise!vars
<1>14. CASE X2Go!AddCleanup
  BY <1>14 DEF X2Go!AddCleanup, X2Go!Step, X2Go!Promise!vars
<1>15. CASE X2Go!Cancel
  BY <1>15 DEF X2Go!Cancel, X2Go!Promise!vars
<1>16. CASE X2Go!Test
  BY <1>16 DEF X2Go!Test, X2Go!Finish, X2Go!Promise!Next, X2Go!Promise!Closed,
     X2Go!Promise!vars, X2GoLiveInv, X2GoNewInv
<1>17. CASE X2Go!Join
  BY <1>17 DEF X2Go!Join, X2Go!Finish, X2Go!Promise!Next, X2Go!Promise!Closed,
     X2Go!Promise!vars, X2GoLiveInv
<1>18. CASE X2Go!Die
  BY <1>18 DEF X2Go!Die, X2Go!Promise!vars, X2GoNewInv
<1>19. CASE X2Go!CloseRequest
  BY <1>19 DEF X2Go!CloseRequest, X2Go!MainFree, X2Go!cleanup, X2Go!close_connection,
     X2Go!Finish, X2Go!Promise!Next, X2Go!Promise!Closed, X2Go!Promise!vars, X2GoLiveInv,
     X2GoNewInv
<1>20. CASE X2Go!QueuedCleanup
  BY <1>20 DEF X2Go!QueuedCleanup, X2Go!MainFree, X2Go!cleanup, X2Go!Finish,
     X2Go!Promise!Next, X2Go!Promise!Closed, X2Go!Promise!vars, X2GoLiveInv, X2GoNewInv
<1>21. CASE X2Go!pyhoca_cli_exited
  BY <1>21 DEF X2Go!pyhoca_cli_exited, X2Go!MainFree, X2Go!cleanup, X2Go!close_connection,
     X2Go!Finish, X2Go!Promise!Next, X2Go!Promise!Closed, X2Go!Promise!vars, X2GoLiveInv,
     X2GoNewInv
<1>22. CASE X2Go!on_plug_removed
  BY <1>22 DEF X2Go!on_plug_removed, X2Go!MainFree, X2Go!cleanup, X2Go!close_connection,
     X2Go!Finish, X2Go!Promise!Next, X2Go!Promise!Closed, X2Go!Promise!vars, X2GoLiveInv,
     X2GoNewInv
<1>23. CASE X2Go!Exit
  BY <1>23 DEF X2Go!Exit, X2Go!Promise!vars
<1>24. CASE X2Go!AddId
  BY <1>24 DEF X2Go!AddId, X2Go!MainFree, X2Go!Promise!Next, X2Go!Promise!Opened,
     X2Go!Promise!vars, X2GoOpenInv, X2GoLiveInv, X2GoRunning
<1>25. CASE X2Go!OpenDialog
  BY <1>25 DEF X2Go!OpenDialog, X2Go!MainFree, X2Go!Keep, X2Go!Promise!vars
<1>26. CASE X2Go!SelectRow
  BY <1>26 DEF X2Go!SelectRow, X2Go!MainFree, X2Go!Keep, X2Go!Promise!vars
<1>27. CASE X2Go!New
  BY <1>27 DEF X2Go!New, X2Go!Responds, X2Go!MainFree, X2Go!Keep, X2Go!Answered,
     X2Go!Promise!vars
<1>28. CASE X2Go!Choose
  BY <1>28 DEF X2Go!Choose, X2Go!Responds, X2Go!MainFree, X2Go!Keep, X2Go!Answered,
     X2Go!Promise!vars
<1>29. CASE X2Go!Dismiss
  BY <1>29 DEF X2Go!Dismiss, X2Go!MainFree, X2Go!Keep, X2Go!Answered, X2Go!Promise!vars
<1>30. CASE X2Go!RowActivated
  BY <1>30 DEF X2Go!RowActivated, X2Go!MainFree, X2Go!Keep, X2Go!Promise!vars
<1>31. CASE X2Go!Terminate
  BY <1>31 DEF X2Go!Terminate, X2Go!Responds, X2Go!MainFree, X2Go!Keep, X2Go!Promise!vars
<1>32. CASE X2Go!TerminateStarts
  BY <1>32 DEF X2Go!TerminateStarts, X2Go!Keep, X2Go!Promise!vars
<1>33. CASE X2Go!TerminateEnds
  BY <1>33 DEF X2Go!TerminateEnds, X2Go!Keep, X2Go!Promise!vars
<1>34. CASE UNCHANGED X2Go!vars
  BY <1>34 DEF X2Go!vars, X2Go!Promise!vars
<1> QED
  BY <1>1, <1>2, <1>3, <1>4, <1>5, <1>6, <1>7, <1>8, <1>9, <1>10, <1>11, <1>12, <1>13,
     <1>14, <1>15, <1>16, <1>17, <1>18, <1>19, <1>20, <1>21, <1>22, <1>23, <1>24, <1>25,
     <1>26, <1>27, <1>28, <1>29, <1>30, <1>31, <1>32, <1>33, <1>34 DEF X2Go!Next,
        X2Go!ThreadStep,
     X2Go!CleanUpStep, X2Go!Dialog

-----------------------------------------------------------------------------
(* The transfers over SFTP (src/src/remmina_sftp_client.c).                 *)

\* The places where the thread has a task that waits still, and where it carries one out.
SftpClaiming == {"claim", "claimupd"}
SftpTransferring ==
    {"prepare", "file", "confirm", "copy", "copyupd", "list", "listupd", "next", "seterr",
     "setfin"}

\* A row is there exactly for the numbers that were given out.
SftpRowsInv ==
    /\ sftp_rows \in [Sftp!Ids -> Sftp!RowStates] /\ sftp_nextid \in 1 .. MaxTasks + 1
    /\ \A i \in Sftp!Ids : sftp_rows[i] = "none" <=> i >= sftp_nextid

\* The status of the row of the task is the one that the thread has sent last, unless the
\* user has removed the row.
SftpTaskInv ==
    /\ sftp_pc \in SftpClaiming => sftp_task \in Sftp!Ids
       /\ sftp_rows[sftp_task] \in {"wait", "removed"}
    /\ sftp_pc \in SftpTransferring => sftp_task \in Sftp!Ids
       /\ sftp_rows[sftp_task] \in {"run", "removed"}

\* The dialog about a task is about a row that is there; the thread waits for the answer
\* of the other dialog.
SftpDialogInv ==
    /\ sftp_cancelDlg # 0 => sftp_rows[sftp_cancelDlg] # "none"
    /\ sftp_clearing => sftp_cancelDlg # 0
    /\ sftp_resumeDlg => sftp_pc = "confirm"

\* The flags are flags.
SftpFlagsInv ==
    /\ sftp_sftp \in BOOLEAN /\ sftp_thread_abort \in BOOLEAN /\ sftp_conn \in BOOLEAN
    /\ sftp_refresh \in BOOLEAN /\ sftp_clearing \in BOOLEAN /\ sftp_resumeDlg \in BOOLEAN
    /\ sftp_refreshq \in BOOLEAN

\* The other variables keep to their values; the thread is there while it is somewhere.
SftpOthers ==
    /\ sftp_kind \in [Sftp!Ids -> Sftp!Kinds]
    /\ sftp_client \in {"alive", "freeing", "destroying", "waiting", "gone"}
    /\ sftp_taskid \in 0 .. MaxTasks /\ sftp_task \in 0 .. MaxTasks
       /\ sftp_cancelDlg \in 0 .. MaxTasks
    /\ sftp_pc \in Sftp!ThreadStates /\ sftp_after \in {"done", "end"}
    /\ sftp_thread \in BOOLEAN /\ (sftp_thread <=> sftp_pc # "none")

SftpInv == SftpRowsInv /\ SftpFlagsInv /\ SftpOthers /\ SftpTaskInv /\ SftpDialogInv
   /\ Sftp!GoneMeansNoThread

\* The minimum of a set of numbers is one of them: the choice of Min is never in vain.
LEMMA SftpMinIn ==
    ASSUME NEW S, S \subseteq Nat, S # {}
    PROVE  Sftp!Min(S) \in S
<1> DEFINE R == OpToRel(<, Nat)
<1>1. IsWellFoundedOn(R, Nat)
  BY NatLessThanWellFounded
<1> HIDE DEF R
<1>2. PICK x \in S : \A y \in S : ~ (<<y, x>> \in R)
  BY <1>1, WFMin
<1>3. ASSUME NEW y \in S PROVE x <= y
  <2>1. x \in Nat /\ y \in Nat
    OBVIOUS
  <2>2. y < x => <<y, x>> \in R
    BY <2>1 DEF R, OpToRel
  <2>3. <<y, x>> \notin R
    BY <1>2
  <2> QED BY <2>1, <2>2, <2>3
<1> QED BY <1>3 DEF Sftp!Min

\* The request for a task is answered with a row that waits, or with none.
LEMMA SftpServeGetRow ==
    ASSUME MaxTasks \in Nat, Sftp!ServeGet
    PROVE  \/ sftp_pc' = "end" /\ sftp_task' = sftp_task
           \/ sftp_pc' = "claim" /\ sftp_task' \in Sftp!Ids /\ sftp_rows[sftp_task'] = "wait"
<1> DEFINE waiting == {i \in Sftp!Ids : sftp_rows[i] = "wait"}
<1>1. CASE waiting = {}
  BY <1>1 DEF Sftp!ServeGet, Sftp!Goto
<1>2. CASE waiting # {}
  <2>1. waiting \subseteq Nat
    BY DEF Sftp!Ids
  <2>2. Sftp!Min(waiting) \in waiting
    BY <1>2, <2>1, SftpMinIn
  <2>3. sftp_pc' = "claim" /\ sftp_task' = Sftp!Min(waiting)
    BY <1>2 DEF Sftp!ServeGet, Sftp!Goto
  <2> QED BY <2>2, <2>3
<1> QED BY <1>1, <1>2

\* What new tasks do to the rows: those that were there stay as they are.
LEMMA SftpNewTasksRows ==
    ASSUME MaxTasks \in Nat, SftpRowsInv, SftpOthers, Sftp!NewTasks
    PROVE  /\ sftp_nextid' \in 1 .. MaxTasks + 1 /\ sftp_nextid' >= sftp_nextid
           /\ \A i \in Sftp!Ids : sftp_rows'[i] = IF i >= sftp_nextid
              /\ i < sftp_nextid' THEN "wait" ELSE sftp_rows[i]
           /\ sftp_rows' \in [Sftp!Ids -> Sftp!RowStates]
              /\ sftp_kind' \in [Sftp!Ids -> Sftp!Kinds]
<1>1. PICK n \in 1 .. 2, k \in Sftp!Kinds :
          /\ sftp_nextid + n <= MaxTasks + 1
          /\ sftp_rows'
             = [i \in Sftp!Ids |-> IF i \in sftp_nextid .. sftp_nextid + n - 1
             THEN "wait" ELSE sftp_rows[i]]
          /\ sftp_kind'
             = [i \in Sftp!Ids |-> IF i \in sftp_nextid .. sftp_nextid + n - 1 THEN k
             ELSE sftp_kind[i]]
          /\ sftp_nextid' = sftp_nextid + n
  BY DEF Sftp!NewTasks
<1>2. sftp_nextid \in Nat /\ n \in {1, 2}
  BY DEF SftpRowsInv
<1>3. sftp_nextid' \in 1 .. MaxTasks + 1 /\ sftp_nextid' >= sftp_nextid
  BY <1>1, <1>2 DEF SftpRowsInv
<1>4. \A i \in Sftp!Ids : i \in sftp_nextid .. sftp_nextid + n - 1 <=> i >= sftp_nextid
      /\ i < sftp_nextid'
  BY <1>1, <1>2 DEF Sftp!Ids
<1>5. sftp_rows' \in [Sftp!Ids -> Sftp!RowStates]
  BY <1>1 DEF SftpRowsInv, Sftp!RowStates
<1>6. sftp_kind' \in [Sftp!Ids -> Sftp!Kinds]
  BY <1>1 DEF SftpOthers
<1> QED BY <1>1, <1>3, <1>4, <1>5, <1>6

\* The flags.
LEMMA SftpFlagsStep ==
    ASSUME SftpFlagsInv, [Sftp!Next]_(Sftp!vars)
    PROVE  SftpFlagsInv'
<1> USE DEF SftpFlagsInv, Sftp!rowvars, Sftp!clientvars, Sftp!dialogvars, Sftp!threadvars
<1>1. CASE Sftp!GetTask
  BY <1>1 DEF Sftp!GetTask, Sftp!Goto
<1>2. CASE Sftp!Claim
  BY <1>2 DEF Sftp!Claim, Sftp!Goto
<1>3. CASE Sftp!Connect
  BY <1>3 DEF Sftp!Connect, Sftp!Goto, Sftp!SetError
<1>4. CASE Sftp!Begin
  BY <1>4 DEF Sftp!Begin, Sftp!Goto, Sftp!SetError
<1>5. CASE Sftp!List
  BY <1>5 DEF Sftp!List, Sftp!Goto, Sftp!SetError
<1>6. CASE Sftp!ListEnd
  BY <1>6 DEF Sftp!ListEnd, Sftp!Goto
<1>7. CASE Sftp!NextFile
  BY <1>7 DEF Sftp!NextFile, Sftp!Goto, Sftp!SetError
<1>8. CASE Sftp!NextEnd
  BY <1>8 DEF Sftp!NextEnd, Sftp!Goto, Sftp!Finished
<1>9. CASE Sftp!OpenFile
  BY <1>9 DEF Sftp!OpenFile, Sftp!Goto, Sftp!SetError
<1>10. CASE Sftp!Copy
  BY <1>10 DEF Sftp!Copy, Sftp!Goto, Sftp!SetError, Sftp!Finished, Sftp!FileDone
<1>11. CASE Sftp!CopyEnd
  BY <1>11 DEF Sftp!CopyEnd, Sftp!Goto, Sftp!Finished, Sftp!FileDone
<1>12. CASE Sftp!Uploaded
  BY <1>12 DEF Sftp!Uploaded, Sftp!Goto
<1>13. CASE Sftp!Done
  BY <1>13 DEF Sftp!Done, Sftp!Goto
<1>14. CASE Sftp!End
  BY <1>14 DEF Sftp!End, Sftp!Goto
<1>15. CASE Sftp!Exit
  BY <1>15 DEF Sftp!Exit, Sftp!Goto
<1>16. CASE Sftp!ServeGet
  BY <1>16 DEF Sftp!ServeGet, Sftp!Goto
<1>17. CASE Sftp!ServeUpdate
  BY <1>17 DEF Sftp!ServeUpdate, Sftp!Goto, Sftp!update_task
<1>18. CASE Sftp!ServeConfirm
  BY <1>18 DEF Sftp!ServeConfirm, Sftp!Goto
<1>19. CASE Sftp!Refresh
  BY <1>19 DEF Sftp!Refresh, Sftp!Goto
<1>20. CASE Sftp!NewTasks
  BY <1>20 DEF Sftp!NewTasks, Sftp!Goto
<1>21. CASE Sftp!DestroyFtpClient
  BY <1>21 DEF Sftp!DestroyFtpClient, Sftp!Goto
<1>22. CASE \E i \in Sftp!Ids : Sftp!CancelTask(i)
  <2>1. PICK i \in Sftp!Ids : Sftp!CancelTask(i)
    BY <1>22
  <2> QED BY <2>1 DEF Sftp!CancelTask
<1>23. CASE Sftp!AnswerResume
  BY <1>23 DEF Sftp!AnswerResume, Sftp!Goto, Sftp!SetError
<1>24. CASE Sftp!AnswerNo
  BY <1>24 DEF Sftp!AnswerNo, Sftp!Goto
<1>25. CASE Sftp!AnswerYes
  BY <1>25 DEF Sftp!AnswerYes, Sftp!Goto
<1>26. CASE Sftp!ClearTaskid
  BY <1>26 DEF Sftp!ClearTaskid, Sftp!Goto
<1>27. CASE Sftp!FreeSession
  BY <1>27 DEF Sftp!FreeSession, Sftp!Goto
<1>28. CASE Sftp!Abort
  BY <1>28 DEF Sftp!Abort, Sftp!Goto
<1>29. CASE Sftp!Destroyed
  BY <1>29 DEF Sftp!Destroyed, Sftp!Goto
<1>30. CASE UNCHANGED Sftp!vars
  BY <1>30 DEF Sftp!vars
<1> QED
  BY <1>1, <1>2, <1>3, <1>4, <1>5, <1>6, <1>7, <1>8, <1>9, <1>10, <1>11, <1>12, <1>13,
     <1>14, <1>15, <1>16, <1>17, <1>18, <1>19, <1>20, <1>21, <1>22, <1>23, <1>24, <1>25,
     <1>26, <1>27, <1>28, <1>29, <1>30 DEF Sftp!Next, Sftp!Thread, Sftp!Serve, Sftp!User,
        Sftp!Answer, Sftp!Destroy

\* The other variables keep to their values.
LEMMA SftpOthersStep ==
    ASSUME MaxTasks \in Nat, SftpRowsInv, SftpOthers, SftpTaskInv, SftpDialogInv,
           [Sftp!Next]_(Sftp!vars)
    PROVE  SftpOthers'
<1> USE DEF SftpOthers, Sftp!rowvars, Sftp!clientvars, Sftp!dialogvars, Sftp!threadvars,
   Sftp!ThreadStates, Sftp!Requests, Sftp!Ids
<1>1. CASE Sftp!GetTask
  BY <1>1 DEF Sftp!GetTask, Sftp!Goto
<1>2. CASE Sftp!Claim
  BY <1>2 DEF Sftp!Claim, Sftp!Goto
<1>3. CASE Sftp!Connect
  BY <1>3 DEF Sftp!Connect, Sftp!Goto, Sftp!SetError
<1>4. CASE Sftp!Begin
  BY <1>4 DEF Sftp!Begin, Sftp!Goto, Sftp!SetError
<1>5. CASE Sftp!List
  BY <1>5 DEF Sftp!List, Sftp!Goto, Sftp!SetError
<1>6. CASE Sftp!ListEnd
  BY <1>6 DEF Sftp!ListEnd, Sftp!Goto
<1>7. CASE Sftp!NextFile
  BY <1>7 DEF Sftp!NextFile, Sftp!Goto, Sftp!SetError
<1>8. CASE Sftp!NextEnd
  BY <1>8 DEF Sftp!NextEnd, Sftp!Goto, Sftp!Finished
<1>9. CASE Sftp!OpenFile
  BY <1>9 DEF Sftp!OpenFile, Sftp!Goto, Sftp!SetError
<1>10. CASE Sftp!Copy
  BY <1>10 DEF Sftp!Copy, Sftp!Goto, Sftp!SetError, Sftp!Finished, Sftp!FileDone
<1>11. CASE Sftp!CopyEnd
  BY <1>11 DEF Sftp!CopyEnd, Sftp!Goto, Sftp!Finished, Sftp!FileDone
<1>12. CASE Sftp!Uploaded
  BY <1>12 DEF Sftp!Uploaded, Sftp!Goto
<1>13. CASE Sftp!Done
  BY <1>13 DEF Sftp!Done, Sftp!Goto
<1>14. CASE Sftp!End
  BY <1>14 DEF Sftp!End, Sftp!Goto
<1>15. CASE Sftp!Exit
  BY <1>15 DEF Sftp!Exit, Sftp!Goto
<1>16. CASE Sftp!ServeGet
  BY <1>16, SftpServeGetRow DEF Sftp!ServeGet
<1>17. CASE Sftp!ServeUpdate
  BY <1>17 DEF Sftp!ServeUpdate, Sftp!Goto, Sftp!update_task
<1>18. CASE Sftp!ServeConfirm
  BY <1>18 DEF Sftp!ServeConfirm, Sftp!Goto
<1>19. CASE Sftp!Refresh
  BY <1>19 DEF Sftp!Refresh, Sftp!Goto
<1>20. CASE Sftp!NewTasks
  <2>1. sftp_kind' \in [Sftp!Ids -> Sftp!Kinds]
    BY <1>20, SftpNewTasksRows
  <2>2. UNCHANGED <<sftp_client, sftp_taskid, sftp_cancelDlg>>
    BY <1>20 DEF Sftp!NewTasks
  <2>3. CASE sftp_thread
    BY <1>20, <2>1, <2>2, <2>3 DEF Sftp!NewTasks
  <2>4. CASE ~sftp_thread
    <3>1. sftp_pc' = "get" /\ sftp_task' = 0 /\ sftp_thread' = TRUE /\ sftp_after' = sftp_after
      BY <1>20, <2>4 DEF Sftp!NewTasks, Sftp!Goto
    <3> QED BY <2>1, <2>2, <3>1
  <2> QED BY <2>3, <2>4
<1>21. CASE Sftp!DestroyFtpClient
  BY <1>21 DEF Sftp!DestroyFtpClient, Sftp!Goto
<1>22. CASE \E i \in Sftp!Ids : Sftp!CancelTask(i)
  <2>1. PICK i \in Sftp!Ids : Sftp!CancelTask(i)
    BY <1>22
  <2> QED BY <2>1 DEF Sftp!CancelTask
<1>23. CASE Sftp!AnswerResume
  BY <1>23 DEF Sftp!AnswerResume, SftpDialogInv, Sftp!Goto, Sftp!SetError
<1>24. CASE Sftp!AnswerNo
  BY <1>24 DEF Sftp!AnswerNo, Sftp!Goto
<1>25. CASE Sftp!AnswerYes
  BY <1>25 DEF Sftp!AnswerYes, Sftp!Goto
<1>26. CASE Sftp!ClearTaskid
  BY <1>26 DEF Sftp!ClearTaskid, Sftp!Goto
<1>27. CASE Sftp!FreeSession
  BY <1>27 DEF Sftp!FreeSession, Sftp!Goto
<1>28. CASE Sftp!Abort
  BY <1>28 DEF Sftp!Abort, Sftp!Goto
<1>29. CASE Sftp!Destroyed
  BY <1>29 DEF Sftp!Destroyed, Sftp!Goto
<1>30. CASE UNCHANGED Sftp!vars
  BY <1>30 DEF Sftp!vars
<1> QED
  BY <1>1, <1>2, <1>3, <1>4, <1>5, <1>6, <1>7, <1>8, <1>9, <1>10, <1>11, <1>12, <1>13,
     <1>14, <1>15, <1>16, <1>17, <1>18, <1>19, <1>20, <1>21, <1>22, <1>23, <1>24, <1>25,
     <1>26, <1>27, <1>28, <1>29, <1>30 DEF Sftp!Next, Sftp!Thread, Sftp!Serve, Sftp!User,
        Sftp!Answer, Sftp!Destroy

\* The rows.
LEMMA SftpRowsStep ==
    ASSUME MaxTasks \in Nat, SftpRowsInv, SftpOthers, SftpTaskInv, SftpDialogInv,
           [Sftp!Next]_(Sftp!vars)
    PROVE  SftpRowsInv'
<1> USE DEF SftpRowsInv, Sftp!rowvars, Sftp!clientvars, Sftp!dialogvars, Sftp!threadvars
<1>1. CASE Sftp!GetTask
  BY <1>1 DEF Sftp!GetTask, Sftp!Goto
<1>2. CASE Sftp!Claim
  BY <1>2 DEF Sftp!Claim, Sftp!Goto
<1>3. CASE Sftp!Connect
  BY <1>3 DEF Sftp!Connect, Sftp!Goto, Sftp!SetError
<1>4. CASE Sftp!Begin
  BY <1>4 DEF Sftp!Begin, Sftp!Goto, Sftp!SetError
<1>5. CASE Sftp!List
  BY <1>5 DEF Sftp!List, Sftp!Goto, Sftp!SetError
<1>6. CASE Sftp!ListEnd
  BY <1>6 DEF Sftp!ListEnd, Sftp!Goto
<1>7. CASE Sftp!NextFile
  BY <1>7 DEF Sftp!NextFile, Sftp!Goto, Sftp!SetError
<1>8. CASE Sftp!NextEnd
  BY <1>8 DEF Sftp!NextEnd, Sftp!Goto, Sftp!Finished
<1>9. CASE Sftp!OpenFile
  BY <1>9 DEF Sftp!OpenFile, Sftp!Goto, Sftp!SetError
<1>10. CASE Sftp!Copy
  BY <1>10 DEF Sftp!Copy, Sftp!Goto, Sftp!SetError, Sftp!Finished, Sftp!FileDone
<1>11. CASE Sftp!CopyEnd
  BY <1>11 DEF Sftp!CopyEnd, Sftp!Goto, Sftp!Finished, Sftp!FileDone
<1>12. CASE Sftp!Uploaded
  BY <1>12 DEF Sftp!Uploaded, Sftp!Goto
<1>13. CASE Sftp!Done
  BY <1>13 DEF Sftp!Done, Sftp!Goto
<1>14. CASE Sftp!End
  BY <1>14 DEF Sftp!End, Sftp!Goto
<1>15. CASE Sftp!Exit
  BY <1>15 DEF Sftp!Exit, Sftp!Goto
<1>16. CASE Sftp!ServeGet
  BY <1>16 DEF Sftp!ServeGet, Sftp!Goto
<1>17. CASE Sftp!ServeUpdate
  <2>1. sftp_task \in Sftp!Ids /\ sftp_rows[sftp_task] # "none"
    BY <1>17 DEF Sftp!ServeUpdate, SftpTaskInv, SftpClaiming, SftpTransferring
  <2>2. PICK s \in {"run", "error", "finish"} : Sftp!update_task(s)
    BY <1>17 DEF Sftp!ServeUpdate
  <2>3. sftp_nextid' = sftp_nextid
    BY <1>17 DEF Sftp!ServeUpdate
  <2> QED BY <2>1, <2>2, <2>3 DEF Sftp!update_task, Sftp!RowStates
<1>18. CASE Sftp!ServeConfirm
  BY <1>18 DEF Sftp!ServeConfirm, Sftp!Goto
<1>19. CASE Sftp!Refresh
  BY <1>19 DEF Sftp!Refresh, Sftp!Goto
<1>20. CASE Sftp!NewTasks
  <2>1. sftp_nextid \in Nat /\ sftp_nextid' \in Nat
    BY SftpNewTasksRows, <1>20
  <2>2. \A i \in Sftp!Ids : sftp_rows'[i] = "none" <=> i >= sftp_nextid'
    BY <2>1, <1>20, SftpNewTasksRows DEF Sftp!Ids
  <2> QED BY <2>2, <1>20, SftpNewTasksRows
<1>21. CASE Sftp!DestroyFtpClient
  BY <1>21 DEF Sftp!DestroyFtpClient, Sftp!Goto
<1>22. CASE \E i \in Sftp!Ids : Sftp!CancelTask(i)
  <2>1. PICK i \in Sftp!Ids : Sftp!CancelTask(i)
    BY <1>22
  <2> QED BY <2>1 DEF Sftp!CancelTask, Sftp!RowStates
<1>23. CASE Sftp!AnswerResume
  BY <1>23 DEF Sftp!AnswerResume, Sftp!Goto, Sftp!SetError
<1>24. CASE Sftp!AnswerNo
  BY <1>24 DEF Sftp!AnswerNo, Sftp!Goto
<1>25. CASE Sftp!AnswerYes
  <2>1. sftp_cancelDlg \in Sftp!Ids /\ sftp_rows[sftp_cancelDlg] # "none"
    BY <1>25 DEF Sftp!AnswerYes, SftpDialogInv, SftpOthers, Sftp!Ids
  <2> QED BY <1>25, <2>1 DEF Sftp!AnswerYes, Sftp!RowStates
<1>26. CASE Sftp!ClearTaskid
  <2>1. sftp_cancelDlg \in Sftp!Ids /\ sftp_rows[sftp_cancelDlg] # "none"
    BY <1>26 DEF Sftp!ClearTaskid, SftpDialogInv, SftpOthers, Sftp!Ids
  <2> QED BY <1>26, <2>1 DEF Sftp!ClearTaskid, Sftp!RowStates
<1>27. CASE Sftp!FreeSession
  BY <1>27 DEF Sftp!FreeSession, Sftp!Goto
<1>28. CASE Sftp!Abort
  BY <1>28 DEF Sftp!Abort, Sftp!Goto
<1>29. CASE Sftp!Destroyed
  BY <1>29 DEF Sftp!Destroyed, Sftp!Goto
<1>30. CASE UNCHANGED Sftp!vars
  BY <1>30 DEF Sftp!vars
<1> QED
  BY <1>1, <1>2, <1>3, <1>4, <1>5, <1>6, <1>7, <1>8, <1>9, <1>10, <1>11, <1>12, <1>13,
     <1>14, <1>15, <1>16, <1>17, <1>18, <1>19, <1>20, <1>21, <1>22, <1>23, <1>24, <1>25,
     <1>26, <1>27, <1>28, <1>29, <1>30 DEF Sftp!Next, Sftp!Thread, Sftp!Serve, Sftp!User,
        Sftp!Answer, Sftp!Destroy

\* The task that the thread holds.
LEMMA SftpTaskStep ==
    ASSUME MaxTasks \in Nat, SftpRowsInv, SftpOthers, SftpTaskInv, SftpDialogInv,
           [Sftp!Next]_(Sftp!vars)
    PROVE  SftpTaskInv'
<1> USE DEF SftpTaskInv, SftpClaiming, SftpTransferring, Sftp!rowvars, Sftp!clientvars,
   Sftp!dialogvars, Sftp!threadvars
<1>1. CASE Sftp!GetTask
  BY <1>1 DEF Sftp!GetTask, Sftp!Goto
<1>2. CASE Sftp!Claim
  BY <1>2 DEF Sftp!Claim, Sftp!Goto
<1>3. CASE Sftp!Connect
  BY <1>3 DEF Sftp!Connect, Sftp!Goto, Sftp!SetError, SftpOthers
<1>4. CASE Sftp!Begin
  BY <1>4 DEF Sftp!Begin, Sftp!Goto, Sftp!SetError, SftpOthers
<1>5. CASE Sftp!List
  BY <1>5 DEF Sftp!List, Sftp!Goto, Sftp!SetError, SftpOthers
<1>6. CASE Sftp!ListEnd
  BY <1>6 DEF Sftp!ListEnd, Sftp!Goto
<1>7. CASE Sftp!NextFile
  BY <1>7 DEF Sftp!NextFile, Sftp!Goto, Sftp!SetError, SftpOthers
<1>8. CASE Sftp!NextEnd
  BY <1>8 DEF Sftp!NextEnd, Sftp!Goto, Sftp!Finished
<1>9. CASE Sftp!OpenFile
  BY <1>9 DEF Sftp!OpenFile, Sftp!Goto, Sftp!SetError, SftpOthers
<1>10. CASE Sftp!Copy
  BY <1>10 DEF Sftp!Copy, Sftp!Goto, Sftp!SetError, Sftp!Finished, Sftp!FileDone, SftpOthers
<1>11. CASE Sftp!CopyEnd
  BY <1>11 DEF Sftp!CopyEnd, Sftp!Goto, Sftp!Finished, Sftp!FileDone
<1>12. CASE Sftp!Uploaded
  BY <1>12 DEF Sftp!Uploaded, Sftp!Goto
<1>13. CASE Sftp!Done
  BY <1>13 DEF Sftp!Done, Sftp!Goto
<1>14. CASE Sftp!End
  BY <1>14 DEF Sftp!End, Sftp!Goto
<1>15. CASE Sftp!Exit
  BY <1>15 DEF Sftp!Exit, Sftp!Goto
<1>16. CASE Sftp!ServeGet
  BY <1>16, SftpServeGetRow DEF Sftp!ServeGet
<1>17. CASE Sftp!ServeUpdate
  <2>1. sftp_task \in Sftp!Ids /\ sftp_task' = sftp_task
    BY <1>17 DEF Sftp!ServeUpdate
  <2> QED BY <1>17, <2>1 DEF Sftp!ServeUpdate, Sftp!update_task, Sftp!Goto, SftpRowsInv,
     SftpOthers
<1>18. CASE Sftp!ServeConfirm
  BY <1>18 DEF Sftp!ServeConfirm, Sftp!Goto
<1>19. CASE Sftp!Refresh
  BY <1>19 DEF Sftp!Refresh, Sftp!Goto
<1>20. CASE Sftp!NewTasks
  <2>1. sftp_task \in Sftp!Ids
        /\ sftp_rows[sftp_task] # "none" => sftp_rows'[sftp_task] = sftp_rows[sftp_task]
    BY SftpNewTasksRows, <1>20 DEF SftpRowsInv
  <2>2. CASE sftp_thread
    BY <1>20, <2>1, <2>2 DEF Sftp!NewTasks
  <2>3. CASE ~sftp_thread
    BY <1>20, <2>3 DEF Sftp!NewTasks, Sftp!Goto
  <2> QED BY <2>2, <2>3
<1>21. CASE Sftp!DestroyFtpClient
  BY <1>21 DEF Sftp!DestroyFtpClient, Sftp!Goto
<1>22. CASE \E i \in Sftp!Ids : Sftp!CancelTask(i)
  <2>1. PICK i \in Sftp!Ids : Sftp!CancelTask(i)
    BY <1>22
  <2> QED BY <2>1 DEF Sftp!CancelTask, SftpRowsInv
<1>23. CASE Sftp!AnswerResume
  BY <1>23 DEF Sftp!AnswerResume, SftpDialogInv, Sftp!Goto, Sftp!SetError
<1>24. CASE Sftp!AnswerNo
  BY <1>24 DEF Sftp!AnswerNo, Sftp!Goto
<1>25. CASE Sftp!AnswerYes
  BY <1>25 DEF Sftp!AnswerYes, SftpRowsInv, SftpOthers, Sftp!Ids
<1>26. CASE Sftp!ClearTaskid
  BY <1>26 DEF Sftp!ClearTaskid, SftpRowsInv, SftpOthers, Sftp!Ids
<1>27. CASE Sftp!FreeSession
  BY <1>27 DEF Sftp!FreeSession, Sftp!Goto
<1>28. CASE Sftp!Abort
  BY <1>28 DEF Sftp!Abort, Sftp!Goto
<1>29. CASE Sftp!Destroyed
  BY <1>29 DEF Sftp!Destroyed, Sftp!Goto
<1>30. CASE UNCHANGED Sftp!vars
  BY <1>30 DEF Sftp!vars
<1> QED
  BY <1>1, <1>2, <1>3, <1>4, <1>5, <1>6, <1>7, <1>8, <1>9, <1>10, <1>11, <1>12, <1>13,
     <1>14, <1>15, <1>16, <1>17, <1>18, <1>19, <1>20, <1>21, <1>22, <1>23, <1>24, <1>25,
     <1>26, <1>27, <1>28, <1>29, <1>30 DEF Sftp!Next, Sftp!Thread, Sftp!Serve, Sftp!User,
        Sftp!Answer, Sftp!Destroy

\* The dialogs.
LEMMA SftpDialogStep ==
    ASSUME MaxTasks \in Nat, SftpRowsInv, SftpOthers, SftpTaskInv, SftpDialogInv,
           [Sftp!Next]_(Sftp!vars)
    PROVE  SftpDialogInv'
<1> USE DEF SftpDialogInv, Sftp!rowvars, Sftp!clientvars, Sftp!dialogvars, Sftp!threadvars
<1>1. CASE Sftp!GetTask
  BY <1>1 DEF Sftp!GetTask, Sftp!Goto
<1>2. CASE Sftp!Claim
  BY <1>2 DEF Sftp!Claim, Sftp!Goto
<1>3. CASE Sftp!Connect
  BY <1>3 DEF Sftp!Connect, Sftp!Goto, Sftp!SetError
<1>4. CASE Sftp!Begin
  BY <1>4 DEF Sftp!Begin, Sftp!Goto, Sftp!SetError
<1>5. CASE Sftp!List
  BY <1>5 DEF Sftp!List, Sftp!Goto, Sftp!SetError
<1>6. CASE Sftp!ListEnd
  BY <1>6 DEF Sftp!ListEnd, Sftp!Goto
<1>7. CASE Sftp!NextFile
  BY <1>7 DEF Sftp!NextFile, Sftp!Goto, Sftp!SetError
<1>8. CASE Sftp!NextEnd
  BY <1>8 DEF Sftp!NextEnd, Sftp!Goto, Sftp!Finished
<1>9. CASE Sftp!OpenFile
  BY <1>9 DEF Sftp!OpenFile, Sftp!Goto, Sftp!SetError
<1>10. CASE Sftp!Copy
  BY <1>10 DEF Sftp!Copy, Sftp!Goto, Sftp!SetError, Sftp!Finished, Sftp!FileDone
<1>11. CASE Sftp!CopyEnd
  BY <1>11 DEF Sftp!CopyEnd, Sftp!Goto, Sftp!Finished, Sftp!FileDone
<1>12. CASE Sftp!Uploaded
  BY <1>12 DEF Sftp!Uploaded, Sftp!Goto
<1>13. CASE Sftp!Done
  BY <1>13 DEF Sftp!Done, Sftp!Goto
<1>14. CASE Sftp!End
  BY <1>14 DEF Sftp!End, Sftp!Goto
<1>15. CASE Sftp!Exit
  BY <1>15 DEF Sftp!Exit, Sftp!Goto
<1>16. CASE Sftp!ServeGet
  BY <1>16 DEF Sftp!ServeGet, Sftp!Goto
<1>17. CASE Sftp!ServeUpdate
  <2>1. sftp_task \in Sftp!Ids /\ sftp_rows[sftp_task] # "none"
    BY <1>17 DEF Sftp!ServeUpdate, SftpTaskInv, SftpClaiming, SftpTransferring
  <2>2. PICK s \in {"run", "error", "finish"} : Sftp!update_task(s)
    BY <1>17 DEF Sftp!ServeUpdate
  <2>3. \A i \in Sftp!Ids : sftp_rows[i] # "none" => sftp_rows'[i] # "none"
    BY <2>1, <2>2 DEF Sftp!update_task, SftpRowsInv
  <2>4. sftp_cancelDlg # 0 => sftp_cancelDlg \in Sftp!Ids
    BY DEF SftpOthers, Sftp!Ids
  <2> QED BY <1>17, <2>3, <2>4 DEF Sftp!ServeUpdate, Sftp!InLoop
<1>18. CASE Sftp!ServeConfirm
  BY <1>18 DEF Sftp!ServeConfirm, Sftp!Goto
<1>19. CASE Sftp!Refresh
  BY <1>19 DEF Sftp!Refresh, Sftp!Goto
<1>20. CASE Sftp!NewTasks
  BY <1>20 DEF Sftp!NewTasks, Sftp!UserTurn
<1>21. CASE Sftp!DestroyFtpClient
  BY <1>21 DEF Sftp!DestroyFtpClient, Sftp!Goto
<1>22. CASE \E i \in Sftp!Ids : Sftp!CancelTask(i)
  <2>1. PICK i \in Sftp!Ids : Sftp!CancelTask(i)
    BY <1>22
  <2> QED BY <2>1 DEF Sftp!CancelTask, Sftp!UserTurn, SftpRowsInv, Sftp!Ids
<1>23. CASE Sftp!AnswerResume
  BY <1>23 DEF Sftp!AnswerResume, Sftp!Goto, Sftp!SetError
<1>24. CASE Sftp!AnswerNo
  BY <1>24 DEF Sftp!AnswerNo, Sftp!Goto
<1>25. CASE Sftp!AnswerYes
  BY <1>25 DEF Sftp!AnswerYes, Sftp!Goto
<1>26. CASE Sftp!ClearTaskid
  BY <1>26 DEF Sftp!ClearTaskid, Sftp!Goto
<1>27. CASE Sftp!FreeSession
  BY <1>27 DEF Sftp!FreeSession, Sftp!Goto
<1>28. CASE Sftp!Abort
  BY <1>28 DEF Sftp!Abort, Sftp!Goto
<1>29. CASE Sftp!Destroyed
  BY <1>29 DEF Sftp!Destroyed, Sftp!Goto
<1>30. CASE UNCHANGED Sftp!vars
  BY <1>30 DEF Sftp!vars
<1> QED
  BY <1>1, <1>2, <1>3, <1>4, <1>5, <1>6, <1>7, <1>8, <1>9, <1>10, <1>11, <1>12, <1>13,
     <1>14, <1>15, <1>16, <1>17, <1>18, <1>19, <1>20, <1>21, <1>22, <1>23, <1>24, <1>25,
     <1>26, <1>27, <1>28, <1>29, <1>30 DEF Sftp!Next, Sftp!Thread, Sftp!Serve, Sftp!User,
        Sftp!Answer, Sftp!Destroy

\* The destruction waits for the thread.
LEMMA SftpGoneStep ==
    ASSUME SftpRowsInv, SftpOthers, SftpDialogInv, Sftp!GoneMeansNoThread,
           [Sftp!Next]_(Sftp!vars)
    PROVE  Sftp!GoneMeansNoThread'
<1> USE DEF Sftp!GoneMeansNoThread, Sftp!rowvars, Sftp!clientvars, Sftp!dialogvars,
   Sftp!threadvars
<1>1. CASE Sftp!GetTask
  BY <1>1 DEF Sftp!GetTask, Sftp!Goto
<1>2. CASE Sftp!Claim
  BY <1>2 DEF Sftp!Claim, Sftp!Goto
<1>3. CASE Sftp!Connect
  BY <1>3 DEF Sftp!Connect, Sftp!Goto, Sftp!SetError
<1>4. CASE Sftp!Begin
  BY <1>4 DEF Sftp!Begin, Sftp!Goto, Sftp!SetError
<1>5. CASE Sftp!List
  BY <1>5 DEF Sftp!List, Sftp!Goto, Sftp!SetError
<1>6. CASE Sftp!ListEnd
  BY <1>6 DEF Sftp!ListEnd, Sftp!Goto
<1>7. CASE Sftp!NextFile
  BY <1>7 DEF Sftp!NextFile, Sftp!Goto, Sftp!SetError
<1>8. CASE Sftp!NextEnd
  BY <1>8 DEF Sftp!NextEnd, Sftp!Goto, Sftp!Finished
<1>9. CASE Sftp!OpenFile
  BY <1>9 DEF Sftp!OpenFile, Sftp!Goto, Sftp!SetError
<1>10. CASE Sftp!Copy
  BY <1>10 DEF Sftp!Copy, Sftp!Goto, Sftp!SetError, Sftp!Finished, Sftp!FileDone
<1>11. CASE Sftp!CopyEnd
  BY <1>11 DEF Sftp!CopyEnd, Sftp!Goto, Sftp!Finished, Sftp!FileDone
<1>12. CASE Sftp!Uploaded
  BY <1>12 DEF Sftp!Uploaded, Sftp!Goto
<1>13. CASE Sftp!Done
  BY <1>13 DEF Sftp!Done, Sftp!Goto
<1>14. CASE Sftp!End
  BY <1>14 DEF Sftp!End, Sftp!Goto
<1>15. CASE Sftp!Exit
  BY <1>15 DEF Sftp!Exit, Sftp!Goto
<1>16. CASE Sftp!ServeGet
  BY <1>16 DEF Sftp!ServeGet, Sftp!Goto
<1>17. CASE Sftp!ServeUpdate
  BY <1>17 DEF Sftp!ServeUpdate, Sftp!InLoop
<1>18. CASE Sftp!ServeConfirm
  BY <1>18 DEF Sftp!ServeConfirm, Sftp!Goto
<1>19. CASE Sftp!Refresh
  BY <1>19 DEF Sftp!Refresh, Sftp!Goto
<1>20. CASE Sftp!NewTasks
  BY <1>20 DEF Sftp!NewTasks, Sftp!UserTurn
<1>21. CASE Sftp!DestroyFtpClient
  BY <1>21 DEF Sftp!DestroyFtpClient, Sftp!Goto
<1>22. CASE \E i \in Sftp!Ids : Sftp!CancelTask(i)
  <2>1. PICK i \in Sftp!Ids : Sftp!CancelTask(i)
    BY <1>22
  <2> QED BY <2>1 DEF Sftp!CancelTask, Sftp!UserTurn
<1>23. CASE Sftp!AnswerResume
  BY <1>23 DEF Sftp!AnswerResume, Sftp!Goto, Sftp!SetError, SftpDialogInv
<1>24. CASE Sftp!AnswerNo
  BY <1>24 DEF Sftp!AnswerNo, Sftp!Goto
<1>25. CASE Sftp!AnswerYes
  BY <1>25 DEF Sftp!AnswerYes, Sftp!Goto
<1>26. CASE Sftp!ClearTaskid
  BY <1>26 DEF Sftp!ClearTaskid, Sftp!Goto
<1>27. CASE Sftp!FreeSession
  BY <1>27 DEF Sftp!FreeSession, Sftp!Goto
<1>28. CASE Sftp!Abort
  BY <1>28 DEF Sftp!Abort, Sftp!Goto
<1>29. CASE Sftp!Destroyed
  BY <1>29 DEF Sftp!Destroyed, SftpOthers
<1>30. CASE UNCHANGED Sftp!vars
  BY <1>30 DEF Sftp!vars
<1> QED
  BY <1>1, <1>2, <1>3, <1>4, <1>5, <1>6, <1>7, <1>8, <1>9, <1>10, <1>11, <1>12, <1>13,
     <1>14, <1>15, <1>16, <1>17, <1>18, <1>19, <1>20, <1>21, <1>22, <1>23, <1>24, <1>25,
     <1>26, <1>27, <1>28, <1>29, <1>30 DEF Sftp!Next, Sftp!Thread, Sftp!Serve, Sftp!User,
        Sftp!Answer, Sftp!Destroy

\* The status of a row moves forward only.
LEMMA SftpRowsForwardStep ==
    ASSUME MaxTasks \in Nat, SftpRowsInv, SftpOthers, SftpTaskInv, SftpDialogInv,
           [Sftp!Next]_(Sftp!vars)
    PROVE  \A i \in Sftp!Ids : sftp_rows'[i] # sftp_rows[i] =>
              \/ sftp_rows[i] = "none" /\ sftp_rows'[i] = "wait"
              \/ sftp_rows[i] = "wait" /\ sftp_rows'[i] \in {"run", "removed"}
              \/ sftp_rows[i] = "run" /\ sftp_rows'[i] \in {"finish", "error", "removed"}
              \/ sftp_rows[i] \in {"finish", "error"} /\ sftp_rows'[i] = "removed"
<1> USE DEF Sftp!rowvars, Sftp!clientvars, Sftp!dialogvars, Sftp!threadvars
<1>1. CASE Sftp!GetTask
  BY <1>1 DEF Sftp!GetTask, Sftp!Goto
<1>2. CASE Sftp!Claim
  BY <1>2 DEF Sftp!Claim, Sftp!Goto
<1>3. CASE Sftp!Connect
  BY <1>3 DEF Sftp!Connect, Sftp!Goto, Sftp!SetError
<1>4. CASE Sftp!Begin
  BY <1>4 DEF Sftp!Begin, Sftp!Goto, Sftp!SetError
<1>5. CASE Sftp!List
  BY <1>5 DEF Sftp!List, Sftp!Goto, Sftp!SetError
<1>6. CASE Sftp!ListEnd
  BY <1>6 DEF Sftp!ListEnd, Sftp!Goto
<1>7. CASE Sftp!NextFile
  BY <1>7 DEF Sftp!NextFile, Sftp!Goto, Sftp!SetError
<1>8. CASE Sftp!NextEnd
  BY <1>8 DEF Sftp!NextEnd, Sftp!Goto, Sftp!Finished
<1>9. CASE Sftp!OpenFile
  BY <1>9 DEF Sftp!OpenFile, Sftp!Goto, Sftp!SetError
<1>10. CASE Sftp!Copy
  BY <1>10 DEF Sftp!Copy, Sftp!Goto, Sftp!SetError, Sftp!Finished, Sftp!FileDone
<1>11. CASE Sftp!CopyEnd
  BY <1>11 DEF Sftp!CopyEnd, Sftp!Goto, Sftp!Finished, Sftp!FileDone
<1>12. CASE Sftp!Uploaded
  BY <1>12 DEF Sftp!Uploaded, Sftp!Goto
<1>13. CASE Sftp!Done
  BY <1>13 DEF Sftp!Done, Sftp!Goto
<1>14. CASE Sftp!End
  BY <1>14 DEF Sftp!End, Sftp!Goto
<1>15. CASE Sftp!Exit
  BY <1>15 DEF Sftp!Exit, Sftp!Goto
<1>16. CASE Sftp!ServeGet
  BY <1>16 DEF Sftp!ServeGet, Sftp!Goto
<1>17. CASE Sftp!ServeUpdate
  <2>1. sftp_task \in Sftp!Ids /\ sftp_rows \in [Sftp!Ids -> Sftp!RowStates]
    BY <1>17 DEF Sftp!ServeUpdate, SftpTaskInv, SftpClaiming, SftpTransferring, SftpRowsInv
  <2>2. \/ sftp_rows[sftp_task] \in {"wait", "removed"} /\ Sftp!update_task("run")
        \/ /\ sftp_rows[sftp_task] \in {"run", "removed"}
           /\ Sftp!update_task("run") \/ Sftp!update_task("error") \/ Sftp!update_task("finish")
    BY <1>17 DEF Sftp!ServeUpdate, SftpTaskInv, SftpClaiming, SftpTransferring
  <2> QED BY <2>1, <2>2 DEF Sftp!update_task
<1>18. CASE Sftp!ServeConfirm
  BY <1>18 DEF Sftp!ServeConfirm, Sftp!Goto
<1>19. CASE Sftp!Refresh
  BY <1>19 DEF Sftp!Refresh, Sftp!Goto
<1>20. CASE Sftp!NewTasks
  BY <1>20, SftpNewTasksRows DEF SftpRowsInv
<1>21. CASE Sftp!DestroyFtpClient
  BY <1>21 DEF Sftp!DestroyFtpClient, Sftp!Goto
<1>22. CASE \E i \in Sftp!Ids : Sftp!CancelTask(i)
  <2>1. PICK i \in Sftp!Ids : Sftp!CancelTask(i)
    BY <1>22
  <2> QED BY <2>1 DEF Sftp!CancelTask, SftpRowsInv, Sftp!RowStates
<1>23. CASE Sftp!AnswerResume
  BY <1>23 DEF Sftp!AnswerResume, Sftp!Goto, Sftp!SetError
<1>24. CASE Sftp!AnswerNo
  BY <1>24 DEF Sftp!AnswerNo, Sftp!Goto
<1>25. CASE Sftp!AnswerYes
  <2>1. sftp_cancelDlg \in Sftp!Ids /\ sftp_rows[sftp_cancelDlg] # "none"
    BY <1>25 DEF Sftp!AnswerYes, SftpDialogInv, SftpOthers, Sftp!Ids
  <2> QED BY <1>25, <2>1 DEF Sftp!AnswerYes, SftpRowsInv, Sftp!RowStates
<1>26. CASE Sftp!ClearTaskid
  <2>1. sftp_cancelDlg \in Sftp!Ids /\ sftp_rows[sftp_cancelDlg] # "none"
    BY <1>26 DEF Sftp!ClearTaskid, SftpDialogInv, SftpOthers, Sftp!Ids
  <2> QED BY <1>26, <2>1 DEF Sftp!ClearTaskid, SftpRowsInv, Sftp!RowStates
<1>27. CASE Sftp!FreeSession
  BY <1>27 DEF Sftp!FreeSession, Sftp!Goto
<1>28. CASE Sftp!Abort
  BY <1>28 DEF Sftp!Abort, Sftp!Goto
<1>29. CASE Sftp!Destroyed
  BY <1>29 DEF Sftp!Destroyed, Sftp!Goto
<1>30. CASE UNCHANGED Sftp!vars
  BY <1>30 DEF Sftp!vars
<1> QED
  BY <1>1, <1>2, <1>3, <1>4, <1>5, <1>6, <1>7, <1>8, <1>9, <1>10, <1>11, <1>12, <1>13,
     <1>14, <1>15, <1>16, <1>17, <1>18, <1>19, <1>20, <1>21, <1>22, <1>23, <1>24, <1>25,
     <1>26, <1>27, <1>28, <1>29, <1>30 DEF Sftp!Next, Sftp!Thread, Sftp!Serve, Sftp!User,
        Sftp!Answer, Sftp!Destroy

\* It holds at the start, ...
LEMMA SftpInitInv ==
    ASSUME MaxTasks \in Nat, Sftp!Init
    PROVE  SftpInv
<1>1. SftpRowsInv
  BY DEF Sftp!Init, SftpRowsInv, Sftp!RowStates, Sftp!Ids
<1>2. <<"download", "file">> \in Sftp!Kinds
  BY DEF Sftp!Kinds
<1>3. sftp_kind \in [Sftp!Ids -> Sftp!Kinds]
  BY <1>2 DEF Sftp!Init
<1>4. SftpFlagsInv
  BY DEF Sftp!Init, SftpFlagsInv
<1>5. 0 \in 0 .. MaxTasks
  OBVIOUS
<1>6. sftp_taskid = 0 /\ sftp_task = 0 /\ sftp_cancelDlg = 0 /\ sftp_pc = "none"
      /\ sftp_client = "alive" /\ sftp_after = "done"
  BY DEF Sftp!Init
<1>7. sftp_thread \in BOOLEAN /\ (sftp_thread <=> sftp_pc # "none")
  BY DEF Sftp!Init
<1>8. sftp_pc \in Sftp!ThreadStates
  BY <1>6 DEF Sftp!ThreadStates
<1>9. SftpOthers
  BY <1>3, <1>5, <1>6, <1>7, <1>8 DEF SftpOthers
<1> QED
  BY <1>1, <1>4, <1>9 DEF Sftp!Init, SftpInv, SftpTaskInv, SftpDialogInv,
     Sftp!GoneMeansNoThread, SftpClaiming, SftpTransferring

\* ... and every step keeps it.
LEMMA SftpStepInv ==
    ASSUME MaxTasks \in Nat, SftpInv, [Sftp!Next]_(Sftp!vars)
    PROVE  SftpInv'
BY SftpRowsStep, SftpFlagsStep, SftpOthersStep, SftpTaskStep, SftpDialogStep,
   SftpGoneStep DEF SftpInv

\* The types are those of the module.
LEMMA SftpTypesAre == Sftp!TypeOK <=> SftpRowsInv /\ SftpFlagsInv /\ SftpOthers
BY DEF Sftp!TypeOK, SftpRowsInv, SftpFlagsInv, SftpOthers

\* The status of a row moves forward, as the property has it.
LEMMA SftpPromiseStep ==
    ASSUME MaxTasks \in Nat, SftpInv, [Sftp!Next]_(Sftp!vars)
    PROVE  [\A i \in Sftp!Ids : sftp_rows'[i] # sftp_rows[i] =>
              CASE sftp_rows[i] = "none" -> sftp_rows'[i] = "wait"
                [] sftp_rows[i] = "wait" -> sftp_rows'[i] \in {"run", "removed"}
                [] sftp_rows[i] = "run"  -> sftp_rows'[i] \in {"finish", "error", "removed"}
                [] sftp_rows[i] \in {"finish", "error"} -> sftp_rows'[i] = "removed"
                [] sftp_rows[i] = "removed" -> FALSE]_sftp_rows
BY SftpRowsForwardStep DEF SftpInv

-----------------------------------------------------------------------------
(* The layout of RDP (src/plugins/rdp/rdp_event.c).                        *)

LayoutInv == Layout!TypeOK /\ Layout!OneLayoutTimer

\* A timer is started only after the one that is known was removed.
LEMMA LayoutStarted ==
    ASSUME LayoutInv, Layout!send_delayed_monitor_layout
    PROVE  /\ layout_layout' \in [timers : 0 .. 2, known : BOOLEAN]
           /\ layout_layout'.timers <= 1
           /\ layout_layout'.timers = 1 => layout_layout'.known
<1> DEFINE others == IF layout_layout.known THEN 0 ELSE layout_layout.timers
<1>1. others = 0
  BY DEF LayoutInv, Layout!TypeOK, Layout!OneLayoutTimer
<1>2. \/ layout_layout' = [timers |-> others + 1, known |-> TRUE]
      \/ layout_layout' = [timers |-> others, known |-> FALSE]
  BY DEF Layout!send_delayed_monitor_layout
<1>3. \/ layout_layout' = [timers |-> 1, known |-> TRUE]
      \/ layout_layout' = [timers |-> 0, known |-> FALSE]
  BY <1>1, <1>2
<1>4. CASE layout_layout' = [timers |-> 1, known |-> TRUE]
  BY <1>4
<1>5. CASE layout_layout' = [timers |-> 0, known |-> FALSE]
  BY <1>5
<1> QED BY <1>3, <1>4, <1>5

\* It holds at the start, ...
LEMMA LayoutInitInv == Layout!Init => LayoutInv
BY DEF Layout!Init, LayoutInv, Layout!TypeOK, Layout!OneLayoutTimer, Layout!Modes

\* ... and every step keeps it.
LEMMA LayoutStepInv ==
    ASSUME LayoutInv, [Layout!Next]_(Layout!vars)
    PROVE  LayoutInv'
<1> USE DEF LayoutInv, Layout!TypeOK, Layout!OneLayoutTimer
<1>1. CASE Layout!Connect
  BY <1>1 DEF Layout!Connect
<1>2. CASE Layout!Reconnecting
  BY <1>2 DEF Layout!Reconnecting
<1>3. CASE \E s \in Sizes \cup {Layout!Small} : Layout!on_configure(s)
  <2>1. PICK s \in Sizes \cup {Layout!Small} : Layout!on_configure(s)
    BY <1>3
  <2>2. UNCHANGED layout_rfi /\ layout_window' = [layout_window EXCEPT !.size = s]
    BY <2>1 DEF Layout!on_configure
  <2>3. CASE Layout!Ready
    BY <2>1, <2>2, <2>3, LayoutStarted DEF Layout!on_configure
  <2>4. CASE ~Layout!Ready
    BY <2>1, <2>2, <2>4 DEF Layout!on_configure
  <2> QED BY <2>3, <2>4
<1>4. CASE Layout!delayed_monitor_layout
  <2>1. layout_layout.timers = 1 /\ UNCHANGED layout_rfi
    BY <1>4 DEF Layout!delayed_monitor_layout
  <2> DEFINE k == layout_layout.known /\ ~(Layout!Ready /\ layout_window.mode = "dynres")
  <2>2. k \in BOOLEAN
    OBVIOUS
  <2>3. layout_layout' = [timers |-> 0, known |-> k]
    BY <1>4, <2>1 DEF Layout!delayed_monitor_layout
  <2>4. layout_window' \in [size : Sizes \cup {Layout!Small}, served : Sizes, mode : Layout!Modes]
    BY <1>4 DEF Layout!delayed_monitor_layout
  <2> HIDE DEF k
  <2> QED BY <2>1, <2>2, <2>3, <2>4
<1>5. CASE \E m \in Layout!Modes : Layout!Scale(m)
  BY <1>5 DEF Layout!Scale
<1>6. CASE Layout!Multimon
  BY <1>6, LayoutStarted DEF Layout!Multimon
<1>7. CASE UNCHANGED Layout!vars
  BY <1>7 DEF Layout!vars
<1> QED
  BY <1>1, <1>2, <1>3, <1>4, <1>5, <1>6, <1>7 DEF Layout!Next

-----------------------------------------------------------------------------
(* The parts.  A behaviour of the run is a behaviour of each of its parts. *)

LifeProved == INSTANCE ConnectionLifecycle_proofs WITH
    conn <- life_conn, todo <- life_todo, mid <- life_mid, Conns <- {"c"},
    None <- "none"

\* The connection that ConnectionLifecycle_proofs is about is that of the run.
LEMMA LifeSame ==
    /\ Life!Init <=> LifeProved!Init
    /\ Life!Next <=> LifeProved!Next
    /\ Life!vars = LifeProved!vars
    /\ (Life!TypeOK <=> LifeProved!TypeOK) /\ (Life!NoFault <=> LifeProved!NoFault)
<1>1. Life!Init <=> LifeProved!Init
  BY DEF Life!Init, LifeProved!Init
<1>2. Life!Next <=> LifeProved!Next
  BY DEF Life!Closing, LifeProved!Closing, Life!Push, LifeProved!Push, Life!SignalClosed,
     LifeProved!SignalClosed, Life!closewin, LifeProved!closewin, Life!on_disconnect,
     LifeProved!on_disconnect, Life!conn_closed_real, LifeProved!conn_closed_real,
     Life!conn_closed, LifeProved!conn_closed, Life!conn_opened, LifeProved!conn_opened,
     Life!update, LifeProved!update, Life!close_check, LifeProved!close_check,
     Life!plugin_close, LifeProved!plugin_close, Life!Running, LifeProved!Running,
     Life!InLoop, LifeProved!InLoop, Life!ActedOn, LifeProved!ActedOn, Life!Set,
     LifeProved!Set, Life!Open, LifeProved!Open, Life!SizeAllocated,
     LifeProved!SizeAllocated, Life!LastStage, LifeProved!LastStage, Life!ThreadOpened,
     LifeProved!ThreadOpened, Life!ThreadUpdate, LifeProved!ThreadUpdate, Life!ThreadEnds,
     LifeProved!ThreadEnds, Life!Idle, LifeProved!Idle, Life!TabClose, LifeProved!TabClose,
     Life!Disconnect, LifeProved!Disconnect, Life!DeleteWindow, LifeProved!DeleteWindow,
     Life!CloseCheck, LifeProved!CloseCheck, Life!PluginClose, LifeProved!PluginClose,
     Life!ConfirmError, LifeProved!ConfirmError, Life!ConfirmPrompt,
     LifeProved!ConfirmPrompt, Life!Main, LifeProved!Main, Life!Thread, LifeProved!Thread,
     Life!User, LifeProved!User, Life!Next, LifeProved!Next
<1>3. Life!vars = LifeProved!vars
  BY DEF Life!vars, LifeProved!vars
<1>4. (Life!TypeOK <=> LifeProved!TypeOK) /\ (Life!NoFault <=> LifeProved!NoFault)
  BY DEF Life!Connection, LifeProved!Connection, Life!TypeOK, LifeProved!TypeOK,
     Life!NoFault, LifeProved!NoFault
<1> QED BY <1>1, <1>2, <1>3, <1>4

\* What happens to the connection of the run is a behaviour of its module.
LEMMA LifePart == Spec => LifeProved!Spec
<1>1. Init => LifeProved!Init
  BY LifeSame DEF Init
<1>2. [Next]_vars => [LifeProved!Next]_(LifeProved!vars)
  <2>1. [Next]_vars => Life!Next \/ UNCHANGED LifeVars
    BY DEF Next, Only, vars
  <2> QED BY <2>1, LifeSame DEF LifeVars, LifeProved!vars
<1> QED BY <1>1, <1>2, PTL DEF Spec, LifeProved!Spec

\* And so it is with the session of VNC, ...
LEMMA VncPart == Spec => Vnc!Spec
<1>1. Init => Vnc!Init
  BY DEF Init
<1>2. [Next]_vars => [Vnc!Next]_(Vnc!vars)
  <2>1. [Next]_vars => Vnc!Next \/ UNCHANGED VncVars
    BY DEF Next, Only, vars
  <2> QED BY <2>1 DEF VncVars, Vnc!vars
<1> QED BY <1>1, <1>2, PTL DEF Spec, Vnc!Spec

\* ... the tunnel ...
LEMMA TunnelPart == Spec => Tunnel!Spec
<1>1. Init => Tunnel!Init
  BY DEF Init
<1>2. [Next]_vars => [Tunnel!Next]_(Tunnel!vars)
  <2>1. [Next]_vars => Tunnel!Next \/ UNCHANGED TunnelVars
    BY DEF Next, Only, vars
  <2> QED BY <2>1 DEF TunnelVars, Tunnel!vars, Tunnel!mainvars, Tunnel!arrays
<1> QED BY <1>1, <1>2, PTL DEF Spec, Tunnel!Spec

\* ... and the parts that are proved here.
LEMMA OtherParts ==
    /\ Init => X2Go!Init /\ Sftp!Init /\ Layout!Init
    /\ [Next]_vars => /\ [X2Go!Next]_(X2Go!vars) /\ [Sftp!Next]_(Sftp!vars)
                      /\ [Layout!Next]_(Layout!vars)
<1>1. Init => X2Go!Init /\ Sftp!Init /\ Layout!Init
  BY DEF Init
<1>2. [Next]_vars => [X2Go!Next]_(X2Go!vars)
  <2>1. [Next]_vars => X2Go!Next \/ UNCHANGED X2GoVars
    BY DEF Next, Only, vars
  <2> QED BY <2>1 DEF X2GoVars, X2Go!vars
<1>3. [Next]_vars => [Sftp!Next]_(Sftp!vars)
  <2>1. [Next]_vars => Sftp!Next \/ UNCHANGED SftpVars
    BY DEF Next, Only, vars
  <2> QED BY <2>1 DEF SftpVars, Sftp!vars, Sftp!rowvars, Sftp!clientvars, Sftp!threadvars,
     Sftp!dialogvars
<1>4. [Next]_vars => [Layout!Next]_(Layout!vars)
  <2>1. [Next]_vars => Layout!Next \/ UNCHANGED LayoutVars
    BY DEF Next, Only, vars
  <2> QED BY <2>1 DEF LayoutVars, Layout!vars
<1> QED BY <1>1, <1>2, <1>3, <1>4

\* The invariants of the parts that are proved here hold of the run.
THEOREM Invariance == Spec => [](X2GoInv /\ SftpInv /\ LayoutInv)
<1> USE SessionBounds DEF SessionBounds
<1>1. Init => X2GoInv /\ SftpInv /\ LayoutInv
  BY OtherParts, X2GoInitInv, SftpInitInv, LayoutInitInv
<1>2. X2GoInv /\ SftpInv /\ LayoutInv /\ [Next]_vars => (X2GoInv /\ SftpInv /\ LayoutInv)'
  BY OtherParts, X2GoStepInv, SftpStepInv, LayoutStepInv
<1> QED BY <1>1, <1>2, PTL DEF Spec

-----------------------------------------------------------------------------
(* The properties of the run.                                              *)

\* Every part keeps its variables in their types, for every bound on the events, the
\* sessions of a server, the tasks and the connections: no session signals its end a third
\* time, no array of a tunnel outgrows its connections, a row of a transfer is there exactly
\* for the numbers that were given out.
THEOREM SessionsTyped == Spec => []TypeOK
<1> USE SessionBounds DEF SessionBounds
<1>1. Vnc!Spec => []Vnc!TypeOK
  BY VncTyping
<1>2. Tunnel!Spec => []Tunnel!TypeOK
  BY TunnelTyping
<1>3. LifeProved!Spec => []LifeProved!TypeOK
  BY LifeProved!Typing
<1>4. X2GoInv /\ SftpInv /\ LayoutInv => X2Go!TypeOK /\ Sftp!TypeOK /\ Layout!TypeOK
  BY X2GoTypesAre, SftpTypesAre DEF X2GoInv, SftpInv, LayoutInv
<1>5. /\ Vnc!TypeOK /\ Tunnel!TypeOK /\ LifeProved!TypeOK
      /\ X2GoInv /\ SftpInv /\ LayoutInv
      => TypeOK
  BY <1>4, LifeSame DEF TypeOK
<1> QED
  BY <1>1, <1>2, <1>3, <1>5, VncPart, TunnelPart, LifePart, Invariance, PTL

\* No session uses or frees anything after its end, or signals its end twice, but in the
\* cases that its module names (remmina_plugin_vnc_close_connection_timeout,
\* rmplugin_x2go_cleanup, remmina_ssh_tunnel_free, conn_closed).
THEOREM SessionsEndOnce == Spec => []FaultsKnown
<1> USE SessionBounds DEF SessionBounds
<1>1. Vnc!Spec =>
        [](Vnc!ClosedOnce /\ Vnc!FaultNeedsLate /\ Vnc!DrawKnown)
  BY VncCleansUpOnce
<1>2. Tunnel!Spec =>
        [](Tunnel!ClosedOnce /\ Tunnel!FreedClosesAll
           /\ Tunnel!TransferOverBeforeFree)
  BY TunnelFreesAllOnce
<1>3. LifeProved!Spec => []LifeProved!NoFault
  BY LifeProved!FaultsOverlap
<1>4. /\ Vnc!ClosedOnce /\ Vnc!FaultNeedsLate /\ Tunnel!ClosedOnce
      /\ LifeProved!NoFault /\ X2GoInv
      => FaultsKnown
  BY LifeSame DEF FaultsKnown, X2GoInv
<1> QED
  BY <1>1, <1>2, <1>3, <1>4, VncPart, TunnelPart, LifePart, Invariance, PTL

\* A source of the main loop is known by its number while it runs: the one that draws for a
\* VNC session, the timer of the layout of RDP
\* (remmina_rdp_event_send_delayed_monitor_layout).
THEOREM SourcesStayKnown == Spec => []SourcesKnown
<1> USE SessionBounds DEF SessionBounds
<1>1. Vnc!Spec =>
        [](Vnc!ClosedOnce /\ Vnc!FaultNeedsLate /\ Vnc!DrawKnown)
  BY VncCleansUpOnce
<1>2. Vnc!DrawKnown /\ LayoutInv => SourcesKnown
  BY DEF SourcesKnown, LayoutInv
<1> QED
  BY <1>1, <1>2, VncPart, Invariance, PTL

\* What a thread transfers stays together and is released when the thread is over: the slots
\* of a tunnel, the task list of the SFTP window (remmina_sftp_client_destroy), the session
\* that was chosen in the dialog of X2Go (rmplugin_x2go_session_chooser_get_selected_row).
THEOREM TransfersStayPaired == Spec => []TransfersPaired
<1> USE SessionBounds DEF SessionBounds
<1>1. Tunnel!Spec => [](Tunnel!Paired /\ Tunnel!HoleHidesNone)
  BY TunnelBytesStay
<1>2. Tunnel!Spec =>
        [](Tunnel!ClosedOnce /\ Tunnel!FreedClosesAll
           /\ Tunnel!TransferOverBeforeFree)
  BY TunnelFreesAllOnce
<1>3. X2GoInv /\ SftpInv => Sftp!GoneMeansNoThread /\ X2Go!ResumesChosen
  BY DEF X2GoInv, X2GoChooseInv, SftpInv, X2Go!ResumesChosen
<1>4. /\ Tunnel!Paired /\ Tunnel!HoleHidesNone
      /\ Tunnel!FreedClosesAll /\ Tunnel!TransferOverBeforeFree
      /\ X2GoInv /\ SftpInv
      => TransfersPaired
  BY <1>3 DEF TransfersPaired
<1> QED
  BY <1>1, <1>2, <1>4, TunnelPart, Invariance, PTL

\* A VNC and an X2Go session keep what a plugin promises the protocol widget
\* (remmina_protocol_widget_signal_connection_opened and _closed), and the status of a row of
\* the SFTP window moves forward only (remmina_ftp_client_update_task).
THEOREM PromisesKept == Spec => KeepPromises
<1> USE SessionBounds DEF SessionBounds
<1>1. Spec => Vnc!KeepsPromise
  <2>1. Vnc!Spec => Vnc!KeepsPromise
    BY VncRefinement
  <2> QED BY <2>1, VncPart, PTL
<1>2. Spec => X2Go!KeepsPromise
  <2>1. Init => X2Go!Promise!Init
    BY DEF Init, X2Go!Init, X2Go!Promise!Init
  <2>2. X2GoInv /\ [Next]_vars => [X2Go!Promise!Next]_(X2Go!Promise!vars)
    BY OtherParts, X2GoPromiseStep
  <2> QED
    BY <2>1, <2>2, Invariance, PTL DEF Spec, X2Go!KeepsPromise, X2Go!Promise!Spec
<1>3. Spec => Sftp!RowsForward
  <2>1. SftpInv /\ [Next]_vars =>
          [\A i \in Sftp!Ids : sftp_rows'[i] # sftp_rows[i] =>
              CASE sftp_rows[i] = "none" -> sftp_rows'[i] = "wait"
                [] sftp_rows[i] = "wait" -> sftp_rows'[i] \in {"run", "removed"}
                [] sftp_rows[i] = "run"  -> sftp_rows'[i] \in {"finish", "error", "removed"}
                [] sftp_rows[i] \in {"finish", "error"} -> sftp_rows'[i] = "removed"
                [] sftp_rows[i] = "removed" -> FALSE]_sftp_rows
    BY OtherParts, SftpPromiseStep
  <2> QED
    BY <2>1, Invariance, PTL DEF Spec, Sftp!RowsForward
<1> QED
  BY <1>1, <1>2, <1>3, PTL DEF KeepPromises
===============================================================================
