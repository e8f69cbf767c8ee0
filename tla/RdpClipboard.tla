---------------------------- MODULE RdpClipboard ----------------------------
(***************************************************************************)
(* The clipboard of an RDP session (plugins/rdp/rdp_cliprdr.c).  What is   *)
(* copied on the server is announced to the thread of the session, which   *)
(* lets the main thread own the local clipboard.  A local application that *)
(* pastes is served by remmina_rdp_cliprdr_request_data: it asks the       *)
(* server and lets the main loop go on for up to six seconds.  The answer  *)
(* is kept in srv_data for the next paste.  What is copied locally is      *)
(* announced to the server, which asks for it; so is what there is when    *)
(* the server is ready.  A connection that is lost is made again: what is  *)
(* pushed for the thread in the meantime is dropped, and the channel is    *)
(* set up once more.                                                       *)
(***************************************************************************)
EXTENDS Naturals, Sequences

CONSTANTS
    MaxCopies,      \* bound: copies on the server, and connections lost and made again
    MaxLocal,       \* bound: copies by local applications
    MaxRequests     \* bound: requests to the server

VARIABLES
    clip,           \* the rfClipboard: format, srv_clip_data_wait, srv_data
    mutex,          \* transfer_clip_mutex is the main thread's
    main,           \* where the main thread is, the format of the paste, whether the
                    \* clean-up was ready when the iteration of the nested loop began, and
                    \* whether it is the server that pastes
    thread,         \* where the thread of the session is, and its message
    events,         \* the queue of events to the thread
    ui,             \* the queue of UI objects to the main thread
    owner,          \* the owner of the local clipboard, and whether owner-change is to come
    server,         \* its copies, the formats of the last, and the requests it has
    wire,           \* messages of the server that are on their way
    copies,         \* copies by local applications, and requests made
    sees,           \* what the server was told last: its own copy or a local one
    odd,            \* history: see KindsKnown
    closed,         \* history: the user closed the session while this paste waited
    fault,          \* what went wrong in memory
    again           \* reconnections so far; history: the last request was dropped at the end of one

vars == <<clip, mutex, main, thread, events, ui, owner, server, wire, copies, sees, odd, closed,
          fault, again>>

Formats == {"text", "image"}
None == "none"
\* monitor_ready, a list of formats or one without a format that is known, ...
Messages == {"ready", "list", "empty", "data", "request"}

TypeOK ==
    /\ clip \in [format : Formats, wait : {None, "busy", "aborting"}, data : Formats \cup {None}]
    /\ mutex \in BOOLEAN
    /\ main \in [at : {"loop", "free", "ask", "push", "wait", "iterate", "use"},
                info : Formats, ready : BOOLEAN, serving : BOOLEAN]
    /\ thread \in [at : {"loop", "aborted", "list", "set", "data", "decode", "store", "signal",
                         "get", "push", "reconnecting", "rejoined", "ended", "freed"},
                  msg : Messages \cup {"echo"}, output : Formats \cup {None}]
    /\ events \in Seq({"list", "echo", "ask", "answer", "end"})
    /\ ui \in Seq({"set", "formats", "get"})
    /\ owner \in [who : {"me", "other"}, changed : BOOLEAN]
    /\ server \in [copies : 0 .. MaxCopies, asked : Nat]
    /\ wire \in Seq(Messages)
    /\ copies \in [local : 0 .. MaxLocal, asked : 0 .. MaxRequests]
    /\ sees \in {"own", "local", "echo"} /\ odd \in BOOLEAN /\ closed \in BOOLEAN
    /\ fault \in {None, "kind", "freed", "locked", "torn"}
    /\ again \in [count : 0 .. MaxCopies, lost : BOOLEAN]

\* The thread waits for the server or an event.
Waiting == [at |-> "loop", msg |-> "list", output |-> None]

\* remmina_rdp_cliprdr_init, for a connection that was just made
Init ==
    /\ clip = [format |-> "text", wait |-> None, data |-> None]
    /\ mutex = FALSE
    /\ main = [at |-> "loop", info |-> "text", ready |-> FALSE, serving |-> FALSE]
    /\ thread = Waiting
    /\ events = <<>> /\ ui = <<>> /\ owner = [who |-> "other", changed |-> FALSE]
    /\ server = [copies |-> 0, asked |-> 0] /\ wire = <<"ready">>
    /\ copies = [local |-> 0, asked |-> 0] /\ sees = "own" /\ odd = FALSE /\ closed = FALSE
    /\ fault = None /\ again = [count |-> 0, lost |-> FALSE]

Running == fault = None

\* rfi->is_reconnecting
Reconnecting == thread.at \in {"reconnecting", "rejoined"}

-----------------------------------------------------------------------------
(* The server.                                                             *)

ServerCopies(list) ==
    /\ Running /\ ~Reconnecting /\ server.copies + again.count < MaxCopies
    /\ server' = [server EXCEPT !.copies = @ + 1]
    /\ wire' = Append(wire, list)
    /\ sees' = "own"
    /\ UNCHANGED <<clip, mutex, main, thread, events, ui, owner, copies, fault, odd, closed,
                   again>>

ServerAnswers ==
    /\ Running /\ server.asked > 0
    /\ server' = [server EXCEPT !.asked = @ - 1]
    /\ wire' = Append(wire, "data")
    /\ UNCHANGED <<clip, mutex, main, thread, events, ui, owner, copies, sees, fault, odd,
                   closed, again>>

Queued(e) == \E i \in DOMAIN events : events[i] = e
OnWire(m) == \E i \in DOMAIN wire : wire[i] = m

ServerPastes ==
    /\ Running /\ ~Reconnecting /\ sees # "own" /\ ~OnWire("request") /\ ~Queued("answer")
    /\ wire' = Append(wire, "request")
    /\ UNCHANGED <<clip, mutex, main, thread, events, ui, owner, server, copies, sees, fault,
                   odd, closed, again>>

-----------------------------------------------------------------------------
(* The thread of the session.                                              *)

\* A list that comes while a paste waits aborts it; monitor_ready and the server's request
\* make the thread wait for the main thread.
Receives ==
    /\ Running /\ thread.at = "loop" /\ wire # <<>>
    /\ wire' = Tail(wire)
    /\ LET m == Head(wire)
           busy == m \in {"list", "empty"} /\ clip.wait = "busy"
       IN  /\ thread' = [at |-> CASE m \in {"list", "empty"} -> IF busy THEN "aborted" ELSE "list"
                                  [] m = "data" -> "data"
                                  [] OTHER -> "get",
                         msg |-> m, output |-> None]
           /\ clip' = IF busy THEN [clip EXCEPT !.wait = "aborting"] ELSE clip
           /\ ui' = CASE m = "request" -> Append(ui, "get")
                      [] m = "ready" -> Append(ui, "formats")
                      [] OTHER -> ui
    /\ UNCHANGED <<mutex, main, events, owner, server, copies, sees, fault, odd, closed, again>>

\* remmina_rdp_cliprdr_send_client_format_list has the list that the main thread made, whoever
\* owns the clipboard.
Announce ==
    /\ Running /\ thread.at = "push"
    /\ events' = Append(events, thread.msg)
    /\ thread' = Waiting
    /\ UNCHANGED <<clip, mutex, main, ui, owner, server, wire, copies, sees, odd, closed,
                   fault, again>>

\* remmina_rdp_cliprdr_cached_clipboard_free, an image or a text by the format of the moment
FreesWrong == clip.data \notin {None, clip.format}

\* remmina_rdp_cliprdr_server_format_list, after the 0.1 s of the abort
FreeForList ==
    /\ Running /\ thread.at \in {"aborted", "list"}
    /\ clip' = [clip EXCEPT !.data = None]
    /\ fault' = IF FreesWrong THEN "kind" ELSE None
    /\ thread' = [thread EXCEPT !.at = "set"]
    /\ UNCHANGED <<mutex, main, events, ui, owner, server, wire, copies, sees, odd, closed,
                   again>>

\* Without a format that is known, an empty text goes to the cache.
SetForList ==
    /\ Running /\ thread.at = "set"
    /\ clip' = IF thread.msg = "list" THEN clip
               ELSE [clip EXCEPT !.format = "text", !.data = "text"]
    /\ ui' = Append(ui, "set")
    /\ thread' = Waiting
    /\ odd' = (odd \/ (thread.msg = "empty"))
    /\ UNCHANGED <<mutex, main, events, owner, server, wire, copies, sees, closed, fault,
                   again>>

\* remmina_rdp_cliprdr_server_format_data_response: the cache is freed, ...
FreeForData ==
    /\ Running /\ thread.at = "data"
    /\ clip' = [clip EXCEPT !.data = None]
    /\ fault' = IF FreesWrong THEN "kind" ELSE None
    /\ thread' = [thread EXCEPT !.at = "decode"]
    /\ UNCHANGED <<mutex, main, events, ui, owner, server, wire, copies, sees, odd, closed,
                   again>>

\* ... the data is decoded by the format of the moment, if it can be, ...
Decode ==
    /\ Running /\ thread.at = "decode"
    /\ \E o \in {None, clip.format} : thread' = [thread EXCEPT !.at = "store", !.output = o]
    /\ UNCHANGED <<clip, mutex, main, events, ui, owner, server, wire, copies, sees, fault,
                   odd, closed, again>>

\* ... stored, ...
Store ==
    /\ Running /\ thread.at = "store"
    /\ clip' = [clip EXCEPT !.data = thread.output]
    /\ thread' = [thread EXCEPT !.at = "signal"]
    /\ UNCHANGED <<mutex, main, events, ui, owner, server, wire, copies, sees, fault, odd,
                   closed, again>>

\* Mutant: the mutex of the transfer is not taken for the signal.
Signal_Unlocked ==
    /\ Running /\ thread.at = "signal"
    /\ clip' = [clip EXCEPT !.wait = None]
    /\ thread' = Waiting
    /\ main' = IF main.at = "wait" THEN [main EXCEPT !.at = "use"] ELSE main
    /\ UNCHANGED <<mutex, events, ui, owner, server, wire, copies, sees, fault, odd, closed,
                   again>>

\* ... and the main thread is woken, when it is in pthread_cond_timedwait.
Signal ==
    /\ Running /\ thread.at = "signal" /\ ~mutex
    /\ clip' = [clip EXCEPT !.wait = None]
    /\ thread' = Waiting
    /\ main' = IF main.at = "wait" THEN [main EXCEPT !.at = "use"] ELSE main
    /\ UNCHANGED <<mutex, events, ui, owner, server, wire, copies, sees, fault, odd, closed,
                   again>>

\* rf_process_event_queue, and the end of the session, which the server may cause too
ProcessEvent ==
    /\ Running /\ thread.at = "loop" /\ events # <<>>
    /\ events' = Tail(events)
    /\ LET e == Head(events) IN
          /\ server' = IF e = "ask" THEN [server EXCEPT !.asked = @ + 1] ELSE server
          /\ sees' = CASE e = "list" -> "local" [] e = "echo" -> "echo" [] OTHER -> sees
          /\ thread' = IF e = "end" THEN [thread EXCEPT !.at = "ended"] ELSE thread
    /\ UNCHANGED <<clip, mutex, main, ui, owner, wire, copies, fault, odd, closed, again>>

\* The server, or a reconnection that fails, or that the user stops, ends the session.
ServerEnds ==
    /\ Running /\ thread.at \in {"loop", "reconnecting"}
    /\ thread' = [thread EXCEPT !.at = "ended"]
    /\ UNCHANGED <<clip, mutex, main, events, ui, owner, server, wire, copies, sees, fault,
                   odd, closed, again>>

\* rf_auto_reconnect: the connection is lost, and what was on its way with it.
Lose ==
    /\ Running /\ thread.at = "loop" /\ server.copies + again.count < MaxCopies
    /\ thread' = [thread EXCEPT !.at = "reconnecting"]
    /\ wire' = <<>> /\ server' = [server EXCEPT !.asked = 0]
    /\ again' = [again EXCEPT !.count = @ + 1]
    /\ UNCHANGED <<clip, mutex, main, events, ui, owner, copies, sees, fault, odd, closed>>

\* Mutant: the wait of the lost connection is not taken back.
Rejoin_Busy ==
    /\ Running /\ thread.at = "reconnecting"
    /\ thread' = [thread EXCEPT !.at = "rejoined"]
    /\ mutex' = FALSE
    /\ fault' \in {None, IF main.at = "wait" THEN "torn" ELSE None}
    /\ again' = [again EXCEPT !.lost = FALSE]
    /\ odd' = (odd \/ Queued("ask"))
    /\ UNCHANGED <<clip, main, events, ui, owner, server, wire, copies, sees, closed>>

\* freerdp_reconnect sets up the channel again: remmina_rdp_cliprdr_init makes a new mutex and
\* a new condition of those that the main thread may hold or wait for.
Rejoin ==
    /\ Running /\ thread.at = "reconnecting"
    /\ thread' = [thread EXCEPT !.at = "rejoined"]
    /\ clip' = [clip EXCEPT !.wait = None] /\ mutex' = FALSE
    /\ fault' \in {None, IF main.at = "wait" THEN "torn" ELSE None}
    /\ again' = [again EXCEPT !.lost = FALSE]
    /\ odd' = (odd \/ Queued("ask"))
    /\ UNCHANGED <<main, events, ui, owner, server, wire, copies, sees, closed>>

\* freerdp_reconnect returns; the server says that it is ready.
Resume ==
    /\ Running /\ thread.at = "rejoined"
    /\ thread' = Waiting
    /\ wire' = <<"ready">>
    /\ UNCHANGED <<clip, mutex, main, events, ui, owner, server, copies, sees, fault, odd,
                   closed, again>>

-----------------------------------------------------------------------------
(* The main thread.                                                        *)

\* Its loop, or the one that request_data lets go on
Looping == main.at = "iterate" \/ (main.at = "loop" /\ ~main.serving)
Alive == thread.at # "freed"

\* remmina_rdp_event_event_push
Push(e) == events' = IF Reconnecting THEN events ELSE Append(events, e)

\* remmina_rdp_cliprdr_request_data: called while this widget owns the clipboard, for a local
\* application or by the main thread itself, which serves the server
Paste(info) ==
    /\ Running /\ (Looping \/ (main.serving /\ main.at = "loop"))
    /\ owner.who = "me" /\ clip.wait = None /\ copies.asked < MaxRequests
    /\ IF main.at = "iterate" THEN
          \* The same thread holds the mutex already, or held the one that was made anew.
          IF clip.format = info /\ clip.data # None THEN UNCHANGED <<main, closed, fault>>
          ELSE fault' = (IF mutex THEN "locked" ELSE "torn") /\ UNCHANGED <<main, closed>>
       ELSE /\ main' = [main EXCEPT !.at = IF clip.format = info /\ clip.data # None
                                          THEN "use" ELSE "free",
                                   !.info = info, !.ready = FALSE]
            /\ closed' = FALSE /\ UNCHANGED fault
    /\ UNCHANGED <<clip, mutex, thread, events, ui, owner, server, wire, copies, sees, odd,
                   again>>

FreeForPaste ==
    /\ Running /\ main.at = "free"
    /\ fault' = IF FreesWrong THEN "kind" ELSE None
    /\ clip' = [clip EXCEPT !.data = None]
    /\ main' = [main EXCEPT !.at = "ask"]
    /\ UNCHANGED <<mutex, thread, events, ui, owner, server, wire, copies, sees, odd, closed,
                   again>>

AskServer ==
    /\ Running /\ main.at = "ask"
    /\ clip' = [clip EXCEPT !.format = main.info, !.wait = "busy"]
    /\ main' = [main EXCEPT !.at = "push"] /\ mutex' = TRUE
    /\ UNCHANGED <<thread, events, ui, owner, server, wire, copies, sees, fault, odd, closed,
                   again>>

\* The request, dropped during a reconnection, is waited for if it was not aborted already.
PushRequest ==
    /\ Running /\ main.at = "push"
    /\ Push("ask") /\ copies' = [copies EXCEPT !.asked = @ + 1]
    /\ main' = [main EXCEPT !.at = IF clip.wait = "busy" THEN "wait" ELSE "use"]
    /\ mutex' = FALSE
    /\ again' = [again EXCEPT !.lost = thread.at = "rejoined" /\ clip.wait # None]
    /\ odd' = (odd \/ (clip.wait = None /\ ~Reconnecting))
    /\ UNCHANGED <<clip, thread, ui, owner, server, wire, sees, fault, closed>>

\* 5 ms are over: one iteration of the main loop, with the mutex
Iterate ==
    /\ Running /\ main.at = "wait"
    /\ main' = [main EXCEPT !.at = "iterate", !.ready = thread.at = "ended"] /\ mutex' = TRUE
    /\ UNCHANGED <<clip, thread, events, ui, owner, server, wire, copies, sees, fault, odd,
                   closed, again>>

\* The wait goes on, or it is over: aborted, answered, or six seconds have passed.
Again(over) ==
    /\ Running /\ main.at = "iterate"
    /\ over \/ clip.wait = "busy"
    /\ main' = [main EXCEPT !.at = IF over THEN "use" ELSE "wait"] /\ mutex' = FALSE
    /\ fault' = IF Alive THEN None ELSE "freed"
    /\ UNCHANGED <<clip, thread, events, ui, owner, server, wire, copies, sees, odd, closed,
                   again>>

Use ==
    /\ Running /\ main.at = "use"
    /\ IF clip.data = None THEN UNCHANGED <<clip, fault>>
       ELSE /\ clip' = [clip EXCEPT !.wait = None]
            /\ fault' = IF clip.data # main.info THEN "kind" ELSE None
    /\ main' = [main EXCEPT !.at = "loop", !.info = "text", !.ready = FALSE]
    /\ closed' = FALSE
    /\ UNCHANGED <<mutex, thread, events, ui, owner, server, wire, copies, sees, again>>
    /\ odd' = (odd \/ (clip.data # None /\ thread.at = "signal"))

Abort == IF clip.wait = "busy" THEN clip' = [clip EXCEPT !.wait = "aborting"] ELSE UNCHANGED clip

\* A local application copies.
LocalCopy ==
    /\ Running /\ Looping /\ copies.local < MaxLocal
    /\ copies' = [copies EXCEPT !.local = @ + 1] /\ owner' = [who |-> "other", changed |-> TRUE]
    /\ UNCHANGED <<clip, mutex, main, thread, events, ui, server, wire, sees, fault, odd,
                   closed, again>>

\* remmina_rdp_cliprdr_get_client_format_list: the formats of the clipboard, which may be
\* those that the server announced.
LocalList == IF owner.who = "me" THEN "echo" ELSE "list"

\* Mutant: the list is sent although the clipboard is this widget's.
on_clipboard_Always ==
    /\ Running /\ Looping /\ Alive /\ owner.changed
    /\ owner' = [owner EXCEPT !.changed = FALSE]
    /\ Abort
    /\ Push(LocalList)
    /\ UNCHANGED <<mutex, main, thread, ui, server, wire, copies, sees, fault, odd, closed,
                   again>>

\* remmina_rdp_event_on_clipboard: owner-change
on_clipboard ==
    /\ Running /\ Looping /\ Alive /\ owner.changed
    /\ owner' = [owner EXCEPT !.changed = FALSE]
    /\ Abort
    /\ IF owner.who = "other" THEN Push("list") ELSE UNCHANGED events
    /\ UNCHANGED <<mutex, main, thread, ui, server, wire, copies, sees, fault, odd, closed,
                   again>>

\* remmina_rdp_event_process_clipboard: remmina_rdp_cliprdr_set_clipboard_data, or
\* remmina_rdp_cliprdr_get_client_format_list or _get_clipboard_data, for which the thread
\* waits.  What cannot be had is answered with a failure.  When this widget owns the clipboard,
\* gtk_clipboard_wait_for_text calls remmina_rdp_cliprdr_request_data, which refuses at once
\* while another paste waits.
ProcessClipboard ==
    /\ Running /\ Looping /\ Alive /\ ui # <<>>
    /\ ui' = Tail(ui)
    /\ \/ /\ Head(ui) = "set"
          /\ owner' = [who |-> "me", changed |-> TRUE] /\ UNCHANGED <<thread, events, main>>
       \/ /\ Head(ui) = "formats"
          /\ thread' = [thread EXCEPT !.at = "push", !.msg = LocalList]
          /\ UNCHANGED <<owner, events, main>>
       \/ /\ Head(ui) = "get" /\ (owner.who = "other" \/ main.at = "iterate")
          /\ Push("answer") /\ thread' = Waiting /\ UNCHANGED <<owner, main>>
       \/ /\ Head(ui) = "get" /\ owner.who = "me" /\ main.at = "loop"
          /\ main' = [main EXCEPT !.serving = TRUE] /\ UNCHANGED <<owner, thread, events>>
    /\ UNCHANGED <<clip, mutex, server, wire, copies, sees, fault, odd, closed, again>>

\* The pastes of the main thread itself are over.
Served ==
    /\ Running /\ main.serving /\ main.at = "loop"
    /\ main' = [main EXCEPT !.serving = FALSE]
    /\ Push("answer") /\ thread' = Waiting
    /\ UNCHANGED <<clip, mutex, ui, owner, server, wire, copies, sees, fault, odd, closed,
                   again>>

\* Mutant: the wait is not aborted.
Close_NoAbort ==
    /\ Running /\ Looping /\ Alive /\ ~Queued("end")
    /\ Push("end")
    /\ closed' = (closed \/ (main.at = "iterate" /\ thread.at # "ended"))
    /\ UNCHANGED <<clip, mutex, main, thread, ui, owner, server, wire, copies, sees, fault,
                   odd, again>>

\* remmina_rdp_close_connection: a reconnection is asked to stop (ServerEnds), with no event.
Close ==
    /\ Running /\ Looping /\ Alive /\ ~Queued("end")
    /\ Abort /\ Push("end")
    /\ closed' = (closed \/ (main.at = "iterate" /\ thread.at # "ended"))
    /\ UNCHANGED <<mutex, main, thread, ui, owner, server, wire, copies, sees, fault, odd,
                   again>>

\* complete_cleanup_on_main_thread
CleanUp ==
    /\ Running /\ Looping /\ thread.at = "ended" /\ (main.at = "loop" \/ main.ready)
    /\ clip' = [clip EXCEPT !.data = None]
    /\ fault' = IF FreesWrong THEN "kind" ELSE None
    /\ owner' = [who |-> "other", changed |-> FALSE]
    /\ ui' = <<>> /\ events' = <<>> /\ wire' = <<>> /\ server' = [server EXCEPT !.asked = 0]
    /\ thread' = [thread EXCEPT !.at = "freed"]
    /\ UNCHANGED <<mutex, main, copies, sees, odd, closed, again>>

Next ==
    \/ \E list \in {"list", "empty"} : ServerCopies(list)
    \/ ServerAnswers \/ ServerPastes
    \/ Receives \/ Announce \/ FreeForList \/ SetForList
    \/ FreeForData \/ Decode \/ Store \/ Signal
    \/ ProcessEvent \/ ServerEnds \/ Lose \/ Rejoin \/ Resume
    \/ \E f \in Formats : Paste(f)
    \/ FreeForPaste \/ AskServer \/ PushRequest \/ Iterate \/ Use
    \/ \E over \in BOOLEAN : Again(over)
    \/ LocalCopy \/ on_clipboard \/ ProcessClipboard \/ Served \/ Close \/ CleanUp

Spec == Init /\ [][Next]_vars

-----------------------------------------------------------------------------

\* The main thread never waits for a mutex it holds, though pastes may come while it waits for
\* the data of another, unless a reconnection has made the mutex, and what is waited for, anew.
NoSelfLock == fault \in {"locked", "torn"} => again.count > 0

\* A paste is refused for as long as a request of an earlier one is not answered, or until the
\* connection is made again, never longer: every request that was made is on its way to the
\* server or back, but for one dropped between the new channel and the end of a reconnection.
BusyEnds ==
    clip.wait # None /\ main.at = "loop" /\ thread.at \notin {"ended", "freed"} =>
        \/ Queued("ask") \/ server.asked > 0 \/ OnWire("data")
        \/ thread.at \in {"data", "decode", "store", "signal", "reconnecting"}
        \/ again.lost

KindsKnown == fault = "kind" => odd

\* A session that the user closes while a paste waits for it is not used after it is freed.
CloseAborts == fault = "freed" => ~closed

\* What the user copied on the server is not announced to it as a copy of a local application,
\* but after a reconnection, when monitor_ready announces the clipboard whoever owns it.
NoEcho == Queued("echo") \/ sees = "echo" => again.count > 0
=============================================================================
