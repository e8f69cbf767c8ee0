------------------------------ MODULE VncSession ------------------------------
(***************************************************************************)
(* A session of the VNC plugin (plugins/vnc/vnc_plugin.c).  The thread of  *)
(* the session listens or connects, asks for a password and tries again,   *)
(* then reads messages of the server and sends the events that the main    *)
(* thread leaves for it in a queue, with one byte in a pipe for each.  The *)
(* main thread closes the session by cancelling the thread, anywhere, and  *)
(* cleans up at once.  Where no thread can be started, the same code runs  *)
(* as sources of the main loop, and the closing waits in a timer.          *)
(*                                                                         *)
(* As in RdpSession the protocol widget is not freed here: a widget that   *)
(* was closed is detached and kept (module ConnectionLifecycle).           *)
(***************************************************************************)
EXTENDS Naturals

CONSTANT MaxEvents      \* bound: events in the queue at a time

VARIABLES
    pc,         \* where the thread (or the source that does its work) is
    next,       \* where it goes on after asking or telling the main thread
    sess,       \* the fields of the plugin data
    queue,      \* events queued, bytes in the pipe
    idle,       \* the sources of the session in the main loop
    main,       \* the main thread: in its loop, closing, joining, writing
    gp,         \* the protocol widget: error, opened, closes, how often closed, its tab
    hist,       \* history: see below
    fault       \* the program used what it had freed

vars == <<pc, next, sess, queue, idle, main, gp, hist, fault>>

ThreadStates ==
    {"new", "start", "attempt", "listen", "init", "auth", "ask", "result", "retry",
     "frame", "over", "signal", "notify", "connected", "select", "drain", "read", "message",
     "ended", "dead"}

TypeOK ==
    /\ pc \in ThreadStates /\ next \in ThreadStates
    /\ sess \in [threaded : BOOLEAN, connected : BOOLEAN, running : BOOLEAN,
                 first : BOOLEAN, client : BOOLEAN, clipboard : BOOLEAN,
                 listening : BOOLEAN, buffered : BOOLEAN]
    /\ queue \in [events : 0 .. MaxEvents, bytes : 0 .. MaxEvents + 1, live : BOOLEAN]
    /\ idle \in [scale : {"none", "queued", "served", "stale"}, drawId : BOOLEAN,
                 draw : BOOLEAN, chat : BOOLEAN, text : BOOLEAN, clip : BOOLEAN,
                 timer : 0 .. 2]
    /\ main \in {"loop", "closing", "joining", "writing", "hung"}
    /\ gp \in [error : BOOLEAN, opened : BOOLEAN, closes : 0 .. 2, tab : BOOLEAN]
    /\ hist \in [raced : BOOLEAN, unsent : BOOLEAN, late : BOOLEAN, called : BOOLEAN]
    /\ fault \in BOOLEAN

\* remmina_plugin_vnc_init.  sess.buffered: the library has read more of the server's data
\* than it has handled (cl->buffered).
\* hist.raced: the thread told of its end while a close of the user was under way.  hist.unsent: an event was queued after the queue was found
\* empty and before the bytes of the pipe were read, its own perhaps with them.
\* hist.late: something that the clean-up neither waits for nor takes back was under
\* way, or the reverse tunnel could not be opened.  hist.called: the tab, which outlives
\* the clean-up, called a feature of the plugin after it.
Init ==
    /\ pc = "new" /\ next = "new"
    /\ sess = [threaded |-> TRUE, connected |-> FALSE, running |-> FALSE, first |-> TRUE,
               client |-> FALSE, clipboard |-> FALSE, listening |-> FALSE,
               buffered |-> FALSE]
    /\ queue = [events |-> 0, bytes |-> 0, live |-> TRUE]
    /\ idle = [scale |-> "none", drawId |-> FALSE, draw |-> FALSE, chat |-> FALSE,
               text |-> FALSE, clip |-> FALSE, timer |-> 0]
    /\ main = "loop"
    /\ gp = [error |-> FALSE, opened |-> FALSE, closes |-> 0, tab |-> TRUE]
    /\ hist = [raced |-> FALSE, unsent |-> FALSE, late |-> FALSE, called |-> FALSE]
    /\ fault = FALSE

\* The thread runs while the main thread does anything; without a thread its work is
\* done from the main loop, one source at a time.
ThreadRuns == ~fault /\ (sess.threaded \/ main = "loop")

\* The main loop takes another source.  Without a thread it does so between two
\* iterations of the plugin's loop and in the nested loop of a dialog.
MainFree ==
    /\ ~fault /\ main = "loop"
    /\ sess.threaded \/ pc \in {"new", "start", "ask", "select", "ended"}

Closing == main \in {"closing", "joining"} \/ idle.timer > 0

-----------------------------------------------------------------------------
(* Opening, and the thread until it is connected.                          *)

\* remmina_plugin_vnc_open_connection
Open ==
    /\ MainFree /\ pc = "new"
    /\ pc' = "start"
    /\ \E t, c \in BOOLEAN :
           sess' = [sess EXCEPT !.threaded = t, !.connected = TRUE, !.clipboard = c]
    /\ UNCHANGED <<next, queue, idle, main, gp, hist, fault>>

\* The beginning of remmina_plugin_vnc_main
Start ==
    /\ ThreadRuns /\ pc = "start"
    /\ pc' = "attempt"
    /\ sess' = [sess EXCEPT !.running = TRUE]
    /\ UNCHANGED <<next, queue, idle, main, gp, hist, fault>>

\* The head of the loop, and start_direct_tunnel: no tunnel, no server (then the
\* session listens), a server.
Attempt ==
    /\ ThreadRuns /\ pc = "attempt"
    /\ \/ /\ ~sess.connected
          /\ pc' = "over" /\ UNCHANGED <<sess, gp>>
       \/ /\ sess.connected
          /\ pc' = "over"
          /\ sess' = [sess EXCEPT !.connected = FALSE]
          /\ \E e \in BOOLEAN : gp' = [gp EXCEPT !.error = @ \/ e]
       \/ /\ sess.connected
          /\ pc' \in {"listen", "init"}
          /\ UNCHANGED <<sess, gp>>
    /\ UNCHANGED <<next, queue, idle, main, hist, fault>>

\* remmina_plugin_vnc_incoming_connection.  Its result is not looked at.  When the
\* reverse tunnel cannot be opened, remmina_protocol_widget_start_reverse_tunnel takes
\* the error from the tunnel it has just freed.
Listen ==
    /\ ThreadRuns /\ pc = "listen"
    /\ \/ /\ ~sess.listening
          /\ pc' = "init" /\ UNCHANGED <<sess, hist, fault>>
       \/ /\ ~sess.listening
          /\ sess' = [sess EXCEPT !.listening = TRUE]
          /\ UNCHANGED <<pc, hist, fault>>
       \/ /\ ~sess.listening
          /\ fault' = TRUE /\ hist' = [hist EXCEPT !.late = TRUE]
          /\ UNCHANGED <<pc, sess>>
       \/ /\ sess.listening
          /\ pc' = "init"
          /\ \E open \in BOOLEAN : sess' = [sess EXCEPT !.listening = open]
          /\ UNCHANGED <<hist, fault>>
    /\ UNCHANGED <<next, queue, idle, main, gp>>

\* remmina_plugin_vnc_rfb_allocfb, without and with a thread: the scale is the business
\* of the main thread, which the thread waits for.
AllocFrameBuffer(then) ==
    IF sess.threaded
    THEN pc' = "frame" /\ next' = then /\ idle' = [idle EXCEPT !.scale = "queued"]
    ELSE pc' = then /\ UNCHANGED <<next, idle>>

\* rfbInitClient: it fails, it asks for a password, or the server lets us in.
InitClient ==
    /\ ThreadRuns /\ pc = "init"
    /\ \/ pc' \in {"result", "auth"} /\ UNCHANGED <<next, idle>>
       \/ AllocFrameBuffer("connected")
    /\ UNCHANGED <<sess, queue, main, gp, hist, fault>>

\* remmina_plugin_vnc_rfb_password and _credential: the first time perhaps with what is
\* saved.
Auth ==
    /\ ThreadRuns /\ pc = "auth"
    /\ \/ pc' = "ask" /\ UNCHANGED <<next, idle>>
       \/ sess.first /\ pc' = "result" /\ UNCHANGED <<next, idle>>
       \/ sess.first /\ AllocFrameBuffer("connected")
    /\ UNCHANGED <<sess, queue, main, gp, hist, fault>>

\* The user answers the panel of the authentication, or cancels it.
Answer ==
    /\ ThreadRuns /\ pc = "ask" /\ main = "loop"
    /\ \/ /\ pc' = "result"
          /\ sess' = [sess EXCEPT !.connected = FALSE]
          /\ UNCHANGED <<next, idle>>
       \/ pc' = "result" /\ UNCHANGED <<next, idle, sess>>
       \/ AllocFrameBuffer("connected") /\ UNCHANGED sess
    /\ UNCHANGED <<queue, main, gp, hist, fault>>

\* rfbInitClient has failed: an error that is no wrong password ends the session;
\* otherwise the user is asked again.
Result ==
    /\ ThreadRuns /\ pc = "result"
    /\ \/ pc' = "over" /\ sess' = [sess EXCEPT !.connected = FALSE]
       \/ pc' = (IF sess.connected THEN "retry" ELSE "over") /\ UNCHANGED sess
    /\ UNCHANGED <<next, queue, idle, main, gp, hist, fault>>

\* init_show_retry (the main thread shows a panel), two seconds of sleep
Retry ==
    /\ ThreadRuns /\ pc = "retry" /\ main = "loop"
    /\ pc' = "attempt" /\ sess' = [sess EXCEPT !.first = FALSE]
    /\ UNCHANGED <<next, queue, idle, main, gp, hist, fault>>

\* The scale is set, onMainThread_schedule_callback_and_wait returns; the window is told
\* of the new size.
Framed ==
    /\ ThreadRuns /\ pc = "frame" /\ idle.scale = "served"
    /\ pc' = "notify" /\ idle' = [idle EXCEPT !.scale = "none"]
    /\ UNCHANGED <<next, sess, queue, main, gp, hist, fault>>

\* After the loop, not connected.  The error is shown unless the profile or a wrong
\* password forbids it.
Over ==
    /\ ThreadRuns /\ pc = "over"
    /\ pc' = "signal" /\ next' = "ended"
    /\ sess' = [sess EXCEPT !.running = FALSE]
    /\ \E show \in BOOLEAN : gp' = [gp EXCEPT !.error = @ \/ show]
    /\ UNCHANGED <<queue, idle, main, hist, fault>>

\* g_idle_add in remmina_protocol_widget_signal_connection_closed or _opened: what the
\* main loop does then is the business of ConnectionLifecycle.
Signal ==
    /\ ThreadRuns /\ pc = "signal"
    /\ pc' = next
    /\ IF next = "ended"
       THEN /\ gp' = [gp EXCEPT !.closes = @ + 1]
            /\ hist' = [hist EXCEPT !.raced = @ \/ Closing]
       ELSE gp' = [gp EXCEPT !.opened = TRUE] /\ UNCHANGED hist
    /\ UNCHANGED <<next, sess, queue, idle, main, fault>>

\* g_idle_add of any other source
Notify ==
    /\ ThreadRuns /\ pc = "notify"
    /\ pc' = next
    /\ UNCHANGED <<next, sess, queue, idle, main, gp, hist, fault>>

\* After the loop, connected: the credentials are saved, the opening is signalled.
Connected ==
    /\ ThreadRuns /\ pc = "connected"
    /\ IF sess.connected
       THEN /\ pc' = "signal" /\ next' = "select"
            /\ \E b \in BOOLEAN : sess' = [sess EXCEPT !.client = TRUE, !.buffered = b]
       ELSE pc' = "over" /\ UNCHANGED <<next, sess>>
    /\ UNCHANGED <<queue, idle, main, gp, hist, fault>>

-----------------------------------------------------------------------------
(* The thread: remmina_plugin_vnc_main_loop.                               *)

\* What the library has buffered is handled first, without a look at the pipe.
Select ==
    /\ ThreadRuns /\ pc = "select"
    /\ \/ /\ sess.connected
          /\ pc' = (IF queue.bytes > 0 /\ ~sess.buffered THEN "drain" ELSE "message")
          /\ UNCHANGED sess
       \/ /\ ~sess.connected
          /\ pc' = "ended" /\ sess' = [sess EXCEPT !.running = FALSE]
    /\ UNCHANGED <<next, queue, idle, main, gp, hist, fault>>

\* Mutant: one event for one wakeup.
Drain_One ==
    /\ ThreadRuns /\ pc = "drain"
    /\ pc' = "read"
    /\ queue' = [queue EXCEPT !.events = IF @ > 0 THEN @ - 1 ELSE 0]
    /\ UNCHANGED <<next, sess, idle, main, gp, hist, fault>>

\* remmina_plugin_vnc_process_vnc_event: events are sent until there is none ...
Drain ==
    /\ ThreadRuns /\ pc = "drain"
    /\ IF queue.events > 0
       THEN queue' = [queue EXCEPT !.events = @ - 1] /\ UNCHANGED pc
       ELSE pc' = "read" /\ UNCHANGED queue
    /\ UNCHANGED <<next, sess, idle, main, gp, hist, fault>>

\* ... and then the bytes are read, that of an event queued in between too.
Read ==
    /\ ThreadRuns /\ pc = "read"
    /\ queue' = [queue EXCEPT !.bytes = 0]
    /\ pc' \in {"select", "message"}
    /\ UNCHANGED <<next, sess, idle, main, gp, hist, fault>>

\* HandleRFBServerMessage: one message, and more may be buffered after it.
Message ==
    /\ ThreadRuns /\ pc = "message"
    /\ \/ /\ \E b \in BOOLEAN : sess' = [sess EXCEPT !.buffered = b]
          /\ \/ pc' = "select" /\ UNCHANGED <<next, idle>>
             \/ \* updatefb and queue_draw_area
                /\ pc' = "select"
                /\ idle' = [idle EXCEPT !.drawId = TRUE, !.draw = @ \/ ~idle.drawId]
                /\ UNCHANGED next
             \/ \* rfb_cuttext and rfb_chat
                /\ pc' = "notify" /\ next' = "select"
                /\ \/ idle' = [idle EXCEPT !.text = TRUE]
                   \/ idle' = [idle EXCEPT !.chat = TRUE]
             \/ AllocFrameBuffer("select")
          /\ UNCHANGED gp
       \/ \* the connection is lost
          /\ sess' = [sess EXCEPT !.running = FALSE]
          /\ gp' = [gp EXCEPT !.error = TRUE]
          /\ IF sess.connected /\ gp.closes = 0
             THEN pc' = "signal" /\ next' = "ended"
             ELSE pc' = "ended" /\ UNCHANGED next
          /\ UNCHANGED idle
    /\ UNCHANGED <<queue, main, hist, fault>>

ThreadStep ==
    \/ Start \/ Attempt \/ Listen \/ InitClient \/ Auth \/ Answer \/ Result \/ Retry
    \/ Framed \/ Over \/ Signal \/ Notify \/ Connected \/ Select \/ Drain \/ Read \/ Message

-----------------------------------------------------------------------------
(* The main thread: sources and input.                                     *)

\* onMainThread_cb: a request of a dead thread is only freed.
ServeScale ==
    /\ MainFree /\ idle.scale \in {"queued", "stale"}
    /\ idle' = [idle EXCEPT !.scale = IF @ = "queued" THEN "served" ELSE "none"]
    /\ UNCHANGED <<pc, next, sess, queue, main, gp, hist, fault>>

\* remmina_plugin_vnc_queue_draw_area_real (setcursor is alike)
Draw ==
    /\ MainFree /\ idle.draw
    /\ idle' = [idle EXCEPT !.draw = FALSE, !.drawId = @ /\ ~sess.connected]
    /\ UNCHANGED <<pc, next, sess, queue, main, gp, hist, fault>>

\* remmina_plugin_vnc_queue_cuttext uses the timer of the clipboard if connected.
ServerText ==
    /\ MainFree /\ idle.text
    /\ idle' = [idle EXCEPT !.text = FALSE]
    /\ fault' = (sess.connected /\ ~queue.live)
    /\ UNCHANGED <<pc, next, sess, queue, main, gp, hist>>

\* remmina_plugin_vnc_event_push, up to the byte in the pipe
event_push ==
    /\ queue.events < MaxEvents /\ queue.bytes <= MaxEvents
    /\ fault' = ~queue.live
    /\ queue' = IF queue.live THEN [queue EXCEPT !.events = @ + 1] ELSE queue
    /\ hist' = [hist EXCEPT !.unsent = @ \/ pc = "read"]
    /\ main' = "writing"

Write ==
    /\ ~fault /\ main = "writing"
    /\ queue' = [queue EXCEPT !.bytes = @ + 1]
    /\ main' = "loop"
    /\ UNCHANGED <<pc, next, sess, idle, gp, hist, fault>>

\* Mutant: the client is not looked at, nor the connection.
Input_Unguarded ==
    /\ MainFree /\ gp.tab
    /\ event_push
    /\ UNCHANGED <<pc, next, sess, idle, gp>>

\* on_motion, on_button, on_scroll, on_key: the user does something (what one handler
\* pushes counts as one event).
Input ==
    /\ MainFree /\ gp.tab /\ sess.connected /\ sess.client
    /\ event_push
    /\ UNCHANGED <<pc, next, sess, idle, gp>>

\* remmina_plugin_vnc_call_feature has no guard.  When the window loses the focus
\* (rcw_focus_out), release_key(gp, 0) walks pressed_keys and sends the releases, if there
\* are any (which keys are pressed is the business of VncInput); open_chat and the other
\* tools of the tool bar use the client.
call_feature ==
    /\ MainFree /\ gp.tab
    /\ \/ sess.client /\ event_push
       \/ /\ ~queue.live \/ (gp.opened /\ ~sess.client)
          /\ fault' = TRUE
          /\ hist' = [hist EXCEPT !.called = ~queue.live]
          /\ UNCHANGED <<queue, main>>
    /\ UNCHANGED <<pc, next, sess, idle, gp>>

\* remmina_plugin_vnc_open_chat looks at the client without a test.
OpenChat ==
    /\ MainFree /\ idle.chat
    /\ idle' = [idle EXCEPT !.chat = FALSE]
    /\ IF sess.client
       THEN event_push
       ELSE fault' = TRUE /\ UNCHANGED <<queue, main, hist>>
    /\ UNCHANGED <<pc, next, sess, gp>>

\* remmina_plugin_vnc_on_cuttext: the text of the clipboard is asked for ...
on_cuttext ==
    /\ MainFree /\ sess.clipboard /\ sess.connected /\ sess.client
    /\ idle' = [idle EXCEPT !.clip = TRUE]
    /\ UNCHANGED <<pc, next, sess, queue, main, gp, hist, fault>>

\* ... and comes later: remmina_plugin_vnc_on_cuttext_request has no guard.
on_cuttext_request ==
    /\ MainFree /\ idle.clip
    /\ idle' = [idle EXCEPT !.clip = FALSE]
    /\ event_push
    /\ UNCHANGED <<pc, next, sess, gp>>

-----------------------------------------------------------------------------
(* The main thread: closing.                                               *)

\* remmina_protocol_widget_close_connection looks whether the session is closed ...
CloseRequest ==
    /\ MainFree /\ pc # "new" /\ gp.closes = 0 /\ idle.timer < 2
    /\ main' = "closing"
    /\ UNCHANGED <<pc, next, sess, queue, idle, gp, hist, fault>>

\* ... and calls remmina_plugin_vnc_close_connection.
close_connection ==
    /\ ~fault /\ main = "closing"
    /\ sess' = [sess EXCEPT !.connected = FALSE]
    /\ IF sess.threaded
       THEN main' = "joining" /\ UNCHANGED idle
       ELSE main' = "loop" /\ idle' = [idle EXCEPT !.timer = @ + 1]
    /\ UNCHANGED <<pc, next, queue, gp, hist, fault>>

\* The cancellation reaches the thread, wherever it is.  In g_idle_add it may take the
\* lock of the main loop with it, and then the main thread waits for ever.
Die ==
    /\ ~fault /\ main = "joining" /\ pc \notin {"ended", "dead"}
    /\ pc' = "dead"
    /\ idle' = [idle EXCEPT !.scale = IF @ = "queued" THEN "stale" ELSE "none"]
    /\ \/ UNCHANGED main
       \/ pc \in {"signal", "notify"} /\ main' = "hung"
    /\ UNCHANGED <<next, sess, queue, gp, hist, fault>>

\* Mutant: the source that draws is left in the main loop, its number kept.
CleanUp_DrawLeft(timers) ==
    /\ fault' = ~queue.live
    /\ sess' = [sess EXCEPT !.running = FALSE, !.clipboard = FALSE, !.listening = FALSE,
                            !.client = FALSE, !.buffered = FALSE]
    /\ queue' = [events |-> 0, bytes |-> 0, live |-> FALSE]
    /\ idle' = [idle EXCEPT !.timer = timers]
    /\ gp' = [gp EXCEPT !.closes = IF @ < 2 THEN @ + 1 ELSE @]
    /\ hist' = [hist EXCEPT !.late = @ \/ idle.chat \/ idle.clip \/ timers > 0]

\* remmina_plugin_vnc_close_connection_timeout, when the session does not run any more
CleanUp(timers) ==
    /\ fault' = ~queue.live
    /\ sess' = [sess EXCEPT !.running = FALSE, !.clipboard = FALSE, !.listening = FALSE,
                            !.client = FALSE, !.buffered = FALSE]
    /\ queue' = [events |-> 0, bytes |-> 0, live |-> FALSE]
    /\ idle' = [idle EXCEPT !.drawId = FALSE, !.draw = @ /\ ~idle.drawId, !.timer = timers]
    /\ gp' = [gp EXCEPT !.closes = IF @ < 2 THEN @ + 1 ELSE @]
    /\ hist' = [hist EXCEPT !.late = @ \/ idle.chat \/ idle.clip \/ timers > 0]

\* With a thread: pthread_join, and the clean-up at once.
Join ==
    /\ ~fault /\ main = "joining" /\ pc \in {"ended", "dead"}
    /\ main' = "loop"
    /\ CleanUp(0)
    /\ UNCHANGED <<pc, next>>

\* Without: the timer looks whether the loop has ended.  It is younger than the source
\* that starts remmina_plugin_vnc_main.
CloseTimer ==
    /\ MainFree /\ idle.timer > 0 /\ ~sess.running /\ pc # "start"
    /\ CleanUp(idle.timer - 1)
    /\ UNCHANGED <<pc, next, main>>

\* rco_on_disconnect: the tab goes, at once or when the panel that tells why is closed.
TabGone ==
    /\ MainFree /\ gp.closes > 0 /\ gp.tab
    /\ gp' = [gp EXCEPT !.tab = FALSE]
    /\ UNCHANGED <<pc, next, sess, queue, idle, main, hist, fault>>

MainStep ==
    \/ ServeScale \/ Draw \/ ServerText \/ Write \/ OpenChat \/ on_cuttext_request
    \/ close_connection \/ Die \/ Join \/ CloseTimer

Next ==
    \/ Open \/ ThreadStep \/ MainStep
    \/ Input \/ call_feature \/ on_cuttext \/ CloseRequest \/ TabGone

Spec == Init /\ [][Next]_vars

\* The thread runs, a cancelled thread dies, the main loop comes to each of its sources.
Fairness ==
    /\ WF_vars(ThreadStep)
    /\ WF_vars(Write \/ close_connection \/ Join)
    /\ WF_vars(Die)
    /\ SF_vars(ServeScale) /\ SF_vars(CloseTimer) /\ SF_vars(Answer) /\ SF_vars(Retry)

FairSpec == Spec /\ Fairness

-----------------------------------------------------------------------------

Promise == INSTANCE PluginSession WITH
    started <- pc # "new",
    opened <- gp.opened,
    closes <- IF gp.closes > 0 THEN 1 ELSE 0

\* The session tells the protocol widget once that it is open and once that it is over,
\* in this order; a second signal of the end comes only when the thread signalled while
\* a close of the user was under way (remmina_protocol_widget_close_connection looks at
\* priv->closed before it calls the plugin).
KeepsPromise == Promise!Spec
ClosedOnce == gp.closes = 2 => hist.raced \/ hist.late

\* After the clean-up nothing comes back to the queue, the client, the pressed keys or the
\* clipboard timer of the session, but what the clean-up leaves alone: a chat being opened,
\* a text of the clipboard on its way, a second timer; and what the tab calls until it goes,
\* above all when its window loses the focus.
FaultNeedsLate == fault => hist.late \/ hist.called

\* While there is a thread, the number of the source that draws is known exactly as long as the
\* source is there: the clean-up removes it, and no other.
DrawKnown == sess.threaded => (idle.drawId <=> idle.draw)

\* A close of the user ends the session, unless the cancelled thread took the lock of
\* the main loop with it.
CloseAsked == main = "closing"
IsOver == gp.closes > 0 \/ main = "hung" \/ fault
CloseEnds == CloseAsked ~> IsOver

\* If the library does not have data buffered for ever, an event is sent to the server, or
\* the session ends, unless the event came between the last look at the queue and the
\* reading of the pipe (then it waits for the next event).
Waiting == queue.events > 0
Sent == queue.events = 0 \/ pc = "drain" \/ hist.unsent \/ IsOver
EventsSent == []<>~sess.buffered => (Waiting ~> Sent)
=============================================================================
