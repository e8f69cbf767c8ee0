------------------------------ MODULE RdpSession ------------------------------
(***************************************************************************)
(* A session of the RDP plugin (plugins/rdp/rdp_plugin.c and rdp_event.c). *)
(* The thread of the session connects, perhaps several times with other    *)
(* credentials, then runs the FreeRDP loop and reconnects when the network *)
(* fails.  It draws and asks through a queue of UI objects that an idle    *)
(* source of the main thread empties; for some it waits.  The user closes   *)
(* the session at any time: before it is connected the session is left to  *)
(* itself as an orphan ("plugin-data" is taken from the protocol widget),  *)
(* afterwards the thread is asked to end, and the clean-up runs in the     *)
(* main thread when it has.                                                *)
(*                                                                         *)
(* The protocol widget itself is not freed here: a widget that was closed  *)
(* is detached and kept (module ConnectionLifecycle).                      *)
(***************************************************************************)
EXTENDS Naturals, Sequences

CONSTANTS
    MaxResizes,     \* bound: desktop resizes by the server
    MaxAttempts     \* reconnect_maxattempts

ASSUME SessionAssumption == MaxResizes \in Nat /\ MaxAttempts \in Nat \ {0}

VARIABLES
    pc,             \* where the thread is
    req,            \* the UI object it queues or waits for, and where it goes on
    ui,             \* the UI queue
    data,           \* "plugin-data" of gp is this session
    closes,         \* how often signal_connection_closed was called
    main,           \* where the main thread is: in its loop, or in a close
    cleanup,        \* complete_cleanup_on_main_thread is queued
    freed,          \* how often rfi was freed
    rfi,            \* other fields of the session
    gp,             \* the protocol widget: has_error; connection_opened signalled
    surf,           \* the GDI buffer rfi->surface draws from, 0 for no surface
    buf,            \* the GDI buffer that is allocated, 0 for none
    asked,          \* a request of the user to close is not answered yet
    orphan,         \* history: the session was closed before it was connected
    midscale,       \* history: the user changed the scale during a resize
    fault           \* the program followed a pointer to nothing

sessionVars == <<data, closes, cleanup, freed>>
screenVars == <<surf, buf, midscale>>
vars == <<pc, req, ui, main, rfi, gp, asked, orphan, fault, sessionVars, screenVars>>

NoUi == [type |-> "none", sync |-> FALSE]

UiObjects ==
    [type : {"connected", "update", "progress"}, sync : {FALSE}]
    \cup [type : {"formats", "destroy", "scale"}, sync : {TRUE}]

ThreadStates ==
    {"new", "never", "main", "tunnel", "connecting", "posted", "enter", "loop", "check",
     "resize", "lost", "try", "attempt", "disconnect", "again", "over",
     "post", "push", "waiting"}

TypeOK ==
    /\ pc \in ThreadStates
    /\ req \in [ui : UiObjects \cup {NoUi}, next : ThreadStates]
    /\ ui \in [queue : Seq(UiObjects), serving : UiObjects \cup {NoUi},
               handler : BOOLEAN, live : BOOLEAN, answered : BOOLEAN]
    /\ data \in BOOLEAN /\ closes \in Nat
    /\ main \in {"loop", "orphaning", "pushing"}
    /\ cleanup \in BOOLEAN /\ freed \in Nat
    /\ rfi \in [connected : BOOLEAN, reconnecting : BOOLEAN, stop : BOOLEAN,
                retry : BOOLEAN, cancelled : BOOLEAN, event : BOOLEAN,
                abort : BOOLEAN, attempts : 0 .. MaxAttempts + 1]
    /\ gp \in [error : BOOLEAN, opened : BOOLEAN]
    /\ surf \in 0 .. MaxResizes + 1 /\ buf \in 0 .. MaxResizes + 1
    /\ asked \in BOOLEAN /\ orphan \in BOOLEAN /\ midscale \in BOOLEAN
    /\ fault \in BOOLEAN

\* remmina_rdp_init and event_init
Init ==
    /\ pc = "new" /\ req = [ui |-> NoUi, next |-> "new"]
    /\ ui = [queue |-> <<>>, serving |-> NoUi, handler |-> FALSE, live |-> TRUE,
             answered |-> FALSE]
    /\ data = TRUE /\ closes = 0
    /\ main = "loop" /\ cleanup = FALSE /\ freed = 0
    /\ rfi = [connected |-> FALSE, reconnecting |-> FALSE, stop |-> FALSE,
              retry |-> FALSE, cancelled |-> FALSE, event |-> FALSE,
              abort |-> FALSE, attempts |-> 0]
    /\ gp = [error |-> FALSE, opened |-> FALSE]
    /\ surf = 0 /\ buf = 0
    /\ asked = FALSE /\ orphan = FALSE /\ midscale = FALSE /\ fault = FALSE

Running == ~fault

-----------------------------------------------------------------------------
(* The thread: queueing a UI object.                                       *)

Ask(type, sync, next) ==
    /\ pc' = "post"
    /\ req' = [ui |-> [type |-> type, sync |-> sync], next |-> next]

Goto(next) == pc' = next /\ UNCHANGED req

\* remmina_rdp_event_queue_ui returns at once for an orphan ...
Post ==
    /\ Running /\ pc = "post"
    /\ Goto(IF data THEN "push" ELSE req.next)
    /\ UNCHANGED <<ui, main, rfi, gp, asked, orphan, fault, sessionVars, screenVars>>

\* ... and takes ui_queue_mutex otherwise, which the main thread holds while it
\* serves an object.  The queue and the mutex may be gone in the meantime.
Push ==
    /\ Running /\ pc = "push" /\ ui.serving = NoUi
    /\ ui' = [ui EXCEPT !.queue = Append(@, req.ui), !.handler = TRUE, !.answered = FALSE]
    /\ fault' = ~ui.live
    /\ Goto(IF req.ui.sync THEN "waiting" ELSE req.next)
    /\ UNCHANGED <<main, rfi, gp, asked, orphan, sessionVars, screenVars>>

\* pthread_cond_wait until ui->complete
Wake ==
    /\ Running /\ pc = "waiting" /\ ui.answered
    /\ Goto(req.next)
    /\ UNCHANGED <<ui, main, rfi, gp, asked, orphan, fault, sessionVars, screenVars>>

-----------------------------------------------------------------------------
(* The thread: connecting.                                                 *)

\* remmina_rdp_open_connection.  When the thread cannot be started, the protocol
\* widget closes the connection on the spot.
Open ==
    /\ Running /\ pc = "new"
    /\ \/ Goto("main") /\ UNCHANGED <<main, gp, asked>>
       \/ /\ Goto("never")
          /\ gp' = [gp EXCEPT !.error = TRUE]
          /\ main' = "orphaning" /\ asked' = TRUE
    /\ UNCHANGED <<ui, rfi, orphan, fault, sessionVars, screenVars>>

\* remmina_rdp_main reads plugin-data and uses it without a test; the settings
\* of a remote assistance may be wrong.
Main ==
    /\ Running /\ pc = "main"
    /\ fault' = ~data
    /\ \/ Goto("tunnel")
       \/ data /\ Goto("again")
    /\ UNCHANGED <<ui, main, rfi, gp, asked, orphan, sessionVars, screenVars>>

\* remmina_rdp_tunnel_init: without a tunnel (it failed, or the user did not log
\* in to the SSH server, which is no error) nothing is read.
Tunnel ==
    /\ Running /\ pc = "tunnel"
    /\ \/ /\ Goto("again")
          /\ \E e \in BOOLEAN : gp' = [gp EXCEPT !.error = @ \/ e]
          /\ UNCHANGED fault
       \/ Goto("connecting") /\ fault' = ~data /\ UNCHANGED gp
    /\ UNCHANGED <<ui, main, rfi, asked, orphan, sessionVars, screenVars>>

\* freerdp_connect fails: wrong credentials, to be asked for again; a dialog
\* that the user cancelled; any other error.  An orphan does not look.
ConnectFails ==
    /\ Running /\ pc = "connecting"
    /\ Goto("again")
    /\ \/ ~data /\ UNCHANGED <<rfi, gp>>
       \/ data /\ rfi' = [rfi EXCEPT !.retry = TRUE] /\ UNCHANGED gp
       \/ data /\ rfi' = [rfi EXCEPT !.cancelled = TRUE] /\ UNCHANGED gp
       \/ data /\ gp' = [gp EXCEPT !.error = TRUE] /\ UNCHANGED rfi
    /\ UNCHANGED <<ui, main, asked, orphan, fault, sessionVars, screenVars>>

\* remmina_rdp_post_connect without GDI or H.264
PostConnectFails ==
    /\ Running /\ pc = "connecting"
    /\ Goto("again")
    /\ rfi' = [rfi EXCEPT !.retry = FALSE]
    /\ gp' = [gp EXCEPT !.error = @ \/ data]
    /\ UNCHANGED <<ui, main, asked, orphan, fault, sessionVars, screenVars>>

\* remmina_rdp_post_connect
PostConnect ==
    /\ Running /\ pc = "connecting"
    /\ rfi' = [rfi EXCEPT !.retry = FALSE, !.connected = TRUE]
    /\ buf' = 1
    /\ Ask("connected", FALSE, "posted")
    /\ UNCHANGED <<ui, main, gp, asked, orphan, fault, sessionVars, surf, midscale>>

\* What FreeRDP does after PostConnect may still fail; else the session is no
\* orphan, or it ends.
Posted ==
    /\ Running /\ pc = "posted"
    /\ \/ Goto("again") /\ gp' = [gp EXCEPT !.error = @ \/ data]
       \/ Goto(IF data /\ ~rfi.cancelled THEN "enter" ELSE "again") /\ UNCHANGED gp
    /\ UNCHANGED <<ui, main, rfi, asked, orphan, fault, sessionVars, screenVars>>

\* The beginning of remmina_rdp_main_loop
Enter ==
    /\ Running /\ pc = "enter"
    /\ fault' = ~data
    /\ Goto("loop")
    /\ UNCHANGED <<ui, main, rfi, gp, asked, orphan, sessionVars, screenVars>>

\* The loop of remmina_rdp_main_thread, and what follows it.
Again ==
    /\ Running /\ pc = "again"
    /\ IF ~gp.error /\ rfi.retry /\ ~rfi.cancelled
       THEN Goto("main") /\ UNCHANGED cleanup
       ELSE Goto("over") /\ cleanup' = TRUE
    /\ UNCHANGED <<ui, main, rfi, gp, asked, orphan, fault, data, closes, freed, screenVars>>

-----------------------------------------------------------------------------
(* The thread: connected.                                                  *)

\* The first half of a turn of remmina_rdp_main_loop: the server has ended the
\* session, or the local events are processed and one was a disconnection.
Loop ==
    /\ Running /\ pc = "loop"
    /\ \/ Goto("disconnect") /\ UNCHANGED rfi
       \/ /\ rfi' = [rfi EXCEPT !.abort = @ \/ rfi.event, !.event = FALSE]
          /\ Goto(IF rfi.abort \/ rfi.event THEN "disconnect" ELSE "check")
    /\ UNCHANGED <<ui, main, gp, asked, orphan, fault, sessionVars, screenVars>>

\* The second half, freerdp_check_event_handles: nothing, a paint (rf_end_paint,
\* bound: one in the queue), or the clipboard is to be announced to the server.
Check ==
    /\ Running /\ pc = "check"
    /\ \/ Goto("loop")
       \/ /\ \A i \in DOMAIN ui.queue : ui.queue[i].type # "update"
          /\ Ask("update", FALSE, "loop")
       \/ IF data /\ ~rfi.reconnecting THEN Ask("formats", TRUE, "loop") ELSE Goto("loop")
    /\ UNCHANGED <<ui, main, rfi, gp, asked, orphan, fault, sessionVars, screenVars>>

\* Mutant: the surface is not destroyed first.
Resize_KeepsSurface ==
    /\ Running /\ pc = "check" /\ buf \in 1 .. MaxResizes
    /\ Goto("resize")
    /\ UNCHANGED <<ui, main, rfi, gp, asked, orphan, fault, sessionVars, screenVars>>

\* rf_desktop_resize: the surface is destroyed by the main thread ...
Resize ==
    /\ Running /\ pc = "check" /\ buf \in 1 .. MaxResizes
    /\ Ask("destroy", TRUE, "resize")
    /\ UNCHANGED <<ui, main, rfi, gp, asked, orphan, fault, sessionVars, screenVars>>

\* ... gdi_resize frees the buffer, and the surface is created again.
GdiResize ==
    /\ Running /\ pc = "resize"
    /\ buf' = buf + 1
    /\ Ask("scale", TRUE, "loop")
    /\ UNCHANGED <<ui, main, rfi, gp, asked, orphan, fault, sessionVars, surf, midscale>>

\* The network fails (bound: no progress of an earlier failure in the queue).
NetworkLost ==
    /\ Running /\ pc = "check"
    /\ \A i \in DOMAIN ui.queue : ui.queue[i].type # "progress"
    /\ rfi' = [rfi EXCEPT !.reconnecting = TRUE]
    /\ Goto("lost")
    /\ UNCHANGED <<ui, main, gp, asked, orphan, fault, sessionVars, screenVars>>

\* rf_auto_reconnect: only some errors, and only if the profile says so.
Lost ==
    /\ Running /\ pc = "lost"
    /\ \/ /\ rfi' = [rfi EXCEPT !.stop = FALSE, !.attempts = 0]
          /\ Ask("progress", FALSE, "try")
       \/ /\ rfi' = [rfi EXCEPT !.stop = FALSE, !.attempts = 0, !.reconnecting = FALSE]
          /\ Goto("disconnect")
    /\ UNCHANGED <<ui, main, gp, asked, orphan, fault, sessionVars, screenVars>>

\* Mutants: the loop ends only for both reasons; the attempts are not counted.
Try_Both ==
    /\ Running /\ pc = "try"
    /\ IF rfi.attempts >= MaxAttempts /\ rfi.stop
       THEN /\ rfi' = [rfi EXCEPT !.attempts = @ + 1, !.reconnecting = FALSE]
            /\ Goto("disconnect")
       ELSE /\ rfi' = [rfi EXCEPT !.attempts = @ + 1]
            /\ Ask("progress", FALSE, "attempt")
    /\ UNCHANGED <<ui, main, gp, asked, orphan, fault, sessionVars, screenVars>>

Try_Forever ==
    /\ Running /\ pc = "try"
    /\ Ask("progress", FALSE, "attempt")
    /\ UNCHANGED <<ui, main, rfi, gp, asked, orphan, fault, sessionVars, screenVars>>

\* The limit of attempts and the flag of the user are read before each attempt.
Try ==
    /\ Running /\ pc = "try"
    /\ IF rfi.attempts >= MaxAttempts \/ rfi.stop
       THEN /\ rfi' = [rfi EXCEPT !.attempts = @ + 1, !.reconnecting = FALSE]
            /\ Goto("disconnect")
       ELSE /\ rfi' = [rfi EXCEPT !.attempts = @ + 1]
            /\ Ask("progress", FALSE, "attempt")
    /\ UNCHANGED <<ui, main, gp, asked, orphan, fault, sessionVars, screenVars>>

\* The tunnel and freerdp_reconnect.  Success forgets that the user asked for
\* the end, unless the event of the request is still queued.
Attempt ==
    /\ Running /\ pc = "attempt"
    /\ \/ Goto("try") /\ UNCHANGED <<rfi, gp, asked, fault>>
       \/ /\ Goto("loop")
          /\ fault' = ~data
          /\ rfi' = [rfi EXCEPT !.reconnecting = FALSE]
          /\ gp' = [gp EXCEPT !.error = FALSE]
          /\ asked' = (asked /\ rfi.event)
    /\ UNCHANGED <<ui, main, orphan, sessionVars, screenVars>>

\* freerdp_disconnect
Disconnect ==
    /\ Running /\ pc = "disconnect"
    /\ Goto("again")
    /\ UNCHANGED <<ui, main, rfi, gp, asked, orphan, fault, sessionVars, screenVars>>

Thread ==
    \/ Post \/ Push \/ Wake
    \/ Main \/ Tunnel \/ ConnectFails \/ PostConnectFails \/ PostConnect
    \/ Posted \/ Enter \/ Again
    \/ Loop \/ Check \/ Resize \/ GdiResize
    \/ NetworkLost \/ Lost \/ Try \/ Attempt \/ Disconnect

-----------------------------------------------------------------------------
(* The main thread.                                                        *)

\* It dispatches events: in its loop, or in the one that waits for the owner of
\* the clipboard (gtk_clipboard_wait_for_targets).
Dispatching == main = "loop" /\ ui.serving.type \in {"none", "formats"}

\* remmina_rdp_event_process_ui_queue: the next object, or none is left and the
\* source goes.
Serve ==
    /\ Running /\ main = "loop" /\ ui.serving = NoUi /\ ui.handler
    /\ fault' = ~data
    /\ ui' = IF ui.queue = <<>>
             THEN [ui EXCEPT !.handler = FALSE]
             ELSE [ui EXCEPT !.queue = Tail(@), !.serving = Head(ui.queue)]
    /\ UNCHANGED <<pc, req, main, rfi, gp, asked, orphan, sessionVars, screenVars>>

\* Mutant: the waiting thread is not told.
Served_Silent ==
    /\ Running /\ main = "loop" /\ ui.serving # NoUi
    /\ ui' = [ui EXCEPT !.serving = NoUi]
    /\ surf' = CASE ui.serving.type \in {"connected", "scale"} -> buf
                 [] ui.serving.type = "destroy" -> 0
                 [] OTHER -> surf
    /\ fault' = (ui.serving.type = "destroy" /\ surf = 0)
    /\ gp' = [gp EXCEPT !.opened = @ \/ ui.serving.type = "connected"]
    /\ UNCHANGED <<pc, req, main, rfi, asked, orphan, sessionVars, buf, midscale>>

\* remmina_rdp_event_process_ui_event has returned; a destroyed surface is used
\* without a test.
Served ==
    /\ Running /\ main = "loop" /\ ui.serving # NoUi
    /\ ui' = [ui EXCEPT !.serving = NoUi, !.answered = ui.serving.sync]
    /\ surf' = CASE ui.serving.type \in {"connected", "scale"} -> buf
                 [] ui.serving.type = "destroy" -> 0
                 [] OTHER -> surf
    /\ fault' = (ui.serving.type = "destroy" /\ surf = 0)
    /\ gp' = [gp EXCEPT !.opened = @ \/ ui.serving.type = "connected"]
    /\ UNCHANGED <<pc, req, main, rfi, asked, orphan, sessionVars, buf, midscale>>

Resizing == pc = "resize" \/ (pc = "waiting" /\ req.next = "resize" /\ ui.answered)

\* The user changes the scale: remmina_rdp_event_update_scale.
Scale ==
    /\ Running /\ Dispatching /\ data /\ gp.opened
    /\ surf # buf
    /\ surf' = buf
    /\ midscale' = (midscale \/ Resizing)
    /\ UNCHANGED <<pc, req, ui, main, rfi, gp, asked, orphan, fault, sessionVars, buf>>

\* remmina_rdp_close_connection: the flags are read ...
Close ==
    /\ Running /\ Dispatching /\ closes = 0 /\ pc # "new"
    /\ asked' = TRUE
    /\ main' = CASE ~rfi.connected -> "orphaning"
                 [] rfi.connected /\ ~rfi.reconnecting -> "pushing"
                 [] OTHER -> "loop"
    /\ rfi' = [rfi EXCEPT !.stop = @ \/ (rfi.connected /\ rfi.reconnecting)]
    /\ UNCHANGED <<pc, req, ui, gp, orphan, fault, sessionVars, screenVars>>

\* remmina_rdp_event_uninit
Uninit ==
    /\ ui' = [ui EXCEPT !.queue = <<>>, !.handler = FALSE, !.live = FALSE]
    /\ surf' = 0

\* Mutant: the session is freed at once.
Orphan_Frees ==
    /\ Running /\ main = "orphaning"
    /\ main' = "loop"
    /\ Uninit
    /\ data' = FALSE
    /\ closes' = closes + 1 /\ freed' = freed + 1
    /\ rfi' = [rfi EXCEPT !.event = FALSE]
    /\ orphan' = TRUE
    /\ UNCHANGED <<pc, req, gp, asked, fault, cleanup, buf, midscale>>

\* ... the session that was not connected is abandoned ...
Orphan ==
    /\ Running /\ main = "orphaning"
    /\ main' = "loop"
    /\ Uninit
    /\ data' = FALSE
    /\ closes' = closes + 1
    /\ rfi' = [rfi EXCEPT !.event = FALSE]
    /\ orphan' = TRUE
    /\ UNCHANGED <<pc, req, gp, asked, fault, cleanup, freed, buf, midscale>>

\* ... and to the other an event is sent, if it is not reconnecting by now.
PushDisconnect ==
    /\ Running /\ main = "pushing"
    /\ main' = "loop"
    /\ rfi' = [rfi EXCEPT !.event = @ \/ (data /\ rfi.connected /\ ~rfi.reconnecting)]
    /\ UNCHANGED <<pc, req, ui, gp, asked, orphan, fault, sessionVars, screenVars>>

\* Mutants: an orphan is closed again; the sources of the session are left.
Cleanup_AlwaysSignals ==
    /\ Running /\ Dispatching /\ cleanup
    /\ cleanup' = FALSE /\ freed' = freed + 1
    /\ IF data THEN Uninit ELSE UNCHANGED <<ui, surf>>
    /\ data' = FALSE
    /\ closes' = closes + 1
    /\ buf' = 0
    /\ UNCHANGED <<pc, req, main, rfi, gp, asked, orphan, fault, midscale>>

Cleanup_NoUninit ==
    /\ Running /\ Dispatching /\ cleanup
    /\ cleanup' = FALSE /\ freed' = freed + 1
    /\ closes' = IF data THEN closes + 1 ELSE closes
    /\ data' = FALSE
    /\ surf' = 0 /\ buf' = 0
    /\ UNCHANGED <<pc, req, ui, main, rfi, gp, asked, orphan, fault, midscale>>

\* complete_cleanup_on_main_thread and rfi_uninit
Cleanup ==
    /\ Running /\ Dispatching /\ cleanup
    /\ cleanup' = FALSE /\ freed' = freed + 1
    /\ IF data THEN Uninit ELSE UNCHANGED <<ui, surf>>
    /\ closes' = IF data THEN closes + 1 ELSE closes
    /\ data' = FALSE
    /\ buf' = 0
    /\ UNCHANGED <<pc, req, main, rfi, gp, asked, orphan, fault, midscale>>

MainThread == Serve \/ Served \/ Orphan \/ PushDisconnect \/ Cleanup

User == Open \/ Close \/ Scale

Next == Thread \/ MainThread \/ User

Spec == Init /\ [][Next]_vars

\* Both threads run; what FreeRDP and the server are asked for comes to an end;
\* the user does not click so fast that no idle source is ever dispatched, nor a
\* wait for the clipboard ever over.
FairSpec ==
    /\ Spec
    /\ WF_vars(Thread) /\ WF_vars(MainThread)
    /\ SF_vars(Serve) /\ SF_vars(Served) /\ SF_vars(Cleanup)

-----------------------------------------------------------------------------
(* Properties.                                                             *)

\* The session keeps the promise of a plugin: it signals once that it is open and
\* once that it is over, by the close of the user or by the clean-up, whoever
\* comes first, and never in the wrong order.
Promise == INSTANCE PluginSession WITH started <- pc # "new", opened <- gp.opened

KeepsPromise == Promise!Spec

\* rfi is freed once, after its thread has ended, and nothing leads to it then.
FreedLast == freed > 0 => freed = 1 /\ pc = "over" /\ ~cleanup /\ ~data

\* No thread follows a pointer to a session that is gone, nor finds the surface
\* gone, unless the session was abandoned while it was connecting.
FaultNeedsOrphan == fault => orphan

\* The window never shows a buffer that libfreerdp has freed, unless the user
\* changed the scale in the middle of a resize.
SurfaceFresh == surf # 0 => surf = buf \/ midscale

\* A request to close ends the session, or is forgotten by a reconnection that
\* succeeds.
CloseEnds == asked ~> ~asked \/ closes > 0 \/ fault

\* The main thread answers the thread that waits for it, unless the session was
\* abandoned while it was connecting: its queue is emptied, answers or not.
SyncAnswered == pc = "waiting" ~> pc # "waiting" \/ fault \/ orphan

-----------------------------------------------------------------------------
(* The inductive invariant.                                                *)

Asking == pc \in {"post", "push", "waiting"}

\* The session is connected, and its thread in the loop or on the way to it.
Up == pc \in {"posted", "enter", "loop", "check", "resize", "lost", "try", "attempt"} \/ Asking

\* The thread that waits has its answer.
Answered == pc = "waiting" /\ ui.answered

\* Where the thread goes on after its request, and what it asks for
ReqInv ==
    Asking =>
        /\ req.ui # NoUi /\ req.next \in {"posted", "loop", "resize", "try", "attempt"}
        /\ (req.next = "posted") = (req.ui.type = "connected")
        /\ (req.next = "resize") = (req.ui.type = "destroy")
        /\ pc = "waiting" => req.ui.sync

\* A session is connected once, and reconnects from there.
PhaseInv ==
    /\ Up => rfi.connected
    /\ rfi.connected => ~rfi.retry
    /\ rfi.connected => pc \notin {"new", "never", "main", "tunnel", "connecting"}
    /\ rfi.attempts > 0 => rfi.connected
    /\ rfi.attempts > MaxAttempts => pc \in {"disconnect", "again", "over"}
    /\ pc = "resize" \/ (Asking /\ req.next = "resize") => buf <= MaxResizes

\* The protocol widget has the session, or was told of its end.
LifeInv ==
    /\ (data <=> closes = 0) /\ closes <= 1 /\ freed <= 1
    /\ orphan => ~data
    /\ ~data => orphan \/ freed = 1
    /\ cleanup => pc = "over" /\ freed = 0
    /\ freed = 1 => pc = "over" /\ ~data
    /\ main = "orphaning" => data /\ pc # "new"
    /\ pc = "new" => data /\ ~gp.opened

\* The queue lives as long as the widget has the session.
HandlerInv ==
    /\ ~data /\ ~orphan => ~ui.handler
    /\ ~ui.live => ~data
    /\ ui.serving.type \notin {"none", "formats"} => main = "loop" /\ (data \/ fault)

\* "connected" is the first object of all; the thread that waits has queued the
\* last one, and nothing is left when it has the answer.
QueueInv ==
    /\ \A i \in DOMAIN ui.queue :
          /\ ui.queue[i].type = "connected" => i = 1 /\ ui.serving = NoUi
          /\ ui.queue[i].sync => i = Len(ui.queue) /\ pc = "waiting" /\ ui.queue[i] = req.ui
    /\ ui.serving.sync => ui.queue = <<>> /\ pc = "waiting" /\ ui.serving = req.ui
    /\ Answered \/ (pc = "resize" /\ data) \/ ~rfi.connected
          \/ (Asking /\ req.next = "posted")
          => ui.queue = <<>> /\ ui.serving = NoUi

\* "connected" is still to be served, or not even queued.
Coming ==
    \/ \E i \in DOMAIN ui.queue : ui.queue[i].type = "connected"
    \/ ui.serving.type = "connected"
    \/ Asking /\ req.next = "posted"

\* Between the destruction of the surface and its creation
Between ==
    \/ Resizing
    \/ Asking /\ req.ui.type = "scale" /\ ~Answered

\* The surface is that of the buffer, but for a resize and the beginning.
ScreenInv ==
    /\ surf # 0 => surf = buf \/ midscale
    /\ ~data \/ ~rfi.connected => surf = 0
    /\ ~rfi.connected => buf = 0
    /\ Resizing => surf = 0 \/ midscale
    /\ data /\ Up => buf # 0 /\ (surf # 0 \/ Coming \/ Between)

IInv ==
    /\ TypeOK /\ ReqInv /\ PhaseInv /\ LifeInv
    /\ HandlerInv /\ QueueInv /\ ScreenInv /\ FaultNeedsOrphan
=============================================================================
