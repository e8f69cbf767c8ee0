------------------------------ MODULE X2GoSession ------------------------------
(***************************************************************************)
(* A session of the X2Go plugin (plugins/x2go/x2go_plugin.c).  The thread  *)
(* of the session asks pyhoca-cli for the sessions of the server, has the  *)
(* main thread open a dialog in which the user chooses one, starts         *)
(* pyhoca-cli, waits for a window of the agent and has it embedded.  From  *)
(* the dialog the user may also terminate sessions, each in a thread of    *)
(* its own that goes on using the dialog.  The main thread cleans up when  *)
(* the user closes, when the thread has failed, when pyhoca-cli ends and   *)
(* when the embedded window goes.                                          *)
(***************************************************************************)
EXTENDS Naturals, FiniteSets

CONSTANT N          \* bound: sessions of the server, rows of the dialog

Rows == 1 .. N      \* a row of the list; 0: no row

VARIABLES
    pc,         \* where the thread of the session is
    data,       \* the fields of the plugin data
    dlg,        \* the dialog and the custom_data its callbacks share
    term,       \* threads that terminate a session: to start, rows they work on
    child,      \* pyhoca-cli
    embed,      \* the source that embeds the window, and whether one is embedded
    main,       \* the main thread: in its loop or in the clean-up
    idle,       \* the clean-up that the thread has queued
    gp,         \* the protocol widget: error, opened, closes
    hist,       \* history: see below
    fault       \* the program used what it had freed, or no thread at all

vars == <<pc, data, dlg, term, child, embed, main, idle, gp, hist, fault>>

TypeOK ==
    /\ pc \in {"new", "start", "auth", "phrase", "list", "asking", "choose", "spawn", "watch",
               "monitor", "found", "embed", "over", "fail", "failed", "add", "refused",
               "done", "dead"}
    /\ data \in [thread : BOOLEAN, cancelled : BOOLEAN, pid : BOOLEAN, watch : BOOLEAN,
                 display : BOOLEAN, window : BOOLEAN, live : BOOLEAN]
    /\ dlg \in [open : {"none", "queued", "open", "gone"}, hidden : SUBSET Rows,
                sel : 0 .. N, opt1 : 0 .. N + 1, connect : BOOLEAN,
                selected : BOOLEAN, resume : 0 .. N, meant : 0 .. N]
    /\ term \in [start : 0 .. 1, run : SUBSET Rows]
    /\ child \in {"none", "running", "exited", "reaped"}
    /\ embed \in [source : {"none", "queued", "served", "stale"}, plugged : BOOLEAN]
    /\ main \in {"loop", "tested", "cancelled", "joining", "hung"}
    /\ idle \in BOOLEAN
    /\ gp \in [error : BOOLEAN, opened : BOOLEAN, closes : 0 .. 2]
    /\ hist \in [raced : BOOLEAN, late : BOOLEAN, term : BOOLEAN]
    /\ fault \in BOOLEAN

\* rmplugin_x2go_init.  hist.raced: the thread wrote its end into the plugin data while
\* the clean-up looked at it.  hist.late: the embedded window went after the clean-up.
\* hist.term: the user asked to terminate a session.
Init ==
    /\ pc = "new"
    /\ data = [thread |-> FALSE, cancelled |-> FALSE, pid |-> FALSE, watch |-> FALSE,
               display |-> FALSE, window |-> FALSE, live |-> TRUE]
    /\ dlg = [open |-> "none", hidden |-> {}, sel |-> 0, opt1 |-> 0, connect |-> TRUE,
              selected |-> FALSE, resume |-> 0, meant |-> 0]
    /\ term = [start |-> 0, run |-> {}]
    /\ child = "none"
    /\ embed = [source |-> "none", plugged |-> FALSE]
    /\ main = "loop" /\ idle = FALSE
    /\ gp = [error |-> FALSE, opened |-> FALSE, closes |-> 0]
    /\ hist = [raced |-> FALSE, late |-> FALSE, term |-> FALSE]
    /\ fault = FALSE

MainFree == ~fault /\ main = "loop" /\ pc # "refused"

-----------------------------------------------------------------------------
(* The rows of the dialog.  The view shows a filter over the list, and a   *)
(* path is an index into one of the two.                                   *)

Visible == Rows \ dlg.hidden

\* Mutant: paths begin at the row before.
FilterPath_Off(r) == IF r \in Visible THEN Cardinality({q \in Visible : q < r}) ELSE 0

\* The path in the filter of a row of the list.
FilterPath(r) == IF r \in Visible THEN Cardinality({q \in Visible : q <= r}) ELSE 0

\* rmplugin_x2go_session_chooser_get_selected_row takes the path in the filter that the
\* selection has for a path in the list and converts it, and its callers look the result
\* up in the list.
SelectedRow == IF dlg.sel = 0 THEN 0 ELSE FilterPath(FilterPath(dlg.sel))

-----------------------------------------------------------------------------
(* The cleaning up, on the main thread.                                    *)

\* rmplugin_x2go_cleanup, after the join
Finish ==
    /\ main' = "loop"
    /\ data' = [data EXCEPT !.window = FALSE, !.pid = FALSE, !.display = FALSE, !.live = FALSE]
    /\ gp' = [gp EXCEPT !.closes = IF @ < 2 THEN @ + 1 ELSE @]

\* Mutant: the plugin data is not tested.
cleanup_Untested ==
    IF data.thread
    THEN main' = "tested" /\ UNCHANGED <<data, gp>>
    ELSE Finish

\* rmplugin_x2go_cleanup, up to the first test of the thread
cleanup ==
    IF ~data.live
    THEN UNCHANGED <<main, data, gp>>
    ELSE IF data.thread
         THEN main' = "tested" /\ UNCHANGED <<data, gp>>
         ELSE Finish

\* pthread_cancel reads the thread again ...
Cancel ==
    /\ ~fault /\ main = "tested"
    /\ main' = "cancelled"
    /\ data' = [data EXCEPT !.cancelled = data.thread]
    /\ \/ fault' = ~data.thread
       \/ fault' = FALSE
    /\ hist' = [hist EXCEPT !.raced = @ \/ ~data.thread]
    /\ UNCHANGED <<pc, dlg, term, child, embed, idle, gp>>

\* ... and the thread is joined only if it is still there.
Test ==
    /\ ~fault /\ main = "cancelled"
    /\ IF data.thread
       THEN main' = "joining" /\ UNCHANGED <<data, gp, hist>>
       ELSE Finish /\ hist' = [hist EXCEPT !.raced = TRUE]
    /\ UNCHANGED <<pc, dlg, term, child, embed, idle, fault>>

Join ==
    /\ ~fault /\ main = "joining" /\ pc \in {"done", "dead"}
    /\ Finish
    /\ UNCHANGED <<pc, dlg, term, child, embed, idle, hist, fault>>

\* The cancellation reaches the thread anywhere (between two requests of X11 in the
\* monitor); its request to embed the window is dropped.  In g_idle_add it may take the
\* lock of the main loop with it.
Die ==
    /\ ~fault /\ data.cancelled /\ pc \notin {"done", "dead"}
    /\ pc' = "dead"
    /\ embed' = [embed EXCEPT !.source = IF @ = "queued" THEN "stale" ELSE "none"]
    /\ \/ UNCHANGED main
       \/ pc \in {"asking", "found", "add"} /\ main' = "hung"
    /\ UNCHANGED <<data, dlg, term, child, idle, gp, hist, fault>>

\* rmplugin_x2go_close_connection looks into the plugin data without a test.
close_connection ==
    IF data.live
    THEN cleanup /\ UNCHANGED fault
    ELSE fault' = TRUE /\ UNCHANGED <<main, data, gp>>

\* remmina_protocol_widget_close_connection: the user closes
CloseRequest ==
    /\ MainFree /\ pc # "new" /\ gp.closes = 0
    /\ close_connection
    /\ UNCHANGED <<pc, dlg, term, child, embed, idle, hist>>

\* The clean-up that the thread has queued.
QueuedCleanup ==
    /\ MainFree /\ idle
    /\ idle' = FALSE
    /\ cleanup
    /\ UNCHANGED <<pc, dlg, term, child, embed, hist, fault>>

\* rmplugin_x2go_pyhoca_cli_exited: once for a child that is watched
pyhoca_cli_exited ==
    /\ MainFree /\ child = "exited" /\ data.watch
    /\ child' = "reaped"
    /\ IF data.live /\ data.pid
       THEN close_connection
       ELSE UNCHANGED <<main, data, gp, fault>>
    /\ UNCHANGED <<pc, dlg, term, embed, idle, hist>>

\* rmplugin_x2go_on_plug_removed: the window of the agent has gone
on_plug_removed ==
    /\ MainFree /\ embed.plugged
    /\ embed' = [embed EXCEPT !.plugged = FALSE]
    /\ hist' = [hist EXCEPT !.late = @ \/ ~data.live]
    /\ close_connection
    /\ UNCHANGED <<pc, dlg, term, child, idle>>

\* pyhoca-cli ends, by itself or because the clean-up has told it to.
Exit ==
    /\ ~fault /\ child = "running"
    /\ child' = "exited"
    /\ UNCHANGED <<pc, data, dlg, term, embed, main, idle, gp, hist, fault>>

-----------------------------------------------------------------------------
(* The thread.                                                             *)

\* rmplugin_x2go_open_connection.  Without GtkSocket or without a thread the protocol
\* widget closes at once.
open_connection ==
    /\ MainFree /\ pc = "new"
    /\ \/ /\ pc' = "start"
          /\ data' = [data EXCEPT !.thread = TRUE]
          /\ UNCHANGED <<main, gp>>
       \/ /\ pc' = "refused"
          /\ gp' = [gp EXCEPT !.error = TRUE]
          /\ UNCHANGED <<data, main>>
    /\ UNCHANGED <<dlg, term, child, embed, idle, hist, fault>>

Refused ==
    /\ pc = "refused" /\ pc' = "done"
    /\ close_connection
    /\ UNCHANGED <<dlg, term, child, embed, idle, hist>>

Step(from, to) == ~fault /\ pc = from /\ pc' \in to

\* rmplugin_x2go_start_session: no server, or start_create_notify
Start ==
    /\ Step("start", {"auth", "phrase", "list", "fail"})
    /\ data' = [data EXCEPT !.display = pc' # "fail"]
    /\ UNCHANGED <<dlg, term, child, embed, main, idle, gp, hist, fault>>

\* rmplugin_x2go_get_auth, then get_ssh_passphrase: panels that the user answers
Asked ==
    /\ main = "loop"
    /\ Step("auth", {"phrase", "list", "fail"}) \/ Step("phrase", {"list", "fail"})
    /\ UNCHANGED <<data, dlg, term, child, embed, main, idle, gp, hist, fault>>

\* rmplugin_x2go_parse_pyhoca_sessions: no list, then a new session is made
List ==
    /\ Step("list", {"asking", "spawn"})
    /\ UNCHANGED <<data, dlg, term, child, embed, main, idle, gp, hist, fault>>

\* rmplugin_x2go_ask_session: the dialog is queued ...
Ask ==
    /\ Step("asking", {"choose"})
    /\ dlg' = [dlg EXCEPT !.open = "queued"]
    /\ UNCHANGED <<data, term, child, embed, main, idle, gp, hist, fault>>

\* ... and looked for every half second, without end.
Chosen ==
    /\ dlg.selected
    /\ Step("choose", {"spawn"})
    /\ UNCHANGED <<data, dlg, term, child, embed, main, idle, gp, hist, fault>>

\* rmplugin_x2go_exec_x2go: pyhoca-cli is started ...
Spawn ==
    /\ Step("spawn", {"watch", "fail"})
    /\ data' = [data EXCEPT !.pid = pc' = "watch"]
    /\ child' = IF pc' = "watch" THEN "running" ELSE child
    /\ UNCHANGED <<dlg, term, embed, main, idle, gp, hist, fault>>

\* ... and watched.
Watch ==
    /\ Step("watch", {"monitor"})
    /\ data' = [data EXCEPT !.watch = TRUE]
    /\ UNCHANGED <<dlg, term, child, embed, main, idle, gp, hist, fault>>

\* rmplugin_x2go_monitor_create_notify: a window, none in time, or no atom (then the
\* display stays open)
Monitor ==
    /\ Step("monitor", {"found", "fail"})
    /\ \/ data' = [data EXCEPT !.window = pc' = "found", !.display = FALSE]
       \/ pc' = "fail" /\ UNCHANGED data
    /\ UNCHANGED <<dlg, term, child, embed, main, idle, gp, hist, fault>>

\* onMainThread_schedule_callback_and_wait
Embed ==
    /\ \/ /\ Step("found", {"embed"})
          /\ embed' = [embed EXCEPT !.source = "queued"]
       \/ /\ embed.source = "served" /\ Step("embed", {"over"})
          /\ embed' = [embed EXCEPT !.source = "none"]
    /\ UNCHANGED <<data, dlg, term, child, main, idle, gp, hist, fault>>

\* rmplugin_x2go_start_session sets the error ...
Fail ==
    /\ Step("fail", {"failed"})
    /\ gp' = [gp EXCEPT !.error = TRUE]
    /\ UNCHANGED <<data, dlg, term, child, embed, main, idle, hist, fault>>

\* ... rmplugin_x2go_main forgets the thread ...
Over ==
    /\ Step("over", {"done"}) \/ Step("failed", {"add"})
    /\ data' = [data EXCEPT !.thread = FALSE]
    /\ UNCHANGED <<dlg, term, child, embed, main, idle, gp, hist, fault>>

\* ... and rmplugin_x2go_main_thread queues the clean-up.
AddCleanup ==
    /\ Step("add", {"done"})
    /\ idle' = TRUE
    /\ UNCHANGED <<data, dlg, term, child, embed, main, gp, hist, fault>>

\* onMainThread_cb: the window is embedded, if it is still there, and on_plug_added tells
\* that the connection is open.
AddId ==
    /\ MainFree /\ embed.source \in {"queued", "stale"}
    /\ IF embed.source = "stale"
       THEN embed' = [embed EXCEPT !.source = "none"] /\ UNCHANGED gp
       ELSE \E there \in BOOLEAN :
                /\ embed' = [source |-> "served", plugged |-> there]
                /\ gp' = [gp EXCEPT !.opened = there]
    /\ UNCHANGED <<pc, data, dlg, term, child, main, idle, hist, fault>>

-----------------------------------------------------------------------------
(* The dialog, on the main thread, and the threads it starts.              *)

Keep == UNCHANGED <<pc, data, child, embed, main, idle, gp>>

\* rmplugin_x2go_open_dialog and choose_session_dialog_factory
OpenDialog ==
    /\ MainFree /\ dlg.open = "queued"
    /\ dlg' = [dlg EXCEPT !.open = "open", !.opt1 = N + 1]
    /\ Keep /\ UNCHANGED <<term, hist, fault>>

SelectRow ==
    /\ MainFree /\ dlg.open = "open"
    /\ \E r \in Visible \ {dlg.sel} : dlg' = [dlg EXCEPT !.sel = r]
    /\ Keep /\ UNCHANGED <<term, hist, fault>>

Responds == MainFree /\ dlg.open = "open" /\ dlg.connect

Answered(row) ==
    dlg' = [dlg EXCEPT !.open = "gone", !.selected = TRUE, !.resume = row, !.meant = IF row = 0 THEN 0 ELSE dlg.sel]

\* The response NEW of rmplugin_x2go_session_chooser_callback
New ==
    /\ Responds
    /\ Answered(0)
    /\ Keep /\ UNCHANGED <<term, hist, fault>>

\* The response CHOOSE: nothing happens when no row is found.
Choose ==
    /\ Responds /\ SelectedRow # 0
    /\ Answered(SelectedRow)
    /\ Keep /\ UNCHANGED <<term, hist, fault>>

\* The dialog is closed.  The response counts only with a row.
Dismiss ==
    /\ MainFree /\ dlg.open = "open"
    /\ IF dlg.connect /\ SelectedRow # 0
       THEN Answered(0)
       ELSE dlg' = [dlg EXCEPT !.open = "gone"]
    /\ Keep /\ UNCHANGED <<term, hist, fault>>

\* rmplugin_x2go_session_chooser_row_activated finds the dialog in opt1, where TERMINATE
\* puts a path.
RowActivated ==
    /\ MainFree /\ dlg.open = "open" /\ dlg.sel # 0 /\ dlg.opt1 # 0
    /\ IF dlg.opt1 = N + 1
       THEN /\ dlg' = [dlg EXCEPT !.open = "gone", !.selected = TRUE, !.meant = dlg.sel,
                                  !.resume = dlg.sel]
            /\ UNCHANGED fault
       ELSE fault' = TRUE /\ UNCHANGED dlg
    /\ Keep /\ UNCHANGED <<term, hist>>

\* The response TERMINATE: the row is hidden, its session is one to resume until the next
\* response, and a thread starts.  Bound: one thread that has not read custom_data yet.
Terminate ==
    /\ Responds /\ SelectedRow # 0 /\ term.start = 0
    /\ term' = [term EXCEPT !.start = 1]
    /\ dlg' = [dlg EXCEPT !.resume = SelectedRow, !.opt1 = SelectedRow,
                          !.hidden = @ \cup {SelectedRow},
                          !.sel = IF @ = SelectedRow THEN 0 ELSE @]
    /\ hist' = [hist EXCEPT !.term = TRUE]
    /\ Keep /\ UNCHANGED fault

\* rmplugin_x2go_pyhoca_terminate_session reads custom_data, the plugin data and the
\* dialog, whatever has become of them ...
TerminateStarts ==
    /\ ~fault /\ term.start = 1
    /\ IF dlg.connect /\ dlg.opt1 \in Rows
       THEN /\ fault' = (~data.live \/ dlg.open = "gone")
            /\ term' = [start |-> 0, run |-> term.run \cup {dlg.opt1}]
       ELSE term' = [term EXCEPT !.start = 0] /\ UNCHANGED fault
    /\ Keep /\ UNCHANGED <<dlg, hist>>

\* ... waits for pyhoca-cli, and when that has failed shows the row again and leaves
\* custom_data without what the callbacks look for.
TerminateEnds ==
    /\ ~fault
    /\ \E r \in term.run :
           /\ term' = [term EXCEPT !.run = @ \ {r}]
           /\ \/ UNCHANGED <<dlg, fault>>
              \/ /\ fault' = (dlg.open = "gone")
                 /\ dlg' = [dlg EXCEPT !.hidden = @ \ {r}, !.opt1 = 0, !.connect = FALSE]
    /\ Keep /\ UNCHANGED hist

-----------------------------------------------------------------------------

ThreadStep ==
    \/ Start \/ Asked \/ List \/ Ask \/ Chosen \/ Spawn \/ Watch \/ Embed \/ Fail \/ Over
    \/ AddCleanup

CleanUpStep == Cancel \/ Test \/ Join \/ Refused

Dialog == OpenDialog \/ SelectRow \/ New \/ Choose \/ Dismiss \/ RowActivated \/ Terminate

Next ==
    \/ open_connection \/ ThreadStep \/ Monitor \/ CleanUpStep \/ Die \/ CloseRequest
    \/ QueuedCleanup \/ pyhoca_cli_exited \/ on_plug_removed \/ Exit \/ AddId
    \/ Dialog \/ TerminateStarts \/ TerminateEnds

\* The thread goes on while it does not wait for a window, a cancelled thread dies, the
\* main loop comes to its sources.
Fairness ==
    /\ WF_vars(ThreadStep) /\ WF_vars(CleanUpStep) /\ WF_vars(Die)
    /\ SF_vars(QueuedCleanup) /\ SF_vars(AddId) /\ SF_vars(pyhoca_cli_exited)

Spec == Init /\ [][Next]_vars /\ Fairness

-----------------------------------------------------------------------------

Promise == INSTANCE PluginSession WITH
    started <- pc # "new",
    opened <- gp.opened,
    closes <- gp.closes

\* The session tells the protocol widget at most once that it is open, then at most once
\* that it is over, though four events clean up: a close of the user, a failed thread,
\* the end of pyhoca-cli and the end of the embedded window.
KeepsPromise == Promise!Spec

\* What is used after its end is one of three: the window of the agent goes after the
\* clean-up, the thread ends between two looks of the clean-up at it, or a session was
\* terminated from the dialog.
FaultKnown == fault => hist.late \/ hist.raced \/ hist.term

\* A clean-up that has begun ends the connection, unless the cancelled thread took the
\* lock of the main loop with it; so does a thread that fails, and a pyhoca-cli that ends.
CloseAsked == main = "tested" \/ pc = "failed" \/ (child = "exited" /\ data.watch)
IsOver == gp.closes > 0 \/ main = "hung" \/ fault
CloseEnds == CloseAsked ~> IsOver

\* The session that is resumed is the one whose row the user chose, as long as no session
\* was terminated from the dialog.
ResumesChosen == dlg.selected /\ ~hist.term => dlg.resume = dlg.meant

\* The same, always.
ResumesMeant == dlg.selected => dlg.resume = dlg.meant
=============================================================================
