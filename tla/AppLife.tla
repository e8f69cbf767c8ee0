------------------------------- MODULE AppLife -------------------------------
(***************************************************************************)
(* When the program ends (src/remmina_exec.c, remmina_widget_pool.c, the   *)
(* end of the main window in remmina_main.c, the status icon of            *)
(* remmina_icon.c): it goes on without windows, held by its application,   *)
(* until one of three events finds that nothing of interest is left.       *)
(* Deleting the main window takes two idle sources, questions run loops of *)
(* their own, and the pool is walked over a copy without references.       *)
(***************************************************************************)
EXTENDS Naturals, Sequences, FiniteSets

CONSTANTS
    Windows,        \* connection windows, each with its last connection
    MaxLoops        \* bound of the loops in which the user quits again

VARIABLES
    main,           \* the main window: "half" when the window is gone and its struct is not
    pool,           \* remmina_widget_pool
    conn,           \* the connection of each window
    idles,          \* the idle sources
    tray,           \* the status icon
    kiosk, asks,    \* kiosk mode, confirm_close of the preferences
    noask,          \* the windows with RCW_ONDELETE_NOCONFIRM
    loops,          \* the questions and the exits in progress, the newest last
    quit,           \* g_application_quit was called
    hist,           \* history: why the program may be out of reach, what an exit missed
    fault           \* a window that was freed is used

vars == <<main, pool, conn, idles, tray, kiosk, asks, noask, loops, quit, hist, fault>>

Pooled == Windows \cup {"main", "dialog"}
Ended(w) == [kind |-> "ended", w |-> w]
Source(k) == [kind |-> k, w |-> ""]

TypeOK ==
    /\ main \in {"none", "open", "deleting", "half"} /\ pool \subseteq Pooled
    /\ conn \in [Windows -> {"none", "open", "closing", "ended", "gone"}]
    /\ \A i \in DOMAIN idles : \/ idles[i] \in {Source("dexit"), Source("destroy")}
                               \/ \E w \in Windows : idles[i] = Ended(w)
    /\ tray \in {"none", "shown", "hidden"} /\ kiosk \in BOOLEAN /\ asks \in BOOLEAN
    /\ noask \subseteq Windows /\ Len(loops) <= MaxLoops + 2
    /\ quit \in BOOLEAN /\ fault \in BOOLEAN
    /\ hist \subseteq {"start", "dialog", "between", "tray", "refused", "late"}

\* remmina_on_startup and remmina_on_command_line: with the main window, with a dialog or
\* with the icon only.
Init ==
    /\ main \in {"none", "open"} /\ tray \in {"none", "shown"}
    /\ pool \in {IF main = "open" THEN {"main"} ELSE {}, {"dialog"} \cup IF main = "open" THEN {"main"} ELSE {}}
    /\ conn = [w \in Windows |-> "none"] /\ idles = <<>>
    /\ kiosk \in BOOLEAN /\ (kiosk => main = "open") /\ asks \in BOOLEAN
    /\ noask = {} /\ loops = <<>> /\ quit = FALSE /\ fault = FALSE
    /\ hist = IF pool = {} /\ tray = "none" THEN {"start"} ELSE {}

Top == loops[Len(loops)]
Pop == SubSeq(loops, 1, Len(loops) - 1)

\* The main loop is free for the next event: no handler runs, or the newest one asks.
Free == /\ ~fault /\ (~quit \/ loops # <<>>) /\ main # "deleting"
        /\ loops # <<>> => Top.asking # ""
\* A question is modal: the user cannot use other windows.
UserFree == Free /\ loops = <<>>

\* remmina_icon_is_available
Available == tray = "shown"
\* remmina_main_get_window: the builder still knows a window that is gone.
HasMain == main # "none"

Frame(kind, rest) == [kind |-> kind, asking |-> "", rest |-> rest]

\* remmina_exec_exitremmina begins: the pool is copied.
ExitFrame == Frame("exit", pool \cap Windows)

\* REMMINA_COMMAND_MAIN
Main ==
    /\ Free
    /\ IF HasMain THEN UNCHANGED <<main, pool, hist>>
       ELSE main' = "open" /\ pool' = pool \cup {"main"} /\ hist' = hist \ {"start", "dialog", "between", "tray"}
    /\ UNCHANGED <<conn, idles, tray, kiosk, asks, noask, loops, quit, fault>>

\* REMMINA_COMMAND_CONNECT, a row of the list, an item of the icon
Connect(w) ==
    /\ Free /\ conn[w] = "none"
    /\ conn' = [conn EXCEPT ![w] = "open"] /\ pool' = pool \cup {w}
    /\ hist' = (hist \ {"start", "dialog", "between", "tray"})
                  \cup IF quit \/ \E i \in DOMAIN loops : loops[i].kind = "exit" THEN {"late"} ELSE {}
    /\ UNCHANGED <<main, idles, tray, kiosk, asks, noask, loops, quit, fault>>

\* The preferences, the editor, a message that a file cannot be read: in the pool as well,
\* but their end is no reason to exit.
OpenDialog ==
    /\ Free /\ "dialog" \notin pool /\ pool' = pool \cup {"dialog"}
    /\ hist' = hist \ {"start", "dialog", "between", "tray"}
    /\ UNCHANGED <<main, conn, idles, tray, kiosk, asks, noask, loops, quit, fault>>

CloseDialog ==
    /\ UserFree /\ "dialog" \in pool /\ pool' = pool \ {"dialog"}
    /\ hist' = hist \cup IF pool = {"dialog"} /\ ~Available THEN {"dialog"} ELSE {}
    /\ UNCHANGED <<main, conn, idles, tray, kiosk, asks, noask, loops, quit, fault>>

\* remmina_main_on_delete_event, and the default handler that destroys the window after it
DeleteMain ==
    /\ UserFree /\ main = "open" /\ main' = "deleting"
    /\ idles' = Append(idles, Source("dexit"))
    /\ UNCHANGED <<pool, conn, tray, kiosk, asks, noask, loops, quit, hist, fault>>

remmina_main_on_destroy_event ==
    /\ main = "deleting" /\ main' = "half" /\ pool' = pool \ {"main"}
    /\ idles' = Append(idles, Source("destroy"))
    /\ UNCHANGED <<conn, tray, kiosk, asks, noask, loops, quit, hist, fault>>

\* A plugin ends, asked to or not; the signal goes through the idle queue.
PluginEnds(w) ==
    /\ conn[w] \in {"open", "closing"} /\ ~fault /\ (~quit \/ loops # <<>>)
    /\ conn' = [conn EXCEPT ![w] = "ended"] /\ idles' = Append(idles, Ended(w))
    /\ UNCHANGED <<main, pool, tray, kiosk, asks, noask, loops, quit, hist, fault>>

\* Mutant: the end of a connection never ends the program.
CondExit_Never == FALSE

\* remmina_application_condexit(ONDISCONNECT), with the pool the window has left
CondExit == pool' = {} /\ ~HasMain /\ ~Available

\* rco_closewin: the last page goes, and the window with it.
ServeEnded(w) ==
    /\ idles # <<>> /\ Free /\ Head(idles) = Ended(w)
    /\ conn' = [conn EXCEPT ![w] = "gone"] /\ pool' = pool \ {w}
    /\ idles' = Tail(idles)
    /\ IF CondExit
       THEN /\ loops' = Append(loops, Frame("exit", {})) /\ UNCHANGED hist
       ELSE /\ hist' = hist \cup IF main = "half" /\ pool = {w} THEN {"between"} ELSE {}
            /\ UNCHANGED loops
    /\ UNCHANGED <<main, tray, kiosk, asks, noask, quit, fault>>

\* remmina_main_dexit: in kiosk mode at once, else when nothing is left
ServeDexit ==
    /\ idles # <<>> /\ Free /\ Head(idles) = Source("dexit") /\ idles' = Tail(idles)
    /\ IF kiosk \/ (pool = {} /\ ~Available)
       THEN loops' = Append(loops, ExitFrame)
       ELSE UNCHANGED loops
    /\ UNCHANGED <<main, pool, conn, tray, kiosk, asks, noask, quit, hist, fault>>

\* remmina_main_idle_destroy
ServeDestroy ==
    /\ idles # <<>> /\ Free /\ Head(idles) = Source("destroy") /\ idles' = Tail(idles)
    /\ main' = IF main = "half" THEN "none" ELSE main
    /\ UNCHANGED <<pool, conn, tray, kiosk, asks, noask, loops, quit, hist, fault>>

\* rcw_delete asks when the connection is not closed yet.
Asks(w) == w \notin noask /\ asks /\ conn[w] \in {"open", "closing"}
Closed(w) == IF conn[w] = "open" THEN [conn EXCEPT ![w] = "closing"] ELSE conn

CloseWindow(w) ==
    /\ UserFree /\ w \in pool
    /\ IF Asks(w)
       THEN loops' = Append(loops, [Frame("delete", {}) EXCEPT !.asking = w]) /\ UNCHANGED conn
       ELSE conn' = Closed(w) /\ UNCHANGED loops
    /\ UNCHANGED <<main, pool, idles, tray, kiosk, asks, noask, quit, hist, fault>>

\* remmina_exec_exitremmina_one_confirm and REMMINA_COMMAND_EXIT: the first may ask.
QuitByIcon ==
    /\ Free /\ tray = "shown" /\ Len(loops) < MaxLoops
    /\ IF Cardinality(pool) > 1 \/ ~HasMain
       THEN loops' = Append(loops, [Frame("quit", {}) EXCEPT !.asking = "quit"]) /\ UNCHANGED noask
       ELSE loops' = Append(loops, ExitFrame) /\ noask' = noask \cup (pool \cap Windows)
    /\ UNCHANGED <<main, pool, conn, idles, tray, kiosk, asks, quit, hist, fault>>

Quit ==
    /\ Free /\ Len(loops) < MaxLoops
    /\ loops' = Append(loops, ExitFrame) /\ noask' = noask \cup (pool \cap Windows)
    /\ UNCHANGED <<main, pool, conn, idles, tray, kiosk, asks, quit, hist, fault>>

\* cb_closewidget for the next of the copy: a window that is gone cannot even be looked at.
\* Windows are taken in the order of the pool, which is any.
CloseWidget ==
    /\ ~fault /\ loops # <<>> /\ Top.kind = "exit" /\ Top.asking = "" /\ Top.rest # {}
    /\ \E w \in Top.rest :
          IF w \notin pool THEN fault' = TRUE /\ UNCHANGED <<conn, loops>>
          ELSE /\ loops' = Append(Pop, [Top EXCEPT !.rest = @ \ {w}, !.asking = IF Asks(w) THEN w ELSE ""])
               /\ conn' = IF Asks(w) THEN conn ELSE Closed(w)
               /\ UNCHANGED fault
    /\ UNCHANGED <<main, pool, idles, tray, kiosk, asks, noask, quit, hist>>

\* The end of remmina_exec_exitremmina: remmina_icon_destroy, remmina_main_destroy and
\* g_application_quit.
ExitEnds ==
    /\ ~fault /\ loops # <<>> /\ Top.kind = "exit" /\ Top.asking = "" /\ Top.rest = {}
    /\ main' = "none" /\ pool' = pool \ {"main"} /\ tray' = "none" /\ quit' = TRUE /\ loops' = Pop
    /\ UNCHANGED <<conn, idles, kiosk, asks, noask, hist, fault>>

\* The answer.  The signal of a window keeps it alive while it asks, and a window without
\* priv is left alone; an exit keeps nothing.
Answer(yes) ==
    /\ ~fault /\ loops # <<>> /\ Top.asking # ""
    /\ LET w == Top.asking
       IN  CASE Top.kind = "quit" ->
                  /\ loops' = IF yes THEN Append(Pop, ExitFrame) ELSE Pop
                  /\ noask' = IF yes THEN noask \cup (pool \cap Windows) ELSE noask
                  /\ UNCHANGED <<conn, hist, fault>>
             [] Top.kind = "delete" ->
                  /\ loops' = Pop /\ conn' = IF yes /\ w \in pool THEN Closed(w) ELSE conn
                  /\ UNCHANGED <<noask, hist, fault>>
             [] Top.kind = "exit" ->
                  /\ loops' = Append(Pop, [Top EXCEPT !.asking = ""])
                  /\ conn' = IF yes /\ w \in pool THEN Closed(w) ELSE conn
                  /\ fault' = (yes /\ w \notin pool)
                  /\ hist' = hist \cup IF yes THEN {} ELSE {"refused"}
                  /\ UNCHANGED noask
    /\ UNCHANGED <<main, pool, idles, tray, kiosk, asks, quit>>

\* remmina_icon_connection_changed_cb
ConnectionChanged ==
    /\ Free /\ tray # "none" /\ tray' = IF tray = "shown" THEN "hidden" ELSE "shown"
    /\ hist' = IF tray = "shown" /\ pool = {} THEN hist \cup {"tray"} ELSE hist
    /\ UNCHANGED <<main, pool, conn, idles, kiosk, asks, noask, loops, quit, fault>>

Next ==
    \/ Main \/ OpenDialog \/ CloseDialog \/ DeleteMain \/ remmina_main_on_destroy_event
    \/ ServeDexit \/ ServeDestroy \/ QuitByIcon \/ Quit \/ CloseWidget \/ ExitEnds
    \/ ConnectionChanged
    \/ \E w \in Windows : Connect(w) \/ PluginEnds(w) \/ ServeEnded(w) \/ CloseWindow(w)
    \/ \E b \in BOOLEAN : Answer(b)

Spec == Init /\ [][Next]_vars

-----------------------------------------------------------------------------

\* The program that nobody sees: no window, no icon, nothing that is still to come
OutOfReach ==
    /\ ~quit /\ loops = <<>> /\ idles = <<>> /\ main = "none" /\ pool = {} /\ ~Available

\* The program goes on unseen only where it was started so, where a dialog was the last to
\* close, where the last connection ended between the two halves of the deletion of the main
\* window, or where the desktop took the icon away.
Reachable == OutOfReach => hist \cap {"start", "dialog", "between", "tray"} # {}

\* Every connection is asked to close before the program quits, but those the user refused
\* to close in kiosk mode, or opened from within a question after the exit had begun.
AskedToClose ==
    quit /\ (\E w \in Windows : w \in pool /\ conn[w] = "open") =>
        hist \cap {"refused", "late"} # {}

\* A window that is gone is used only by an exit that asks: that of kiosk mode.
ExitFaults == fault => kiosk
=============================================================================
