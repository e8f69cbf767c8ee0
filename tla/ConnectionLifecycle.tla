-------------------------- MODULE ConnectionLifecycle --------------------------
(***************************************************************************)
(* A connection from the opening of its tab to the freeing of its objects: *)
(* the protocol widget "gp" (src/remmina_protocol_widget.c), the connection *)
(* object "cnnobj" that ties it to a tab of a window (src/rcw.c), and the   *)
(* protocol plugin, whose thread reports through idle sources.              *)
(*                                                                         *)
(* The handlers call one another (a plugin that fails to open is closed on  *)
(* the spot, a close request may disconnect at once), so each is an operator *)
(* on the record of one connection, and the actions say who calls it.       *)
(***************************************************************************)
EXTENDS Naturals, Sequences, FiniteSets

CONSTANTS
    Conns,          \* the connections of one window
    None

ASSUME LifecycleAssumption == None \notin Conns

VARIABLES
    conn,           \* conn[c]: gp, cnnobj, tab and plugin of c
    todo,           \* tabs rcw_close_all_connections has still to close
    mid             \* connection whose close request has passed the check

vars == <<conn, todo, mid>>

Connection == [
    widget    : {"none", "tree", "detached", "freed"},  \* gp; detached: only a
                                    \* reference nobody drops keeps it
    obj       : BOOLEAN,            \* cnnobj is allocated, and has its tab
    stage     : {"new", "sizing", "timer", "open"},     \* the deferred opening
    closed    : BOOLEAN,            \* gp->priv->closed
    user      : BOOLEAN,            \* gp->priv->user_disconnect
    error     : BOOLEAN,            \* gp->priv->has_error
    connected : BOOLEAN,
    tunnels   : BOOLEAN,            \* gp->priv->ssh_tunnels is not empty
    prompt    : BOOLEAN,            \* the profile has disconnect-prompt
    panels    : SUBSET {"connect", "error", "prompt"},
    sync      : BOOLEAN,            \* close_connection of the plugin stops the
                                    \* thread; else it asks the thread to stop
                                    \* (an RDP session that is not connected is
                                    \* left to itself: module RdpSession)
    thread    : {"none", "run", "up", "ended"},
    asked     : BOOLEAN,
    queue     : Seq({"opened", "update", "closed"}),    \* idle sources
    fault     : {"none", "freed gp", "no cnnobj"},
    written   : BOOLEAN,            \* history: rco_closewin has written to gp,
                                    \* which its removal of the page had freed
    overlap   : BOOLEAN]            \* history: the user acted on c while a source
                                    \* of c was queued or c was not open yet, or
                                    \* the plugin ended while the user closed c

Closing(c) == c \in todo \/ c = mid

TypeOK ==
    /\ conn \in [Conns -> Connection]
    /\ todo \subseteq Conns /\ mid \in Conns \cup {None}
    /\ \A c \in Conns :
          /\ conn[c].obj => conn[c].widget \in {"tree", "detached"}
          /\ conn[c].panels # {} => conn[c].obj
          /\ Len(conn[c].queue) <= 4

Init ==
    /\ conn \in [Conns ->
          [widget : {"none"}, obj : {FALSE}, stage : {"new"}, closed : {TRUE},
           user : {FALSE}, error : {FALSE}, connected : {FALSE}, tunnels : {FALSE},
           prompt : BOOLEAN, panels : {{}}, sync : BOOLEAN, thread : {"none"},
           asked : {FALSE}, queue : {<<>>}, fault : {"none"}, written : {FALSE},
           overlap : {FALSE}]]
    /\ todo = {} /\ mid = None

-----------------------------------------------------------------------------
(* The handlers, on one connection.                                        *)

Push(r, s) == [r EXCEPT !.queue = Append(@, s)]

\* remmina_protocol_widget_signal_connection_closed
SignalClosed(r) == Push([r EXCEPT !.closed = TRUE], "closed")

\* Mutant: the connection object is not freed.
closewin_KeepsObj(r) ==
    [r EXCEPT !.panels = {}, !.widget = IF @ = "tree" THEN "freed" ELSE @]

\* rco_closewin: the removal of the page destroys what is in it, and with it gp
\* unless it has been detached; gp->cnnobj is written after that.  The write is to
\* memory freed a moment before, so the build may go on.
closewin(r) ==
    [r EXCEPT !.obj = FALSE, !.panels = {},
              !.widget = IF @ = "tree" THEN "freed" ELSE @,
              !.written = IF r.widget = "tree" THEN TRUE ELSE @]

\* Mutant: gp is not taken out of the tree before the page is removed.
on_disconnect_InTree(r) ==
    IF ~r.obj THEN [r EXCEPT !.fault = "no cnnobj"]
    ELSE LET d == [r EXCEPT !.connected = FALSE]
         IN  IF r.error THEN [d EXCEPT !.panels = @ \cup {"error"}] ELSE closewin(d)

\* Mutant: the error is not shown.
on_disconnect_NoPanel(r) ==
    IF ~r.obj THEN [r EXCEPT !.fault = "no cnnobj"]
    ELSE LET d == [r EXCEPT !.widget = "detached", !.connected = FALSE]
         IN  IF r.error THEN d ELSE closewin(d)

\* rco_on_disconnect, the handler of "disconnect"
on_disconnect(r) ==
    IF ~r.obj THEN [r EXCEPT !.fault = "no cnnobj"]
    ELSE LET d == [r EXCEPT !.widget = "detached", !.connected = FALSE]
         IN  IF r.error THEN [d EXCEPT !.panels = @ \cup {"error"}] ELSE closewin(d)

conn_closed_real(r) == on_disconnect([r EXCEPT !.tunnels = FALSE])

\* Mutant: the prompt is not shown.
conn_closed_NoPrompt(r) == conn_closed_real(r)

conn_closed(r) ==
    IF ~r.user /\ ~r.error /\ r.prompt
    THEN IF ~r.obj THEN [r EXCEPT !.fault = "no cnnobj"]
         ELSE [r EXCEPT !.panels = @ \cup {"prompt"}]
    ELSE conn_closed_real(r)

\* conn_opened and rco_on_connect
conn_opened(r) ==
    IF ~r.obj THEN [r EXCEPT !.fault = "no cnnobj"]
    ELSE [r EXCEPT !.panels = @ \ {"connect"}, !.connected = TRUE]

\* update_align, lock_dynres, unlock_dynres
update(r) == IF ~r.obj THEN [r EXCEPT !.fault = "no cnnobj"] ELSE r

\* The first half of remmina_protocol_widget_close_connection.
close_check(r) ==
    IF r.closed THEN on_disconnect([r EXCEPT !.error = FALSE])
    ELSE [r EXCEPT !.user = TRUE]

\* Mutant: the thread is not stopped.
plugin_close_KeepsThread(r) ==
    IF r.sync \/ r.thread = "none" THEN SignalClosed(r) ELSE [r EXCEPT !.asked = TRUE]

\* Mutant: the plugin does not report that it has closed.
plugin_close_Silent(r) ==
    IF r.sync \/ r.thread = "none"
    THEN [r EXCEPT !.thread = IF @ = "none" THEN @ ELSE "ended"]
    ELSE [r EXCEPT !.asked = TRUE]

\* close_connection of the plugin
plugin_close(r) ==
    IF r.sync \/ r.thread = "none"
    THEN SignalClosed([r EXCEPT !.thread = IF @ = "none" THEN @ ELSE "ended"])
    ELSE [r EXCEPT !.asked = TRUE]

-----------------------------------------------------------------------------
Running == \A c \in Conns : conn[c].fault = "none"

\* The main thread is in its loop.
InLoop == Running /\ todo = {} /\ mid = None

\* The record of c when the user acts on it.
ActedOn(c) ==
    [conn[c] EXCEPT !.overlap = @ \/ conn[c].queue # <<>> \/ conn[c].stage # "open"]

Set(c, r) == conn' = [conn EXCEPT ![c] = r]

\* rcw_open_from_file_full
Open(c) ==
    /\ InLoop
    /\ conn[c].stage = "new"
    /\ Set(c, [conn[c] EXCEPT !.widget = "tree", !.obj = TRUE, !.stage = "sizing"])
    /\ UNCHANGED <<todo, mid>>

\* rpw_size_allocated_on_connection: a timer of 100 ms.  The handler goes with
\* the widget.
SizeAllocated(c) ==
    /\ InLoop
    /\ conn[c].stage = "sizing" /\ conn[c].widget = "tree"
    /\ Set(c, [conn[c] EXCEPT !.stage = "timer"])
    /\ UNCHANGED <<todo, mid>>

\* open_connection_last_stage: the plugin starts its thread, perhaps after a
\* tunnel, or fails and is closed.
LastStage(c) ==
    /\ InLoop
    /\ conn[c].stage = "timer"
    /\ LET r == [conn[c] EXCEPT !.stage = "open"]
           o == [r EXCEPT !.panels = {"connect"}, !.closed = FALSE]
       IN  \/ r.widget = "freed" /\ Set(c, [r EXCEPT !.fault = "freed gp"])
           \/ r.widget # "freed" /\ ~r.obj /\ Set(c, [r EXCEPT !.fault = "no cnnobj"])
           \/ /\ r.obj
              /\ \E t \in BOOLEAN : Set(c, [o EXCEPT !.thread = "run", !.tunnels = t])
           \/ /\ r.obj
              /\ \E e \in BOOLEAN :
                    Set(c, plugin_close(close_check([o EXCEPT !.error = e])))
    /\ UNCHANGED <<todo, mid>>

\* The thread of the plugin has connected.
ThreadOpened(c) ==
    /\ Running
    /\ conn[c].thread = "run"
    /\ Set(c, Push([conn[c] EXCEPT !.thread = "up"], "opened"))
    /\ UNCHANGED <<todo, mid>>

\* It has something to update (bound: one update queued at a time).
ThreadUpdate(c) ==
    /\ Running
    /\ conn[c].thread = "up"
    /\ \A i \in DOMAIN conn[c].queue : conn[c].queue[i] # "update"
    /\ Set(c, Push(conn[c], "update"))
    /\ UNCHANGED <<todo, mid>>

\* It ends, on its own account or because it was asked to, with or without an
\* error.
ThreadEnds(c) ==
    /\ Running
    /\ conn[c].thread \in {"run", "up"}
    /\ \E e \in BOOLEAN :
          Set(c, SignalClosed([conn[c] EXCEPT !.thread = "ended", !.error = @ \/ e,
                                              !.overlap = @ \/ Closing(c)]))
    /\ UNCHANGED <<todo, mid>>

\* The main loop runs the first source of c.
Idle(c) ==
    /\ InLoop
    /\ conn[c].queue # <<>>
    /\ LET r == [conn[c] EXCEPT !.queue = Tail(@)]
           s == Head(conn[c].queue)
       IN  \/ r.widget = "freed" /\ Set(c, [r EXCEPT !.fault = "freed gp"])
           \/ r.widget # "freed" /\ s = "opened" /\ Set(c, conn_opened(r))
           \/ r.widget # "freed" /\ s = "update" /\ Set(c, update(r))
           \/ r.widget # "freed" /\ s = "closed" /\ Set(c, conn_closed(r))
    /\ UNCHANGED <<todo, mid>>

\* Mutant: the button of the tab does not ask the plugin to close.
TabClose_Always(c) ==
    /\ InLoop /\ conn[c].obj
    /\ Set(c, closewin(ActedOn(c))) /\ UNCHANGED <<todo, mid>>

\* rco_on_close_button_clicked, the button of the tab
TabClose(c) ==
    /\ InLoop /\ conn[c].obj
    /\ IF conn[c].closed THEN Set(c, closewin(ActedOn(c))) /\ UNCHANGED todo
                         ELSE Set(c, ActedOn(c)) /\ todo' = {c}
    /\ UNCHANGED mid

\* The toolbar, or the button of the panel that shows the progress.
Disconnect(c) ==
    /\ InLoop /\ conn[c].obj
    /\ Set(c, ActedOn(c))
    /\ todo' = {c}
    /\ UNCHANGED mid

\* rcw_delete: every tab of the window.
DeleteWindow ==
    /\ InLoop
    /\ LET tabs == {c \in Conns : conn[c].obj} IN
          /\ tabs # {}
          /\ conn' = [c \in Conns |-> IF c \in tabs THEN ActedOn(c) ELSE conn[c]]
          /\ todo' = tabs
    /\ UNCHANGED mid

\* remmina_protocol_widget_close_connection: the check of priv->closed ...
CloseCheck(c) ==
    /\ Running
    /\ c \in todo /\ mid = None
    /\ todo' = todo \ {c}
    /\ mid' = IF conn[c].closed THEN None ELSE c
    /\ Set(c, close_check(conn[c]))

\* ... and the call of the plugin.
PluginClose(c) ==
    /\ Running
    /\ mid = c
    /\ mid' = None
    /\ Set(c, plugin_close(conn[c]))
    /\ UNCHANGED todo

\* The buttons of the error panel (cb_lasterror_confirmed) and of the panel that
\* asks for a confirmation of the disconnection (conn_closed_real).
ConfirmError(c) ==
    /\ InLoop /\ conn[c].obj
    /\ "error" \in conn[c].panels
    /\ Set(c, closewin(ActedOn(c)))
    /\ UNCHANGED <<todo, mid>>

ConfirmPrompt(c) ==
    /\ InLoop /\ conn[c].obj
    /\ "prompt" \in conn[c].panels
    /\ Set(c, conn_closed_real(ActedOn(c)))
    /\ UNCHANGED <<todo, mid>>

Main(c) == SizeAllocated(c) \/ LastStage(c) \/ Idle(c) \/ CloseCheck(c) \/ PluginClose(c)

Thread(c) == ThreadOpened(c) \/ ThreadUpdate(c) \/ ThreadEnds(c)

User(c) == Open(c) \/ TabClose(c) \/ Disconnect(c) \/ ConfirmError(c) \/ ConfirmPrompt(c)

Next == DeleteWindow \/ \E c \in Conns : Main(c) \/ Thread(c) \/ User(c)

Spec == Init /\ [][Next]_vars

\* The main loop runs what is queued, and a thread that is asked to stop does.
Fairness ==
    /\ \A c \in Conns : WF_vars(Main(c)) /\ WF_vars(conn[c].asked /\ ThreadEnds(c))

FairSpec == Spec /\ Fairness

-----------------------------------------------------------------------------
(* Properties.                                                             *)

\* No source, and no handler of a signal, finds the protocol widget freed or its
\* connection object gone, as long as the closings of the user and of the plugin
\* of that connection do not overlap.  Without an overlap rco_closewin writes to a
\* freed gp in one case only: the button of the tab is pressed while the panel asks
\* whether to disconnect, as rco_on_disconnect has not yet taken gp out of the tree.
NoFault ==
    \A c \in Conns :
        LET r == conn[c] IN
            ~r.overlap =>
                /\ r.fault = "none"
                /\ r.written => r.prompt /\ ~r.user /\ ~r.error

\* A plugin thread runs only while the widget it works for has its tab.
ThreadHasWidget ==
    \A c \in Conns :
        conn[c].thread \in {"run", "up"} => conn[c].obj /\ conn[c].widget = "tree"

\* The end of a connection never makes a tab disappear under the user: when an
\* error is to be read, or the profile asks for a prompt and the user did not
\* disconnect, only an action of the user removes the tab.
NoSilentClose ==
    [][\A c \in Conns :
          conn[c].obj /\ ~conn'[c].obj /\ conn'[c].queue # conn[c].queue
             => ~conn[c].error /\ (conn[c].prompt => conn[c].user)]_vars

\* A tab whose connection is over, with nothing more to come, says so in a panel
\* with a button that closes the tab.
ClosedTabSaysSo ==
    \A c \in Conns :
        LET r == conn[c] IN
            Running /\ r.obj /\ r.closed /\ r.stage = "open" /\ r.queue = <<>>
               => r.panels \cap {"error", "prompt"} # {}

\* A request of the user to disconnect ends: the tab goes, or shows an error.
IsOver(c) == ~conn[c].obj \/ "error" \in conn[c].panels \/ ~Running
CloseEnds == \A c \in Conns : conn[c].user ~> IsOver(c)

\* "Detach the protocol widget from the notebook now, or we risk that a window
\* delete will destroy cnnobj->proto before we complete disconnection"
DetachedInTime ==
    \A c \in Conns : conn[c].widget = "freed" => conn[c].queue = <<>>
=============================================================================
