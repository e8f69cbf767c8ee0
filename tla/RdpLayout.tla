-------------------------------- MODULE RdpLayout --------------------------------
(***************************************************************************)
(* How the size of the window reaches an RDP server whose resolution       *)
(* follows it (plugins/rdp/rdp_event.c): a timer that every change starts  *)
(* anew, and nothing while the session reconnects.                         *)
(***************************************************************************)
EXTENDS Integers

CONSTANT Sizes          \* sizes of the window that are sent (at least 200 by 200)

VARIABLES
    rfi,            \* connected, is_reconnecting
    window,         \* sizes: of the widget, the one served; how the window is scaled
    layout          \* the timers of the delayed layout; the number that is remembered

vars == <<rfi, window, layout>>

Small == 0              \* a size too small to be sent
Modes == {"none", "scaled", "dynres"}

TypeOK ==
    /\ rfi \in [connected : BOOLEAN, reconnecting : BOOLEAN]
    /\ window \in [size : Sizes \cup {Small}, served : Sizes, mode : Modes]
    /\ layout \in [timers : 0 .. 2, known : BOOLEAN]

Init ==
    /\ rfi = [connected |-> FALSE, reconnecting |-> FALSE]
    /\ \E s \in Sizes : window = [size |-> s, served |-> s, mode |-> "dynres"]
    /\ layout = [timers |-> 0, known |-> FALSE]

\* The guard of the handlers
Ready == rfi.connected /\ ~rfi.reconnecting

\* The session connects; the connection is lost and comes back (rf_auto_reconnect).
Connect ==
    /\ ~rfi.connected
    /\ rfi' = [rfi EXCEPT !.connected = TRUE]
    /\ UNCHANGED <<window, layout>>
Reconnecting ==
    /\ rfi.connected
    /\ rfi' = [rfi EXCEPT !.reconnecting = ~@]
    /\ UNCHANGED <<window, layout>>

\* Mutant: the timer that runs is not removed.
send_delayed_monitor_layout_Left ==
    layout' = IF window'.mode = "dynres" /\ layout.timers < 2
              THEN [timers |-> layout.timers + 1, known |-> TRUE]
              ELSE layout

\* remmina_rdp_event_send_delayed_monitor_layout: the timer is started anew.
send_delayed_monitor_layout ==
    LET others == IF layout.known THEN 0 ELSE layout.timers
    IN  layout' = IF window'.mode = "dynres"
                  THEN [timers |-> others + 1, known |-> TRUE]
                  ELSE [timers |-> others, known |-> FALSE]

\* remmina_rdp_event_on_configure
on_configure(s) ==
    /\ window' = [window EXCEPT !.size = s]
    /\ IF Ready THEN send_delayed_monitor_layout ELSE UNCHANGED layout
    /\ UNCHANGED rfi

\* remmina_rdp_event_delayed_monitor_layout.  When it returns early the number is
\* remembered though the timer is gone.  The server takes the size.
delayed_monitor_layout ==
    /\ layout.timers > 0
    /\ layout' = [timers |-> layout.timers - 1,
                  known |-> layout.known /\ ~(Ready /\ window.mode = "dynres")]
    /\ window' = IF Ready /\ window.mode = "dynres" /\ window.size # Small
                 THEN [window EXCEPT !.served = window.size]
                 ELSE window
    /\ UNCHANGED rfi

\* remmina_rdp_call_feature, SCALE: the mode changes, and the widget with it or not.
\* DYNRESUPDATE does nothing.
Scale(m) ==
    /\ m # window.mode
    /\ window' = [window EXCEPT !.mode = m]
    /\ UNCHANGED <<rfi, layout>>

\* remmina_rdp_call_feature, MULTIMON, and the display channel when it connects
\* (remmina_rdp_OnChannelConnectedEventHandler)
Multimon ==
    /\ Ready
    /\ UNCHANGED window /\ send_delayed_monitor_layout
    /\ UNCHANGED rfi

Next ==
    \/ Connect \/ Reconnecting
    \/ \E s \in Sizes \cup {Small} : on_configure(s)
    \/ delayed_monitor_layout
    \/ \E m \in Modes : Scale(m)
    \/ Multimon

\* The main loop runs its timers.
Fairness == WF_vars(delayed_monitor_layout)

Spec == Init /\ [][Next]_vars /\ Fairness

-----------------------------------------------------------------------------

\* There is at most one timer of the layout, and its number is known while it runs, so
\* that remmina_rdp_event_uninit can remove it.
OneLayoutTimer == layout.timers <= 1 /\ (layout.timers = 1 => layout.known)

\* A new size of a session with dynamic resolution is sent, unless the session reconnects
\* or its mode or size changes meanwhile: then it waits for the next change.
Unserved(s) == Ready /\ layout.timers > 0 /\ window.mode = "dynres" /\ window.size = s
ServedOrNot(s) == window.served = s \/ ~Ready \/ window.mode # "dynres" \/ window.size # s
SizeSent == \A s \in Sizes : Unserved(s) ~> ServedOrNot(s)
=============================================================================
