------------------------------ MODULE HostKey -------------------------------
(***************************************************************************)
(* The host key of a connection window (rcw_hostkey_func in rcw.c, called  *)
(* by remmina_protocol_widget.c before the plugin sees a key): pressed     *)
(* with another key it is a shortcut, pressed alone it toggles the         *)
(* keyboard grab, and what it takes the server does not get.  The keys     *)
(* that are not taken reach the server of the tab in view, unless its      *)
(* profile is for viewing only.                                            *)
(***************************************************************************)
EXTENDS FiniteSets, Naturals

CONSTANTS
    Tabs,           \* the tabs of the window
    MaxHeld         \* bound: the keys the user holds at a time

VARIABLES
    win,            \* hostkey_activated and hostkey_used of the window
    tab,            \* the tab in view
    down,           \* the keys the user holds
    last,           \* the key that is repeated while it is held
    server,         \* for each tab, the keys its server takes to be pressed
    viewonly,       \* the tabs whose profile is for viewing only
    grab,           \* the tabs whose profile grabs the keyboard
    ending,         \* the tabs that were asked to disconnect
    alone,          \* history: "yes" when only the host key went down since it did, "elsewhere"
                    \* when it went down in another window
    odd,            \* history: the keys pressed at a server whose release it cannot have got
    surprise        \* history: the grab changed when it was not asked for, or did not when it was

vars == <<win, tab, down, last, server, viewonly, grab, ending, alone, odd, surprise>>

Host == "host"
None == "none"
Keys == {Host, "fullscreen", "nexttab", "viewonly", "disconnect"}

TypeOK ==
    /\ win \in [activated : BOOLEAN, used : BOOLEAN]
    /\ tab \in Tabs /\ down \subseteq Keys /\ last \in Keys \cup {None}
    /\ server \in [Tabs -> SUBSET Keys]
    /\ viewonly \subseteq Tabs /\ grab \subseteq Tabs /\ ending \subseteq Tabs
    /\ alone \in {"yes", "no", "elsewhere"}
    /\ \A t \in Tabs : odd[t] \subseteq server[t]
    /\ surprise \in BOOLEAN

Init ==
    /\ win = [activated |-> FALSE, used |-> FALSE]
    /\ tab \in Tabs /\ down = {} /\ last = None
    /\ server = [t \in Tabs |-> {}]
    /\ viewonly \in SUBSET Tabs /\ grab = {} /\ ending = {} /\ alone = "no"
    /\ odd = [t \in Tabs |-> {}]
    /\ surprise = FALSE

Toggled(set) == IF tab \in set THEN set \ {tab} ELSE set \cup {tab}
Live == tab \notin ending

-----------------------------------------------------------------------------

\* The plugin's handler, for the keys that rcw_hostkey_func leaves: none for viewing only.
Sent(k) == IF tab \in viewonly THEN server
           ELSE [server EXCEPT ![tab] = @ \cup {k}]
Lifted(k) == IF tab \in viewonly THEN server
             ELSE [server EXCEPT ![tab] = @ \ {k}]

\* rcw_switch_viewmode: a new window takes the tabs; its host key counts as used.
Moved == [activated |-> FALSE, used |-> TRUE]

\* The next tab, if there is one.  What the server of this one has pressed stays so.
ToNextTab ==
    /\ IF Tabs = {tab} THEN UNCHANGED tab ELSE tab' \in Tabs \ {tab}
    /\ odd' = [odd EXCEPT ![tab] = IF tab' = tab THEN @ ELSE server[tab]]

\* rcw_hostkey_func, the shortcuts.  In the end the host key is not active any more.
Shortcut(k) ==
    /\ win' = IF k = "fullscreen" THEN Moved ELSE [activated |-> FALSE, used |-> TRUE]
    /\ IF k = "nexttab" THEN ToNextTab
       ELSE /\ UNCHANGED tab
            /\ odd' = IF k = "viewonly" THEN [odd EXCEPT ![tab] = server[tab]] ELSE odd
    /\ viewonly' = IF k = "viewonly" THEN Toggled(viewonly) ELSE viewonly
    /\ grab' = IF k = Host THEN Toggled(grab) ELSE grab
    /\ ending' = IF k = "disconnect" THEN ending \cup {tab} ELSE ending
    /\ UNCHANGED server

\* rcw_hostkey_func for a key that goes down, or is repeated.
Pressed(k) ==
    /\ UNCHANGED surprise
    /\ IF k = Host
       THEN /\ win' = [activated |-> TRUE, used |-> FALSE]
            /\ alone' = "yes"
            /\ UNCHANGED <<tab, server, viewonly, grab, ending, odd>>
       ELSE /\ alone' = IF alone = "elsewhere" THEN alone ELSE "no"
            /\ IF win.activated THEN Shortcut(k)
               ELSE server' = Sent(k) /\ UNCHANGED <<win, tab, viewonly, grab, ending, odd>>

KeyPress(k) ==
    /\ Live /\ k \notin down /\ Cardinality(down) < MaxHeld
    /\ down' = down \cup {k} /\ last' = k
    /\ Pressed(k)

KeyRepeat ==
    /\ Live /\ last \in down
    /\ Pressed(last)
    /\ UNCHANGED <<down, last>>

\* rcw_hostkey_func when the host key comes up: it is the shortcut of the grab, if no other
\* key was pressed with it.
HostReleased_Always == Shortcut(Host)
HostReleased ==
    IF win.used
    THEN win' = [win EXCEPT !.activated = FALSE] /\ UNCHANGED <<tab, server, viewonly, grab, ending, odd>>
    ELSE Shortcut(Host)

\* ... and when another one does.
OtherReleased(k) ==
    /\ IF win.activated
       THEN odd' = [odd EXCEPT ![tab] = @ \cup (server[tab] \cap {k})] /\ UNCHANGED server
       ELSE server' = Lifted(k) /\ odd' = [odd EXCEPT ![tab] = @ \cap server'[tab]]
    /\ UNCHANGED <<win, tab, viewonly, grab, ending>>

KeyRelease(k) ==
    /\ Live /\ k \in down
    /\ down' = down \ {k}
    /\ last' = IF last = k THEN None ELSE last
    /\ IF k = Host THEN HostReleased /\ alone' = "no" ELSE OtherReleased(k) /\ UNCHANGED alone
    /\ surprise' = (surprise \/ (k = Host /\ alone = IF grab' = grab THEN "yes" ELSE "no"))

\* rcw_focus_out: the plugin of the tab in view releases its keys.  What is held comes up in
\* another window, and the user comes back from there, perhaps with the host key held.
FocusOut ==
    /\ Live
    /\ \E k \in {{}, {Host}} :
          down' = k /\ alone' = IF k = {} THEN "no" ELSE "elsewhere"
    /\ last' = None
    /\ win' = [win EXCEPT !.activated = FALSE]
    /\ server' = [server EXCEPT ![tab] = {}]
    /\ odd' = [odd EXCEPT ![tab] = {}]
    /\ UNCHANGED <<tab, viewonly, grab, ending, surprise>>

\* The connection ends, and the notebook shows another tab.
TabEnds ==
    /\ ~Live
    /\ tab' \in Tabs \ ending
    /\ UNCHANGED <<win, down, last, server, viewonly, grab, ending, alone, odd, surprise>>

Next ==
    \/ KeyRepeat \/ FocusOut \/ TabEnds
    \/ \E k \in Keys : KeyPress(k) \/ KeyRelease(k)

Spec == Init /\ [][Next]_vars

-----------------------------------------------------------------------------

\* The server never sees the host key.
HostKeyStays == \A t \in Tabs : Host \notin server[t]

\* A key the server takes to be pressed is held by the user, but for one that came up while
\* the host key was active, one that was held when the tab was left by its shortcut, or when
\* its profile became one for viewing only: of those the server is not told.
HeldOrOdd ==
    \A t \in Tabs \ ending : server[t] \subseteq odd[t] \cup (IF t = tab THEN down ELSE {})

\* The keyboard grab of a tab is toggled by the host key alone, and by nothing else that is
\* typed, but for a host key that was pressed in another window and comes up in this one.
GrabAsAsked == ~surprise
=============================================================================
