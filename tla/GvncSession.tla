---------------------------- MODULE GvncSession -----------------------------
(***************************************************************************)
(* A session of the GVNC plugin (plugins/gvnc/gvnc_plugin.c).  The GTK-VNC *)
(* library connects by itself and reports with signals; it emits them from *)
(* an idle source, so a signal may be handled after the session is closed. *)
(* The clipboard of the desktop belongs to another program or, after the   *)
(* server has sent a text, to the protocol widget.                         *)
(***************************************************************************)
EXTENDS Naturals

CONSTANT Texts      \* texts that the user copies, or the server

VARIABLES
    widget,         \* the protocol widget: new, open, closed (its data stolen), freed
    lib,            \* the connection of the library
    signal,         \* the signal that waits in the idle source of the library
    asking,         \* the dialog for the credentials, in a nested main loop
    profile,        \* the password in the profile
    typed,          \* the last answer of the user: the password, and to save it
    clipboard,      \* owner and text of the clipboard of the desktop
    clipstr,        \* gpdata->clipstr
    changed,        \* the owner of the clipboard has changed, the signal not yet handled
    sent,           \* the texts sent to the server, with who copied them
    told,           \* what the protocol widget was told
    keys,           \* the menu entries used, and the keys the server got for them
    fault           \* what was used that is not there

vars == <<widget, lib, signal, asking, profile, typed, clipboard, clipstr, changed, sent,
          told, keys, fault>>

None == "none"
Signals == {"auth-credential", "auth-failure", "auth-unsupported", "initialized",
            "server-cut-text", "error", "disconnected"}

\* The entries of the menu that send keys: one stands for those with a case of their own.
Tools == {"Delete", "F7", "F8"}

TypeOK ==
    /\ widget \in {"new", "open", "closed", "freed"}
    /\ lib \in {"off", "opening", "auth", "up", "over"}
    /\ signal \in Signals \cup {None} /\ asking \in BOOLEAN
    /\ profile \in {None, "old", "typed"}
    /\ typed \in {None, "keep", "forget"}
    /\ clipboard \in [owner : {"other", "gp"}, text : Texts]
    /\ clipstr \in Texts \cup {None} /\ changed \in BOOLEAN
    /\ sent \in SUBSET [text : Texts, owner : {"other", "gp"}]
    /\ told \in [opened : 0 .. 1, closed : 0 .. 1, error : BOOLEAN]
    /\ keys \in [used : SUBSET Tools, got : SUBSET Tools]
    /\ fault \in {None, "data", "widget"}

-----------------------------------------------------------------------------

\* The library emits one signal at a time, from where the connection stands.
Emits ==
    /\ signal = None /\ ~asking
    /\ \/ lib = "opening" /\ lib' = "auth" /\ signal' = "auth-credential"
       \/ lib = "opening" /\ lib' = "over" /\ signal' \in {"auth-unsupported", "error"}
       \/ lib = "auth" /\ typed # None /\ lib' = "up" /\ signal' = "initialized"
       \/ lib = "auth" /\ typed # None /\ lib' = "over" /\ signal' = "auth-failure"
       \/ lib = "up" /\ UNCHANGED lib /\ signal' = "server-cut-text"
       \/ lib = "up" /\ lib' = "over" /\ signal' \in {"error", "disconnected"}
    /\ UNCHANGED <<widget, asking, profile, typed, clipboard, clipstr, changed, sent, told,
                   keys, fault>>

\* gpdata, which a handler gets from the widget: not there after the session is closed.
HasData == widget = "open"

\* gvnc_plugin_cut_text: the widget becomes the owner of the clipboard.
CutText(t) ==
    IF HasData
    THEN /\ clipstr' = t
         /\ clipboard' = [owner |-> "gp", text |-> t]
         /\ changed' = TRUE
         /\ UNCHANGED fault
    ELSE fault' = "data" /\ UNCHANGED <<clipstr, clipboard, changed>>

\* The handlers of errors, which use the data without a test.
Reports ==
    /\ IF HasData THEN UNCHANGED fault ELSE fault' = "data"
    /\ told' = [told EXCEPT !.error = @ \/ (HasData /\ signal # "error")]

\* The idle source runs the handler of a signal.  vnc-disconnected does nothing.
Handle ==
    /\ signal # None /\ ~asking /\ widget # "freed" /\ fault = None
    /\ signal' = None
    /\ \/ /\ signal = "server-cut-text" /\ \E t \in Texts : CutText(t)
          /\ UNCHANGED <<asking, told>>
       \/ /\ signal \in {"auth-failure", "auth-unsupported", "error"} /\ Reports
          /\ UNCHANGED <<asking, clipstr, clipboard, changed>>
       \/ /\ signal = "auth-credential" /\ HasData /\ asking' = TRUE
          /\ UNCHANGED <<clipstr, clipboard, changed, told, fault>>
       \/ /\ signal = "auth-credential" /\ ~HasData /\ fault' \in {fault, "data"}
          /\ UNCHANGED <<asking, clipstr, clipboard, changed, told>>
       \/ /\ signal \in {"initialized", "disconnected"}
          /\ UNCHANGED <<asking, clipstr, clipboard, changed, told, fault>>
    /\ UNCHANGED <<widget, lib, profile, typed, sent, keys>>

\* gvnc_plugin_ask_auth after the answer: the password goes into the profile, or out of it.
Answer(save) ==
    /\ asking /\ asking' = FALSE
    /\ typed' = IF save THEN "keep" ELSE "forget"
    /\ profile' = IF save THEN "typed" ELSE None
    /\ UNCHANGED <<widget, lib, signal, clipboard, clipstr, changed, sent, told, keys, fault>>

\* The user gives up: the library goes on waiting for the credentials.
Cancel ==
    /\ asking /\ asking' = FALSE
    /\ UNCHANGED <<widget, lib, signal, profile, typed, clipboard, clipstr, changed, sent, told,
                   keys, fault>>

-----------------------------------------------------------------------------

Init ==
    /\ widget = "new" /\ lib = "off" /\ signal = None /\ asking = FALSE
    /\ profile \in {None, "old"} /\ typed = None
    /\ \E t \in Texts : clipboard = [owner |-> "other", text |-> t]
    /\ clipstr = None /\ changed = FALSE /\ sent = {}
    /\ told = [opened |-> 0, closed |-> 0, error |-> FALSE]
    /\ keys = [used |-> {}, got |-> {}]
    /\ fault = None

\* gvnc_plugin_open_connection: it says open before the library has connected.
OpenConnection ==
    /\ widget = "new"
    /\ \/ /\ widget' = "open" /\ lib' = "opening" /\ told' = [told EXCEPT !.opened = 1]
       \/ /\ widget' = "closed" /\ UNCHANGED lib        \* the tunnel has failed
          /\ told' = [told EXCEPT !.closed = 1, !.error = TRUE]
    /\ UNCHANGED <<signal, asking, profile, typed, clipboard, clipstr, changed, sent, keys,
                   fault>>

\* gvnc_plugin_close_connection: the data is stolen from the widget, and nothing disconnects
\* the handler of the clipboard.  The dialog ends with the tab.
CloseConnection ==
    /\ widget = "open" /\ widget' = "closed"
    /\ lib' = "over"
    /\ asking' = FALSE
    /\ told' = [told EXCEPT !.closed = @ + 1]
    /\ UNCHANGED <<signal, profile, typed, clipboard, clipstr, changed, sent, keys, fault>>

\* The tab is gone, and with it the display, whose signal is not handled any more.  The
\* clipboard holds a reference on its owner.
FreeWidget ==
    /\ widget = "closed" /\ clipboard.owner # "gp"
    /\ widget' = "freed" /\ signal' = None
    /\ UNCHANGED <<lib, asking, profile, typed, clipboard, clipstr, changed, sent, told, keys,
                   fault>>

\* Another program takes the clipboard.
UserCopies ==
    /\ \E t \in Texts : clipboard' = [owner |-> "other", text |-> t]
    /\ changed' = TRUE
    /\ UNCHANGED <<widget, lib, signal, asking, profile, typed, clipstr, sent, told, keys, fault>>

\* gvnc_plugin_clipboard_cb and _paste_text: what the widget does not own goes to the server.
Foreign_Any == TRUE
Foreign == clipboard.owner # "gp"

OwnerChanged ==
    /\ changed /\ changed' = FALSE /\ fault = None
    /\ IF widget = "freed"
       THEN fault' = "widget" /\ UNCHANGED sent
       ELSE /\ sent' = IF Foreign /\ HasData THEN sent \cup {clipboard} ELSE sent
            /\ UNCHANGED fault
    /\ UNCHANGED <<widget, lib, signal, asking, profile, typed, clipboard, clipstr, told, keys>>

\* gvnc_plugin_call_feature: the keys of an entry of the menu; F8 has no case.
CallFeature(k) ==
    /\ widget = "open" /\ ~asking
    /\ keys' = [used |-> keys.used \cup {k},
                got |-> IF k = "F8" THEN keys.got ELSE keys.got \cup {k}]
    /\ UNCHANGED <<widget, lib, signal, asking, profile, typed, clipboard, clipstr, changed, sent,
                   told, fault>>

Next ==
    \/ Emits \/ Handle \/ Cancel \/ OpenConnection \/ CloseConnection \/ FreeWidget
    \/ UserCopies \/ OwnerChanged
    \/ \E save \in BOOLEAN : Answer(save)
    \/ \E k \in Tools : CallFeature(k)

Spec == Init /\ [][Next]_vars

-----------------------------------------------------------------------------

\* A text the server has sent is never sent back to it.
NoEcho == \A s \in sent : s.owner = "other"

\* The data of the widget is missed only by a signal that was on its way when the session was
\* closed, and the widget itself only by the handler of the clipboard, which nobody removes.
FaultsKnown ==
    /\ fault = "data" => widget \in {"closed", "freed"} /\ lib = "over" /\ told.opened = 1
    /\ fault = "widget" => widget = "freed" /\ clipboard.owner = "other"

\* The window is told once that the session is open and once that it is over; when the
\* server ends it, only the user makes the window know.
ToldOnce ==
    /\ told.closed = 1 <=> widget \in {"closed", "freed"}
    /\ lib = "up" => told.opened = 1 /\ told.closed = 0

\* Every entry of the menu sends its keys, but for Ctrl+Alt+F8.
KeysArrive == keys.used \ keys.got \subseteq {"F8"}
=============================================================================
