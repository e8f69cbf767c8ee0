------------------------------ MODULE TrayIcon ------------------------------
(***************************************************************************)
(* The status icon and the file that starts it with the session            *)
(* (remmina_icon.c), as the preferences change them.  The program learns   *)
(* the name of the file only when it first shows the icon.                 *)
(***************************************************************************)

VARIABLES
    disabled,       \* remmina_pref.disable_tray_icon
    dark,           \* remmina_pref.dark_theme
    icon,           \* remmina_icon.icon: none, active, passive
    autostart_file, \* whether remmina_icon.autostart_file is set
    file,           \* the file: whether it is there, names the program, and is "Hidden"
    wanted,         \* whether the preferences, when last closed, said to start with the session
    hist            \* why it may not be so

vars == <<disabled, dark, icon, autostart_file, file, wanted, hist>>

NoFile == [there |-> FALSE, whole |-> FALSE, hidden |-> FALSE]
Starts == file.there /\ file.whole /\ ~file.hidden

TypeOK ==
    /\ disabled \in BOOLEAN /\ dark \in BOOLEAN
    /\ icon \in {"none", "active", "passive"}
    /\ autostart_file \in BOOLEAN
    /\ file \in [there : BOOLEAN, whole : BOOLEAN, hidden : BOOLEAN]
    /\ (file.there \/ file = NoFile)
    /\ wanted \in BOOLEAN
    /\ hist \in SUBSET {"unnamed", "lost"}

-----------------------------------------------------------------------------

\* remmina_icon_create_autostart_file, which may find no place for it.
create_autostart_file(f) ==
    IF f.there THEN {f} ELSE {NoFile, [there |-> TRUE, whole |-> TRUE, hidden |-> FALSE]}

\* remmina_icon_set_autostart: a file that cannot be read counts as not hidden, and is written
\* with no more than what is set here.
set_autostart(b) ==
    IF autostart_file /\ b = file.hidden
    THEN [there |-> TRUE, whole |-> file.whole, hidden |-> ~b]
    ELSE file

\* An icon that is hidden, and not shown again.
IconFor_Passive(i, off) ==
    CASE i = "none" -> IF off THEN "none" ELSE "active"
      [] OTHER      -> IF off THEN "passive" ELSE i

\* The icon after remmina_icon_init.
IconFor(i, off) ==
    CASE i = "none" -> IF off THEN "none" ELSE "active"
      [] OTHER      -> IF off THEN "passive" ELSE "active"

\* remmina_icon_init, from the file f and the preference off.
icon_init(f, off) ==
    /\ icon' = IconFor(icon, off)
    /\ autostart_file' = (autostart_file \/ ~off)
    /\ IF autostart_file' /\ ~autostart_file
       THEN file' \in create_autostart_file(f)
       ELSE file' = f

-----------------------------------------------------------------------------

\* The program starts for the first time: nothing is there, and it is to start with the session.
Init ==
    /\ disabled = FALSE /\ dark \in BOOLEAN
    /\ icon = "active" /\ autostart_file = TRUE
    /\ file \in create_autostart_file(NoFile)
    /\ wanted = TRUE
    /\ hist = IF file.there THEN {} ELSE {"lost"}

\* remmina_pref_dialog_on_close_clicked: the icon is rebuilt after the file has been written,
\* if it is one of the things that changed.
Preferences(off, black, box) ==
    LET b == ~off /\ box
        f == set_autostart(b)
    IN /\ disabled' = off /\ dark' = black
       /\ IF off # disabled \/ black # dark
          THEN icon_init(f, off)
          ELSE file' = f /\ UNCHANGED <<icon, autostart_file>>
       /\ wanted' = b
       /\ hist' = IF autostart_file THEN hist \ {"unnamed"} ELSE hist \cup {"unnamed"}

\* The program starts again.
Restart ==
    /\ icon' = IF disabled THEN "none" ELSE "active"
    /\ autostart_file' = ~disabled
    /\ IF disabled THEN file' = file ELSE file' \in create_autostart_file(file)
    /\ UNCHANGED <<disabled, dark, wanted, hist>>

\* Somebody removes the file.
Remove ==
    /\ file.there /\ file' = NoFile /\ hist' = hist \cup {"lost"}
    /\ UNCHANGED <<disabled, dark, icon, autostart_file, wanted>>

Next ==
    \/ \E off, black, box \in BOOLEAN : Preferences(off, black, box)
    \/ Restart \/ Remove

Spec == Init /\ [][Next]_vars

-----------------------------------------------------------------------------

\* The icon is there when the preferences say so, whatever they said before.
IconShown == icon = "active" <=> ~disabled

\* The program starts with the session when the preferences said so; not if they were closed
\* before the icon was first shown, nor after the file was removed, or never made.
AutostartMeant == hist = {} => (Starts <=> wanted)
=============================================================================
