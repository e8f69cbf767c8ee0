------------------------------ MODULE Preferences ------------------------------
(***************************************************************************)
(* The preferences (src/remmina_pref.c, src/remmina_pref_dialog.c): values *)
(* in memory, the file remmina.pref, and the file of a colour scheme.  Of  *)
(* the keys four stand for all: "max", edited in the dialog (here the      *)
(* length of the lists of recent servers), "list", changed in memory by a  *)
(* dialog of its own (resolutions, keystrokes), "color", which a scheme    *)
(* overrides, and "plugin", which is only in the file.                     *)
(***************************************************************************)
EXTENDS Naturals, SequencesExt

CONSTANT Servers        \* names of servers, which have no comma: it parts them in the file

Values == {1, 2}
Default == 2
Absent == 0             \* no such key in the file
Empty == 3              \* an empty string

VARIABLES
    run,        \* the program runs
    mem,        \* remmina_pref
    disk,       \* remmina.pref
    scheme,     \* the colour in remmina.colors, or Absent
    dialog,     \* the widgets of the dialog of preferences
    meant,      \* what the user chose last
    hist        \* history: see below

vars == <<run, mem, disk, scheme, dialog, meant, hist>>

TypeOK ==
    /\ run \in BOOLEAN
    /\ mem \in [max : Values, list : Values, color : Values \cup {Empty, Absent}]
    /\ disk \in [there : BOOLEAN, rw : BOOLEAN, named : BOOLEAN, max : Values \cup {Absent},
                 list : Values \cup {Absent}, color : Values \cup {Absent, Empty},
                 plugin : Values \cup {Absent}, recent : Seq(Servers)]
    /\ scheme \in Values \cup {Absent}
    /\ dialog \in [open : BOOLEAN, max : Values, color : Values \cup {Empty}]
    /\ meant \in [max : Values, list : Values, plugin : Values \cup {Absent}]
    /\ hist \in [lost : BOOLEAN, unnamed : BOOLEAN]

Closed == [open |-> FALSE, max |-> Default, color |-> Default]

\* hist.lost: values of the memory were dropped, or could not be written.  hist.unnamed: a run
\* began with a file that had no section of its own.
Init ==
    /\ run = FALSE
    /\ mem = [max |-> Default, list |-> Default, color |-> Absent]
    /\ disk = [there |-> FALSE, rw |-> TRUE, named |-> FALSE, max |-> Absent, list |-> Absent,
               color |-> Absent, plugin |-> Absent, recent |-> <<>>]
    /\ scheme = Absent /\ dialog = Closed
    /\ meant = [max |-> Default, list |-> Default, plugin |-> Absent]
    /\ hist = [lost |-> FALSE, unnamed |-> FALSE]

-----------------------------------------------------------------------------
(* The file.                                                               *)

Or(v) == IF v = Absent THEN Default ELSE v

\* Mutant: the file is written anew.
Save_Anew(d, m) ==
    IF ~d.there \/ ~d.rw THEN d
    ELSE [d EXCEPT !.named = TRUE, !.max = m.max, !.list = m.list, !.plugin = Absent,
                   !.color = IF m.color = Absent THEN Empty ELSE m.color]

\* remmina_pref_save: what it does not know of stays in the file.  A file that is not there
\* cannot be written.
Save(d, m) ==
    IF ~d.there \/ ~d.rw THEN d
    ELSE [d EXCEPT !.named = TRUE, !.max = m.max, !.list = m.list,
                   !.color = IF m.color = Absent THEN Empty ELSE m.color]

\* The values that remmina_pref_init reads first
Read(d, m) == [m EXCEPT !.max = Or(d.max), !.list = Or(d.list)]

\* remmina_pref_file_load_colors: those of the file, a scheme laid over it
LoadColors(d) == IF scheme' # Absent THEN scheme' ELSE Or(d.color)

\* remmina_pref_init: a file without a section of its own is saved before the colours are
\* read, from the file as it was; without a secret the file is made.
remmina_pref_init(d, m) ==
    /\ disk' = LET e == IF d.named THEN d ELSE Save(d, Read(d, m))
               IN  [e EXCEPT !.there = @ \/ d.rw]
    /\ mem' = [Read(d, m) EXCEPT !.color = LoadColors(d)]

\* What the memory holds and the file does not
Unsaved == disk.there /\ (Or(disk.max) # mem.max \/ Or(disk.list) # mem.list)

-----------------------------------------------------------------------------

Start(rw) ==
    /\ ~run /\ run' = TRUE
    /\ UNCHANGED scheme
    /\ remmina_pref_init([disk EXCEPT !.rw = rw], [mem EXCEPT !.color = Absent])
    /\ hist' = [hist EXCEPT !.unnamed = @ \/ (disk.there /\ ~disk.named)]
    /\ UNCHANGED <<dialog, meant>>

\* The end of the main window saves; a run without one, or that is killed, does not.
Quit(saves) ==
    /\ run /\ ~dialog.open /\ run' = FALSE
    /\ disk' = IF saves THEN Save(disk, mem) ELSE disk
    /\ hist' = [hist EXCEPT !.lost = @ \/ (Unsaved /\ (~saves \/ ~disk.rw))]
    /\ UNCHANGED <<mem, scheme, dialog, meant>>

\* remmina_pref_save from one of the windows
remmina_pref_save ==
    /\ run /\ disk' = Save(disk, mem)
    /\ UNCHANGED <<run, mem, scheme, dialog, meant, hist>>

\* remmina_pref_set_value, of a plugin; a file that is not there is not made.
remmina_pref_set_value(v) ==
    /\ run
    /\ IF disk.there /\ disk.rw
       THEN disk' = [disk EXCEPT !.plugin = v] /\ meant' = [meant EXCEPT !.plugin = v]
       ELSE UNCHANGED <<disk, meant>>
    /\ UNCHANGED <<run, mem, scheme, dialog, hist>>

\* The length of the lists, which the dialog lets be none
recent_maximum == IF mem.max = Default THEN 2 ELSE 0

\* Mutant: a server that is in the list stays where it is, too.
Recent_Twice(list, s) ==
    LET n == Len(list) + 1 - recent_maximum
    IN  Append(IF n > 0 THEN SubSeq(list, n + 1, Len(list)) ELSE list, s)

\* The list of recent servers with s at its end, the oldest ones dropped
Recent(list, s) ==
    LET others == RemoveFirst(list, s)
        n == Len(others) + 1 - recent_maximum
    IN  Append(IF n > 0 THEN SubSeq(others, n + 1, Len(others)) ELSE others, s)

\* remmina_pref_add_recent; the file is made where there is none
remmina_pref_add_recent(s) ==
    /\ run /\ recent_maximum > 0
    /\ disk' = IF disk.rw THEN [disk EXCEPT !.there = TRUE, !.recent = Recent(@, s)] ELSE disk
    /\ UNCHANGED <<run, mem, scheme, dialog, meant, hist>>

remmina_pref_clear_recent ==
    /\ run /\ dialog.open /\ disk.rw
    /\ disk' = [disk EXCEPT !.recent = <<>>]
    /\ UNCHANGED <<run, mem, scheme, dialog, meant, hist>>

-----------------------------------------------------------------------------
(* The dialog.                                                             *)

Widgets(m) == [open |-> TRUE, max |-> m.max, color |-> m.color]

remmina_pref_dialog_new ==
    /\ run /\ ~dialog.open /\ dialog' = Widgets(mem)
    /\ UNCHANGED <<run, mem, disk, scheme, meant, hist>>

Edit(max, color) ==
    /\ dialog.open /\ dialog' = [dialog EXCEPT !.max = max, !.color = color]
    /\ UNCHANGED <<run, mem, disk, scheme, meant, hist>>

\* remmina_pref_on_button_resolutions_clicked, remmina_pref_on_button_keystrokes_clicked
EditList(v) ==
    /\ dialog.open /\ mem' = [mem EXCEPT !.list = v] /\ meant' = [meant EXCEPT !.list = v]
    /\ UNCHANGED <<run, disk, scheme, dialog, hist>>

\* remmina_pref_on_color_scheme_selected, remmina_pref_on_color_scheme_removed: all the
\* preferences are read again, and the widgets set to them.
remmina_pref_on_color_scheme(v) ==
    /\ dialog.open /\ scheme' = v
    /\ remmina_pref_init(disk, mem)
    /\ dialog' = Widgets(mem')
    /\ hist' = [hist EXCEPT !.lost = @ \/ mem.list # mem'.list \/ mem.max # mem'.max]
    /\ UNCHANGED <<run, meant>>

\* remmina_pref_on_dialog_destroy
remmina_pref_on_dialog_destroy ==
    /\ dialog.open /\ dialog' = Closed
    /\ UNCHANGED scheme
    /\ LET m == [mem EXCEPT !.max = dialog.max, !.color = dialog.color]
       IN  /\ remmina_pref_init(Save(disk, m), m)
           /\ meant' = [meant EXCEPT !.max = dialog.max]
           /\ hist' = [hist EXCEPT !.lost = @ \/ mem'.max # m.max \/ mem'.list # m.list]
    /\ UNCHANGED run

Next ==
    \/ \E b \in BOOLEAN : Start(b) \/ Quit(b)
    \/ remmina_pref_save \/ remmina_pref_clear_recent \/ remmina_pref_dialog_new
    \/ remmina_pref_on_dialog_destroy
    \/ \E s \in Servers : remmina_pref_add_recent(s)
    \/ \E v \in Values : remmina_pref_set_value(v) \/ EditList(v)
    \/ \E v, w \in Values : Edit(v, w)
    \/ \E v \in Values \cup {Absent} : remmina_pref_on_color_scheme(v)

Spec == Init /\ [][Next]_vars

-----------------------------------------------------------------------------

\* What the user chose is what holds, in this run and the next, unless the file could not be
\* written, the program ended without writing it, or a scheme of colours was read over it.
ChoicesKept == run /\ ~hist.lost => mem.max = meant.max /\ mem.list = meant.list

\* What a plugin keeps in the file outlives every save of the program.
PluginValuesKept == disk.there => disk.plugin = meant.plugin

\* There are colours, unless a run found a file that an earlier run had made for its secret
\* only, and then wrote empty ones into it, before it had read any.
ColorsThere == run /\ mem.color = Empty => hist.unnamed

\* A server is in the list once.
RecentsOnce == \A i, j \in DOMAIN disk.recent : disk.recent[i] = disk.recent[j] => i = j
=============================================================================
