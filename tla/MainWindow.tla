----------------------------- MODULE MainWindow -----------------------------
(***************************************************************************)
(* The list of profiles in the main window (src/remmina_main.c): the rows  *)
(* of the list or of the tree of groups, the search, the rows that are     *)
(* highlighted and the one in selected_filename, and the actions, which    *)
(* ask for the primary password in a nested main loop when a lock says so. *)
(* Meanwhile an editor or a connection may save a profile, or take its     *)
(* file away, and the list is loaded again.                                *)
(***************************************************************************)
EXTENDS Naturals, FiniteSets

CONSTANTS
    Files,      \* profiles
    Grouped,    \* those in the group; the others are in none
    Locked      \* those with profile-lock

VARIABLES
    pref,       \* use_primary_password, lock_connect, lock_edit
    disk,       \* the profiles that have a file
    view,       \* the mode of the preferences, the model shown, and what the search matches
    selected,   \* selected_filename and selected_name
    lit,        \* the highlighted rows
    op,         \* the action under way, what it has still to do and what it named
    unasked,    \* history: the actions that went past a lock
    wrong,      \* history: what was deleted is not what the question named
    hist,       \* history: see below
    fault       \* a profile that could not be loaded was used

vars == <<pref, disk, view, selected, lit, op, unasked, wrong, hist, fault>>

Group == "group"
None == "none"
Ops == {"connect", "connect_group", "edit", "copy", "delete", "connect_many", "delete_many"}
Idle == [what |-> None, step |-> None, todo |-> {}, named |-> None]
NoSelection == [file |-> None, name |-> None]

TypeOK ==
    /\ pref \in [primary : BOOLEAN, lock_connect : BOOLEAN, lock_edit : BOOLEAN]
    /\ disk \subseteq Files
    /\ view \in [mode : {"tree", "list"}, kind : {"tree", "list"}, typed : BOOLEAN,
                 match : SUBSET Files]
    /\ selected \in [file : Files \cup {None}, name : Files \cup {Group, None}]
    /\ lit \subseteq Files \cup {Group}
    /\ op \in [what : Ops \cup {None}, step : {None, "unlock", "confirm"},
               todo : SUBSET (Files \cup {Group}), named : Files \cup {Group, None}]
    /\ unasked \subseteq Ops /\ wrong \in BOOLEAN
    /\ hist \in [vanished : BOOLEAN, left : BOOLEAN]
    /\ fault \in BOOLEAN

\* hist.vanished: a file went away.  hist.left: a row was taken off the highlighted ones.
Init ==
    /\ pref \in [primary : BOOLEAN, lock_connect : BOOLEAN, lock_edit : BOOLEAN]
    /\ disk = Files
    /\ view = [mode |-> "tree", kind |-> "tree", typed |-> FALSE, match |-> Files]
    /\ selected = NoSelection /\ lit = {} /\ op = Idle
    /\ unasked = {} /\ wrong = FALSE
    /\ hist = [vanished |-> FALSE, left |-> FALSE] /\ fault = FALSE

-----------------------------------------------------------------------------
(* The rows.                                                               *)

\* remmina_main_filter_visible_func, remmina_main_load_file_tree_callback and
\* remmina_main_load_file_list_callback
Rows(v, d) ==
    IF v.kind = "list" THEN d \cap v.match
    ELSE d \cup (IF d \cap Grouped = {} THEN {} ELSE {Group})

\* remmina_main_select_file looks at the rows of the first level only.
TopRows(v, d) == IF v.kind = "list" THEN Rows(v, d) ELSE d \ Grouped

\* remmina_main_load_files, which keeps selected_filename
load_files(v, d) ==
    /\ view' = v
    /\ lit' = {selected.file} \cap TopRows(v, d)

\* remmina_main_quick_search_on_changed: a text turns the tree into a list; when it is gone
\* the tree comes back.  Without a reload, the rows that are hidden lose their highlight.
quick_search_on_changed(typed, match) ==
    /\ op = Idle
    /\ LET v == [view EXCEPT !.typed = typed, !.match = match,
                             !.kind = IF typed THEN "list" ELSE view.mode]
       IN  IF v.kind # view.kind
           THEN load_files(v, disk) /\ UNCHANGED hist
           ELSE /\ view' = v /\ lit' = lit \cap Rows(v, disk)
                /\ hist' = [hist EXCEPT !.left = @ \/ lit' # lit]
    /\ UNCHANGED <<pref, disk, selected, op, unasked, wrong, fault>>

\* remmina_main_on_view_toggle clears the search.
remmina_main_on_view_toggle ==
    /\ op = Idle
    /\ LET m == IF view.mode = "tree" THEN "list" ELSE "tree"
       IN  load_files([mode |-> m, kind |-> m, typed |-> FALSE, match |-> Files], disk)
    /\ UNCHANGED <<pref, disk, selected, op, unasked, wrong, hist, fault>>

\* remmina_main_selection_func: called for a row that is to be highlighted, or not any more.
selection_func(row) ==
    selected' = [file |-> IF row = Group THEN None ELSE row, name |-> row]

Click(row) ==
    /\ op = Idle /\ row \in Rows(view, disk)
    /\ selection_func(row) /\ lit' = {row}
    /\ UNCHANGED <<pref, disk, view, op, unasked, wrong, hist, fault>>

ControlClick(row) ==
    /\ op = Idle /\ row \in Rows(view, disk)
    /\ IF row \in lit
       THEN lit' = lit \ {row} /\ hist' = [hist EXCEPT !.left = TRUE] /\ UNCHANGED selected
       ELSE lit' = lit \cup {row} /\ selection_func(row) /\ UNCHANGED hist
    /\ UNCHANGED <<pref, disk, view, op, unasked, wrong, fault>>

-----------------------------------------------------------------------------
(* The locks.                                                              *)

ToConnect(f) == (pref.primary /\ pref.lock_connect) \/ f \in Locked

\* Editing looks at the lock of the profile only when there is a primary password, ...
ToEdit(f) == pref.primary /\ (pref.lock_edit \/ f \in Locked)

\* ... copying and deleting in any case.
ToChange(f) == (pref.primary /\ pref.lock_edit) \/ f \in Locked

\* Mutant: the lock of a profile that is connected with its group is not looked at.
Asks_NotForGroup(what, f) ==
    CASE what = "connect" -> ToConnect(f)
      [] what = "connect_group" -> pref.primary /\ pref.lock_connect
      [] what = "edit" -> ToEdit(f)
      [] what = "copy" -> pref.primary \/ ToChange(f)
      [] OTHER -> ToChange(f)

\* When an action asks for the primary password; remmina_main_on_action_connection_connect_multiple
\* looks at the lock of editing.
Asks(what, f) ==
    CASE what \in {"connect", "connect_group"} -> ToConnect(f)
      [] what = "edit" -> ToEdit(f)
      [] what = "copy" -> pref.primary \/ ToChange(f)
      [] OTHER -> ToChange(f)

\* What the preferences promise, and the option of a profile, "Require password to connect or
\* edit the profile"
Promised(what, f) ==
    IF what \in {"connect", "connect_group", "connect_many"} THEN ToConnect(f) ELSE ToChange(f)

\* remmina_file_get_int of a profile that could not be loaded; it is not reached when the
\* condition before it decides.
UsesNothing(what, f) ==
    /\ f \notin disk
    /\ CASE what = "edit" -> pref.primary /\ ~pref.lock_edit
         [] what \in {"copy", "delete", "delete_many"} -> ~(pref.primary /\ pref.lock_edit)
         [] OTHER -> FALSE

-----------------------------------------------------------------------------
(* The actions.                                                            *)

Begin(what, step, todo) ==
    /\ op = Idle /\ ~fault
    /\ op' = [what |-> what, step |-> step, todo |-> todo, named |-> None]
    /\ UNCHANGED <<pref, disk, view, selected, lit, unasked, wrong, hist, fault>>

\* on_action_connection_connect, of a profile, or of the group by its name
on_action_connection_connect ==
    IF selected.file # None THEN Begin("connect", "unlock", {selected.file})
    ELSE selected.name = Group /\ Begin("connect_group", "unlock", disk \cap Grouped)

\* on_action_connection_edit, on_action_connection_copy, on_action_connection_delete
on_action(what) == selected.file # None /\ Begin(what, "unlock", {selected.file})

\* on_action_connection_connect_multiple, on_action_connection_delete_multiple: the paths are
\* those of the model of this moment, which is not freed; a group that was clicked last is
\* connected with its profiles.
on_action_multiple(what) ==
    /\ Cardinality(lit) > 1
    /\ IF what = "delete_many" THEN Begin(what, "confirm", lit)
       ELSE Begin(what, "unlock", lit \ {Group})

\* The action on one profile, when the lock let it pass
Done(f, rest) ==
    /\ unasked' = IF f \in disk /\ Promised(op.what, f) /\ ~Asks(op.what, f)
                  THEN unasked \cup {op.what} ELSE unasked
    /\ op' = IF op.what = "delete" THEN [op EXCEPT !.step = "confirm", !.named = selected.name]
             ELSE IF rest = {} THEN Idle ELSE [op EXCEPT !.todo = rest]
    /\ IF op.what = "delete_many"
       THEN disk' = disk \ {f} /\ load_files(view, disk')
       ELSE UNCHANGED <<disk, view, lit>>
    /\ selected' = IF rest = {} /\ op.what \in {"connect_many", "delete_many"}
                   THEN NoSelection ELSE selected

\* A lock is not let pass: a single action ends, connecting goes on with the next profile;
\* remmina_main_on_action_connection_delete_multiple returns, with its question on the screen.
Refused(f, rest) ==
    /\ Asks(op.what, f)
    /\ op' = IF rest # {} /\ op.what \in {"connect_group", "connect_many"}
             THEN [op EXCEPT !.todo = rest] ELSE Idle
    /\ UNCHANGED <<disk, view, selected, lit, unasked>>

\* Each profile of an action: loaded, its lock asked for, and what is asked done
Step(f) ==
    /\ op.step = "unlock" /\ f \in op.todo /\ ~fault
    /\ LET rest == op.todo \ {f} IN
       IF UsesNothing(op.what, f)
       THEN fault' = TRUE /\ UNCHANGED <<disk, view, selected, lit, op, unasked>>
       ELSE (Done(f, rest) \/ Refused(f, rest)) /\ UNCHANGED fault
    /\ hist' = [hist EXCEPT !.vanished = @ \/ ~(disk \subseteq disk')]
    /\ UNCHANGED <<pref, wrong>>

\* The answer to the question of on_action_connection_delete: selected_filename is read again.
ConfirmDelete(yes) ==
    /\ op.what = "delete" /\ op.step = "confirm"
    /\ LET f == selected.file IN
       IF yes THEN /\ disk' = disk \ {f} /\ load_files(view, disk')
                   /\ wrong' = (wrong \/ f # op.named)
       ELSE UNCHANGED <<disk, view, lit, wrong>>
    /\ op' = Idle /\ selected' = NoSelection
    /\ UNCHANGED <<pref, unasked, hist, fault>>

ConfirmMany(yes) ==
    /\ op.what = "delete_many" /\ op.step = "confirm"
    /\ op' = IF yes THEN [op EXCEPT !.step = "unlock"] ELSE Idle
    /\ selected' = IF yes THEN selected ELSE NoSelection
    /\ UNCHANGED <<pref, disk, view, lit, unasked, wrong, hist, fault>>

\* remmina_main_update_file_datetime and remmina_main_file_editor_destroy, while nothing is
\* under way or in a nested main loop: a profile is saved anew or its file goes away.
Nested == op.step = "confirm" \/ \E f \in op.todo : Asks(op.what, f)

FilesChange(d) ==
    /\ (op = Idle \/ Nested) /\ ~fault
    /\ disk' = d /\ load_files(view, d)
    /\ hist' = [hist EXCEPT !.vanished = @ \/ ~(disk \subseteq d)]
    /\ UNCHANGED <<pref, selected, op, unasked, wrong, fault>>

Next ==
    \/ remmina_main_on_view_toggle \/ on_action_connection_connect
    \/ quick_search_on_changed(FALSE, Files)
    \/ \E m \in SUBSET Files : quick_search_on_changed(TRUE, m)
    \/ \E row \in Files \cup {Group} : Click(row) \/ ControlClick(row) \/ Step(row)
    \/ \E w \in {"edit", "copy", "delete"} : on_action(w)
    \/ \E w \in {"connect_many", "delete_many"} : on_action_multiple(w)
    \/ \E yes \in BOOLEAN : ConfirmDelete(yes) \/ ConfirmMany(yes)
    \/ \E d \in SUBSET Files : FilesChange(d)

Spec == Init /\ [][Next]_vars

-----------------------------------------------------------------------------

\* Nothing that a preference or the lock of a profile guards is done unasked, but in two cases:
\* several profiles connected at once, where the lock of editing is looked at, and a locked
\* profile edited when no primary password is in use.
AsksFirst ==
    /\ unasked \subseteq {"connect_many", "edit"}
    /\ "connect_many" \in unasked => pref.primary /\ pref.lock_connect /\ ~pref.lock_edit
    /\ "edit" \in unasked => ~pref.primary

\* The profile that is deleted is the one the question named, whatever happened meanwhile.
DeletesNamed == ~wrong

\* With one row highlighted, an action is about that row or about nothing, unless another was
\* taken off the highlighted ones.
RowsMeant ==
    op = Idle /\ Cardinality(lit) = 1 =>
        selected.file \in lit \cup {None} \/ hist.left

\* An action on a profile that cannot be loaded crashes only for a file that went away and was
\* still selected, or for a group among several rows that are deleted.
LoadFaults == fault => hist.vanished \/ op.what = "delete_many"
=============================================================================
