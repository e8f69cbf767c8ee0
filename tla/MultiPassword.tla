----------------------------- MODULE MultiPassword -----------------------------
(***************************************************************************)
(* The multi password changer (src/remmina_mpchange.c): what is typed in   *)
(* the search fields is looked for half a second later, the profiles found *)
(* are listed, and those that are ticked get the new password, one in each *)
(* idle step of the main loop.  What a change does to a profile is the     *)
(* matter of ProfileStore.                                                 *)
(***************************************************************************)
EXTENDS Naturals, Sequences, FiniteSets, Functions

CONSTANT Files      \* profiles; a search is the set of those that match it, {} for an empty one

VARIABLES
    dialog,     \* "none", "open", "message" (the passwords differ), "done" (the count is told)
    typed,      \* what the search fields hold
    searched,   \* what the list was made for
    timer,      \* the source of the search is pending
    list,       \* the rows: profile and tick
    iter,       \* the row of changenext, 0 when it does not run; its list is the one shown
    stale,      \* the row belongs to a list that was replaced
    changed,    \* the profiles changed since the click, in order
    count       \* changed_passwords_count

vars == <<dialog, typed, searched, timer, list, iter, stale, changed, count>>

TypeOK ==
    /\ dialog \in {"none", "open", "message", "done"}
    /\ typed \subseteq Files /\ searched \subseteq Files
    /\ timer \in BOOLEAN /\ stale \in BOOLEAN
    /\ list \in Seq([f : Files, sel : BOOLEAN]) /\ Len(list) <= Cardinality(Files)
    /\ iter \in 0 .. Cardinality(Files)
    /\ changed \in Seq(Files) /\ count \in 0 .. Cardinality(Files)

Init ==
    /\ dialog = "none" /\ typed = {} /\ searched = {} /\ timer = FALSE
    /\ list = <<>> /\ iter = 0 /\ stale = FALSE /\ changed = <<>> /\ count = 0

\* remmina_mpchange_file_list_callback: every profile found is ticked.
Rows(found) ==
    {[i \in DOMAIN order |-> [f |-> order[i], sel |-> TRUE]] :
        order \in Injection(1 .. Cardinality(found), found)}

\* remmina_mpchange_schedule and the beginning of remmina_file_multipasswd_changer_mt, with
\* a keyring; the first search is started as if its fields had changed.
remmina_file_multipasswd_changer_mt ==
    /\ dialog = "none"
    /\ dialog' = "open"
    /\ typed' \in SUBSET Files
    /\ searched' = {} /\ list' = <<>> /\ changed' = <<>> /\ count' = 0
    /\ timer' = TRUE /\ iter' = 0 /\ stale' = FALSE

\* remmina_mpchange_searchfield_changed; the fields are sensitive while nothing is changed.
remmina_mpchange_searchfield_changed ==
    /\ dialog = "open" /\ iter = 0
    /\ typed' \in SUBSET Files
    /\ timer' = TRUE
    /\ UNCHANGED <<dialog, searched, list, iter, stale, changed, count>>

\* remmina_mpchange_searchfield_changed_to
remmina_mpchange_searchfield_changed_to ==
    /\ dialog \in {"open", "message"} /\ timer
    /\ timer' = FALSE
    /\ searched' = typed
    /\ list' \in Rows(typed)
    /\ stale' = (iter # 0)
    /\ UNCHANGED <<dialog, typed, iter, changed, count>>

\* remmina_mpchange_checkbox_toggle
remmina_mpchange_checkbox_toggle(i) ==
    /\ dialog = "open" /\ iter = 0 /\ i \in DOMAIN list
    /\ list' = [list EXCEPT ![i].sel = ~@]
    /\ UNCHANGED <<dialog, typed, searched, timer, iter, stale, changed, count>>

\* Mutant: a search that is pending goes on.
TimerAfterClick_Kept == timer

\* The first lines of remmina_mpchange_dochange_clicked
TimerAfterClick == FALSE

\* remmina_mpchange_dochange_clicked: nothing to change, two passwords that differ, a change
remmina_mpchange_dochange_clicked ==
    /\ dialog = "open" /\ iter = 0
    /\ timer' = TimerAfterClick
    /\ \/ /\ list = <<>> /\ UNCHANGED <<dialog, iter, changed, count>>
       \/ /\ list # <<>> /\ dialog' = "message" /\ UNCHANGED <<iter, changed, count>>
       \/ /\ list # <<>> /\ iter' = 1 /\ changed' = <<>> /\ count' = 0
          /\ UNCHANGED dialog
    /\ UNCHANGED <<typed, searched, list, stale>>

MessageClosed ==
    /\ dialog = "message" /\ dialog' = "open"
    /\ UNCHANGED <<typed, searched, timer, list, iter, stale, changed, count>>

\* changenext with remmina_mpchange_dochange: a profile that was deleted or cannot be read is
\* left out; after the last row the dialog ends.
changenext ==
    /\ dialog = "open" /\ iter # 0 /\ ~stale
    /\ \/ /\ list[iter].sel
          /\ changed' = Append(changed, list[iter].f) /\ count' = count + 1
       \/ UNCHANGED <<changed, count>>
    /\ IF iter < Len(list) THEN iter' = iter + 1 /\ UNCHANGED <<dialog, timer>>
       ELSE iter' = 0 /\ dialog' = "done" /\ timer' = FALSE
    /\ UNCHANGED <<typed, searched, list, stale>>

\* remmina_mpchange_stopsearch, or the dialog closed: the sources are removed.
Close ==
    /\ dialog = "open"
    /\ dialog' = "done" /\ iter' = 0 /\ timer' = FALSE
    /\ UNCHANGED <<typed, searched, list, stale, changed, count>>

\* The number of passwords is told, if there is one, and everything freed.
End ==
    /\ dialog = "done"
    /\ dialog' = "none" /\ typed' = {} /\ searched' = {} /\ list' = <<>>
    /\ changed' = <<>> /\ count' = 0 /\ stale' = FALSE
    /\ UNCHANGED <<timer, iter>>

Next ==
    \/ remmina_file_multipasswd_changer_mt \/ remmina_mpchange_searchfield_changed
    \/ remmina_mpchange_searchfield_changed_to \/ remmina_mpchange_dochange_clicked
    \/ MessageClosed \/ changenext \/ Close \/ End
    \/ \E i \in 1 .. Cardinality(Files) : remmina_mpchange_checkbox_toggle(i)

Spec == Init /\ [][Next]_vars

-----------------------------------------------------------------------------

\* The rows that are changed are those the user saw and ticked: no search replaces them
\* meanwhile, and what was typed last and not yet looked for does not count.
ChangesTicked ==
    /\ iter # 0 => ~timer /\ ~stale
    /\ \A i \in DOMAIN changed :
           \E j \in DOMAIN list : list[j].f = changed[i] /\ (list[j].sel \/ iter = 0)
    /\ Range(changed) \subseteq searched

\* Each profile is changed once, and what is told is what was changed; no source is pending
\* when the dialog is gone.
ChangesCounted ==
    /\ IsInjective(changed) /\ count = Len(changed)
    /\ dialog \in {"done", "none"} => ~timer /\ iter = 0
=============================================================================
