------------------------------ MODULE FileManager ------------------------------
(***************************************************************************)
(* Where the profiles lie (src/remmina_file_manager.c): the folder of the  *)
(* preferences, the old ~/.remmina, the folder of the user, those of the   *)
(* system.  Each time a profile is read or made the first that is there is *)
(* taken; at the start the old profiles and those of the system are copied *)
(* into the folder of the user.  One profile stands for all.               *)
(*                                                                         *)
(* The groups of the profiles, the list of their names and the tree of the *)
(* menus, are built while that folder is read, in the order the system     *)
(* gives.  A group "a/b" is the sequence of its parts; a part is a number, *)
(* in the order of the names, 0 for an empty one.                          *)
(***************************************************************************)
EXTENDS Naturals, Sequences, SequencesExt, FiniteSetsExt

CONSTANT Groups     \* sequences of parts, not empty

Dirs == {"pref", "legacy", "user", "system"}
Contents == {"none", "shipped", "old", "edited"}

VARIABLES
    run,        \* the program runs
    chosen,     \* datadir_path names a folder
    there,      \* the folders that are there
    file,       \* the profile in each of them
    saved,      \* what the user did last: an edited profile, a deleted one, or nothing
    moved,      \* since then another folder has been taken
    read,       \* groups of the profiles read so far, while the folder is read
    list,       \* the array of remmina_file_manager_get_groups
    tree        \* the nodes of the tree: the parts of its children, in order, by path

folder == <<run, chosen, there, file, saved, moved>>
groups == <<read, list, tree>>
vars == <<folder, groups>>

Root == <<>>
Bare == [p \in {Root} |-> <<>>]

TypeOK ==
    /\ run \in BOOLEAN /\ chosen \in BOOLEAN /\ there \subseteq Dirs
    /\ file \in [Dirs -> Contents]
    /\ \A d \in Dirs \ there : file[d] = "none"
    /\ saved \in {"nothing", "edited", "deleted"} /\ moved \in BOOLEAN
    /\ read \subseteq Groups
    /\ ToSet(list) \subseteq Groups
    /\ Root \in DOMAIN tree

Init ==
    /\ run = FALSE /\ chosen = FALSE
    /\ there \in SUBSET {"legacy", "user", "system"}
    /\ \E s, l \in BOOLEAN :
          file = [d \in Dirs |-> CASE d = "system" /\ d \in there /\ s -> "shipped"
                                   [] d = "legacy" /\ d \in there /\ l -> "old"
                                   [] OTHER -> "none"]
    /\ saved = "nothing" /\ moved = FALSE
    /\ read = {} /\ list = <<>> /\ tree = Bare

-----------------------------------------------------------------------------
(* The folders.                                                            *)

\* remmina_file_get_datadir; the folder of the user is named even if it is not there.
remmina_file_get_datadir(c, t) ==
    CASE c /\ "pref" \in t -> "pref"
      [] ~(c /\ "pref" \in t) /\ "legacy" \in t -> "legacy"
      [] ~(c /\ "pref" \in t) /\ "legacy" \notin t /\ "user" \in t -> "user"
      [] ~(c /\ "pref" \in t) /\ "legacy" \notin t /\ "user" \notin t /\ "system" \in t -> "system"
      [] OTHER -> "user"

\* Mutant: a file that is there is written over.
do_copy_Over(from, to) == IF from = "none" THEN to ELSE from

\* remmina_file_manager_do_copy: a file that is there is kept.
do_copy(from, to) == IF to = "none" THEN from ELSE to

\* remmina_file_manager_init: the folder of the preferences is made, or that of the user, or
\* neither can be; the copies are made into the folder of the user, if there is one.
remmina_file_manager_init ==
    /\ ~run /\ run' = TRUE
    /\ there' \in {there \cup {IF chosen THEN "pref" ELSE "user"}, there \cup {"user"}, there}
    /\ file' = IF "user" \notin there' THEN file
               ELSE [file EXCEPT !["user"] = do_copy(file["system"], do_copy(file["legacy"], @))]
    /\ moved' = (moved \/ remmina_file_get_datadir(chosen, there')
                          # remmina_file_get_datadir(chosen, there))
    /\ UNCHANGED <<chosen, saved>>

Quit == run /\ run' = FALSE /\ UNCHANGED <<chosen, there, file, saved, moved>>

Here == remmina_file_get_datadir(chosen, there)

\* A profile is saved in the folder of now, which the user may not write if it is the
\* system's, or deleted.
Save(content) ==
    /\ run /\ Here \in there /\ Here # "system"
    /\ file' = [file EXCEPT ![Here] = content]
    /\ saved' = IF content = "none" THEN "deleted" ELSE "edited"
    /\ moved' = FALSE
    /\ UNCHANGED <<run, chosen, there>>

\* The preference is changed; a folder goes or comes back with the disk it is on.
Choose ==
    /\ run /\ chosen' = ~chosen /\ moved' = TRUE
    /\ UNCHANGED <<run, there, file, saved>>

FolderGone(d) ==
    /\ d \in there /\ d # "system"
    /\ there' = there \ {d} /\ file' = [file EXCEPT ![d] = "none"]
    /\ moved' = TRUE
    /\ UNCHANGED <<run, chosen, saved>>

-----------------------------------------------------------------------------
(* The groups.                                                             *)

\* The position of a new child: before the first that is greater
Place(children, part) ==
    Cardinality({i \in DOMAIN children : \A j \in 1 .. i : children[j] < part}) + 1

\* Mutant: a child stands where a greater one stood.
WithChild_After(children, part) ==
    IF part \in ToSet(children) THEN children ELSE Append(children, part)

WithChild(children, part) ==
    IF part \in ToSet(children) THEN children
    ELSE InsertAt(children, Place(children, part), part)

\* One level: the k-th part of the group is a child of the node of those before it, unless it is
\* an empty rest.
Level(nodes, group, k) ==
    LET node == SubSeq(group, 1, k - 1)
        path == SubSeq(group, 1, k)
    IN  IF k = Len(group) /\ group[k] = 0 THEN nodes
        ELSE [p \in DOMAIN nodes \cup {path} |->
                 IF p = node THEN WithChild(nodes[node], group[k])
                 ELSE IF p \in DOMAIN nodes THEN nodes[p] ELSE <<>>]

\* remmina_file_manager_add_group: one level after the other
add_group(t, group) ==
    LET added[k \in 0 .. Len(group)] ==
            IF k = 0 THEN t ELSE Level(added[k - 1], group, k)
    IN  added[Len(group)]

\* remmina_string_array_add of a group that is not there, which is "" too
get_groups(array, group) == IF group \in ToSet(array) THEN array ELSE Append(array, group)

\* One profile of the folder of now is read, with its group, for the list and for the tree.
Read ==
    /\ run /\ Here \in there /\ file[Here] # "none"
    /\ \E g \in Groups \ read :
          /\ read' = read \cup {g}
          /\ list' = get_groups(list, g)
          /\ tree' = add_group(tree, g)
    /\ UNCHANGED folder

\* The last one has been read: the menus are made, and the tree is freed.
ReadEnd ==
    /\ read # {}
    /\ read' = {} /\ list' = <<>> /\ tree' = Bare
    /\ UNCHANGED folder

-----------------------------------------------------------------------------

\* The folder is read in one go.
Next ==
    \/ /\ read = {} /\ UNCHANGED groups
       /\ \/ remmina_file_manager_init \/ Quit \/ Choose
          \/ \E c \in {"edited", "none"} : Save(c)
          \/ \E d \in Dirs : FolderGone(d)
    \/ Read \/ ReadEnd

Spec == Init /\ [][Next]_vars

-----------------------------------------------------------------------------

\* What the user saved last is what is found, whatever was copied at the starts since, as long
\* as the same folder is taken; what was deleted comes back only from the system.
ProfilesKept ==
    ~moved =>
        /\ saved = "edited" => file[Here] = "edited"
        /\ saved = "deleted" => \/ file[Here] = "none" \/ file["system"] # "none"

\* A group has a node of its own and one for each group it is in; an empty name at its end
\* has none.
Nodes(g) == {SubSeq(g, 1, n) : n \in 1 .. IF Last(g) = 0 THEN Len(g) - 1 ELSE Len(g)}

\* In whatever order the profiles are read the tree has the groups they are in, each once, and
\* in the order of their names; the list has every group once.
TreeRight ==
    /\ DOMAIN tree = {Root} \cup UNION {Nodes(g) : g \in read}
    /\ \A p \in DOMAIN tree :
          /\ \A i, j \in DOMAIN tree[p] : i < j => tree[p][i] < tree[p][j]
          /\ {Append(p, c) : c \in ToSet(tree[p])}
                = {q \in DOMAIN tree : q # Root /\ Front(q) = p}
    /\ ToSet(list) = read /\ IsInjective(list)
=============================================================================
