----------------------------- MODULE FileEditor -----------------------------
(***************************************************************************)
(* The editor of a profile (src/remmina_file_editor.c) beside the other    *)
(* users of the files: the list of the main window, which deletes, and a   *)
(* connection, whose copy of the profile is saved under the name it was    *)
(* loaded from.  The file name of a profile is made from its name, group,  *)
(* protocol and server: here, from its name; two profiles of one name have *)
(* one file.  Of the settings the private key of the tunnel is kept, a     *)
(* file chooser with a check box.                                          *)
(***************************************************************************)
EXTENDS Naturals

CONSTANTS
    Names,      \* names of profiles
    CopyName,   \* the name "COPY ..." of a profile that is copied
    MaxIds      \* profiles that exist at a time, at most

VARIABLES
    disk,       \* the profile under each file name, [id |-> 0] when there is none
    editor,     \* the dialog: the profile in memory and the widgets
    conn,       \* a connection: its copy of a profile
    kept,       \* history: the profiles that were saved and that nobody deleted
    hist,       \* history: see below
    fault       \* a widget that was destroyed was used

vars == <<disk, editor, conn, kept, hist, fault>>

Ids == 1 .. MaxIds
Keys == {"", "k"}
Unnamed == "none"
Protocols == {"RDP", "VNC", "EXEC"}
Pointer == {"null", "live", "freed"}
Nobody == [id |-> 0, key |-> ""]
NoPointers == [tunnel |-> "null", passphrase |-> "null", assistance |-> "null"]
Closed == [open |-> FALSE, fresh |-> FALSE, file |-> Unnamed, id |-> 0, name |-> Unnamed,
           key |-> "", entry |-> Unnamed, protocol |-> "EXEC", chosen |-> "", ptr |-> NoPointers]
NoConn == [file |-> Unnamed, id |-> 0, key |-> "", saves |-> FALSE]

TypeOK ==
    /\ disk \in [Names -> [id : 0 .. MaxIds, key : Keys]]
    /\ editor \in [open : BOOLEAN, fresh : BOOLEAN, file : Names \cup {Unnamed},
                   id : 0 .. MaxIds, name : Names \cup {Unnamed}, key : Keys,
                   entry : Names \cup {Unnamed}, protocol : Protocols, chosen : Keys,
                   ptr : [{"tunnel", "passphrase", "assistance"} -> Pointer]]
    /\ conn \in [file : Names \cup {Unnamed}, id : 0 .. MaxIds, key : Keys, saves : BOOLEAN]
    /\ kept \subseteq Ids
    /\ hist \in [excused : BOOLEAN, revived : BOOLEAN]
    /\ fault \in BOOLEAN

\* hist.excused: a profile got the file name of another, or the disk refused, or the folder
\* could not be opened.  hist.revived: a connection saved its profile after the file was gone.
Init ==
    /\ disk = [n \in Names |-> Nobody]
    /\ editor = Closed
    /\ conn = NoConn
    /\ kept = {}
    /\ hist = [excused |-> FALSE, revived |-> FALSE]
    /\ fault = FALSE

-----------------------------------------------------------------------------
(* The widgets.                                                            *)

HasTunnel(protocol) == protocol \in {"RDP", "VNC"}
HasAssistance(protocol) == protocol = "RDP"

\* gtk_widget_destroy of the container frees what the pointers are to.
Destroyed(ptr) == [x \in DOMAIN ptr |-> IF ptr[x] = "live" THEN "freed" ELSE ptr[x]]

\* Mutant: the pointers to the widgets of the tunnel stay, too.
Reset_None(ptr) == ptr

\* The reset of remmina_file_editor_protocol_combo_on_changed, which leaves the passphrase
\* and those of the assistance alone.
Reset(ptr) == [ptr EXCEPT !.tunnel = "null"]

\* remmina_file_editor_create_all_settings
Created(ptr, protocol) ==
    [x \in DOMAIN ptr |->
        IF IF x = "assistance" THEN HasAssistance(protocol) ELSE HasTunnel(protocol)
        THEN "live" ELSE ptr[x]]

\* remmina_file_editor_protocol_combo_on_changed: the widgets are made anew from the profile
\* in memory; what was typed and not saved is gone.
WithProtocol(e, protocol) ==
    [e EXCEPT !.protocol = protocol, !.ptr = Created(Reset(Destroyed(@)), protocol),
              !.chosen = IF HasTunnel(protocol) THEN e.key ELSE ""]

\* remmina_file_editor_update reads the widgets through the pointers that are not NULL, the
\* passphrase with a tunnel and the assistance with RDP.
UsesFreed(e) ==
    \/ e.ptr.tunnel = "freed"
    \/ e.ptr.tunnel = "live" /\ e.ptr.passphrase = "freed"
    \/ e.protocol = "RDP" /\ e.ptr.assistance = "freed"

\* remmina_file_editor_update, remmina_file_editor_save_ssh_tunnel_tab and
\* remmina_file_editor_update_settings; without a tab of the tunnel there is no key.
Updated(e) == [e EXCEPT !.name = e.entry, !.key = e.chosen]

-----------------------------------------------------------------------------
(* The file names.                                                         *)

\* What stands for the name in the file name, also of a profile that has none yet
InFileName(e) == IF e.name = Unnamed THEN "name" ELSE e.name

\* remmina_file_generate_filename; without the folder there is none.
Generated(e, readable) ==
    [e EXCEPT !.file = IF readable /\ InFileName(e) \in Names THEN InFileName(e) ELSE Unnamed]

Meets(e) == e.file # Unnamed /\ disk[e.file].id \notin {0, e.id}

\* remmina_file_delete
Deleted(d, file) == [n \in Names |-> IF n = file THEN Nobody ELSE d[n]]

-----------------------------------------------------------------------------
(* Opening and editing.                                                    *)

Used == {disk[n].id : n \in Names} \cup {editor.id, conn.id} \cup kept
NewId == {i \in Ids \ Used : \A j \in Ids \ Used : i <= j}
Opened(e, protocol) == editor' = WithProtocol([e EXCEPT !.open = TRUE, !.entry = e.name], protocol)

\* remmina_file_editor_new
remmina_file_editor_new ==
    /\ ~editor.open
    /\ \E i \in NewId, p \in Protocols : Opened([Closed EXCEPT !.fresh = TRUE, !.id = i], p)
    /\ UNCHANGED <<disk, conn, kept, hist, fault>>

\* remmina_file_copy and remmina_file_editor_new_copy: the copy has a file name at once.
remmina_file_editor_new_copy(n) ==
    /\ ~editor.open /\ disk[n].id # 0
    /\ \E i \in NewId, p \in Protocols :
          LET e == Generated([Closed EXCEPT !.id = i, !.name = CopyName[n], !.key = disk[n].key], TRUE)
          IN  Opened(e, p) /\ hist' = [hist EXCEPT !.excused = @ \/ Meets(e)]
    /\ UNCHANGED <<disk, conn, kept, fault>>

\* remmina_file_editor_new_from_filename
remmina_file_editor_new_from_filename(n) ==
    /\ ~editor.open /\ disk[n].id # 0
    /\ \E p \in Protocols :
          Opened([Closed EXCEPT !.file = n, !.id = disk[n].id, !.name = n, !.key = disk[n].key], p)
    /\ UNCHANGED <<disk, conn, kept, hist, fault>>

protocol_combo_on_changed(p) ==
    /\ editor.open /\ p # editor.protocol
    /\ editor' = WithProtocol(editor, p)
    /\ UNCHANGED <<disk, conn, kept, hist, fault>>

\* The file chooser and its check box; remmina_file_editor_run_import_export_dialog sets
\* them, too.
Choose(k) ==
    /\ editor.open /\ HasTunnel(editor.protocol) /\ k # editor.chosen
    /\ editor' = [editor EXCEPT !.chosen = k]
    /\ UNCHANGED <<disk, conn, kept, hist, fault>>

\* Mutant: the handler is connected for a profile that has a file, too.
Listens_Always(e) == TRUE

\* The handler of "changed" is connected for a profile without a file.
Listens(e) == e.fresh

\* The name is typed.  remmina_file_editor_entry_on_changed takes a file name at the first
\* letter, from the profile in memory, not from the entry; at each further one it deletes the
\* file of that name and takes another.
entry_on_changed(n, readable) ==
    /\ editor.open /\ n # editor.entry
    /\ IF Listens(editor)
       THEN LET e == Generated([editor EXCEPT !.entry = n], readable)
            IN  /\ disk' = Deleted(disk, editor.file)
                /\ editor' = e
                /\ hist' = [hist EXCEPT !.excused = @ \/ Meets(e) \/ ~readable]
       ELSE editor' = [editor EXCEPT !.entry = n] /\ UNCHANGED <<disk, hist>>
    /\ UNCHANGED <<conn, kept, fault>>

-----------------------------------------------------------------------------
(* The buttons.                                                            *)

Ready == editor.open /\ editor.entry # Unnamed

\* remmina_file_editor_file_save deletes the file and takes a name, remmina_file_save writes
\* under it; the disk may refuse.
Saved(e, written) ==
    LET gone == Deleted(disk, e.file) IN
    IF ~written THEN gone
    ELSE [gone EXCEPT ![e.name] = [id |-> e.id, key |-> e.key]]

Save(e, readable, written) ==
    LET g == Generated(e, readable) IN
    /\ disk' = Saved(e, readable /\ written)
    /\ kept' = kept \cup {e.id}
    /\ hist' = [hist EXCEPT !.excused = @ \/ Meets(g) \/ ~(readable /\ written)]

\* remmina_file_editor_on_save, and remmina_file_editor_on_save_connect, which opens a
\* connection with a copy
on_save(connects, readable, written) ==
    /\ Ready
    /\ LET e == Updated(editor) IN
       /\ Save(e, readable, written)
       /\ conn' = IF connects /\ conn = NoConn
                  THEN [file |-> Generated(e, readable).file, id |-> e.id, key |-> e.key,
                        saves |-> TRUE]
                  ELSE conn
    /\ fault' = (fault \/ UsesFreed(editor))
    /\ editor' = Closed

\* remmina_file_editor_on_connect: the copy is not to be saved.
on_connect ==
    /\ Ready /\ conn = NoConn
    /\ conn' = [file |-> editor.file, id |-> editor.id, key |-> editor.chosen, saves |-> FALSE]
    /\ fault' = (fault \/ UsesFreed(editor))
    /\ editor' = Closed
    /\ UNCHANGED <<disk, kept, hist>>

\* A save that a validator refuses, and remmina_file_editor_on_default, which saves a copy in
\* the preferences: the profile in memory is updated, the dialog stays.
on_default ==
    /\ Ready
    /\ editor' = Updated(editor)
    /\ fault' = (fault \/ UsesFreed(editor))
    /\ UNCHANGED <<disk, conn, kept, hist>>

on_cancel == editor.open /\ editor' = Closed /\ UNCHANGED <<disk, conn, kept, hist, fault>>

-----------------------------------------------------------------------------
(* The other users of the files.                                           *)

rcw_open_from_filename(n) ==
    /\ conn = NoConn /\ disk[n].id # 0
    /\ conn' = [file |-> n, id |-> disk[n].id, key |-> disk[n].key, saves |-> TRUE]
    /\ UNCHANGED <<disk, editor, kept, hist, fault>>

\* The view mode, the size or a setting of the tool bar is saved with the whole profile.
ConnectionSaves ==
    /\ conn.saves /\ conn.file # Unnamed
    /\ disk' = [disk EXCEPT ![conn.file] = [id |-> conn.id, key |-> conn.key]]
    /\ hist' = [hist EXCEPT !.excused = @ \/ Meets(conn),
                            !.revived = @ \/ disk[conn.file].id # conn.id]
    /\ UNCHANGED <<editor, conn, kept, fault>>

ConnectionEnds == conn # NoConn /\ conn' = NoConn /\ UNCHANGED <<disk, editor, kept, hist, fault>>

\* remmina_main_on_action_connection_delete
DeleteInList(n) ==
    /\ disk[n].id # 0
    /\ disk' = Deleted(disk, n)
    /\ kept' = kept \ {disk[n].id}
    /\ UNCHANGED <<editor, conn, hist, fault>>

Next ==
    \/ remmina_file_editor_new \/ on_connect \/ on_default \/ on_cancel
    \/ ConnectionSaves \/ ConnectionEnds
    \/ \E n \in Names :
          \/ remmina_file_editor_new_copy(n) \/ remmina_file_editor_new_from_filename(n)
          \/ rcw_open_from_filename(n) \/ DeleteInList(n)
    \/ \E p \in Protocols : protocol_combo_on_changed(p)
    \/ \E k \in Keys : Choose(k)
    \/ \E n \in Names, readable \in BOOLEAN : entry_on_changed(n, readable)
    \/ \E c, readable, written \in BOOLEAN : on_save(c, readable, written)

Spec == Init /\ [][Next]_vars

-----------------------------------------------------------------------------

\* A profile that was saved is there until it is deleted in the list, whatever is typed or
\* cancelled in an editor, unless two had one file name or the disk refused.
ProfilesStay ==
    kept \subseteq {disk[n].id : n \in Names} \/ hist.excused

\* A profile has one file: only a connection, which saves under the name its copy was loaded
\* from, brings an old one back.
OneFile ==
    \A m, n \in Names : m # n /\ disk[m].id = disk[n].id => disk[m].id = 0 \/ hist.revived

\* A widget of a protocol that is not shown any more is never read.
NoStaleWidget == ~fault
=============================================================================
