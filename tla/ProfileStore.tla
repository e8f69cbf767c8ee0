----------------------------- MODULE ProfileStore -----------------------------
(***************************************************************************)
(* Where the password of a profile is kept (src/remmina_file.c): in the    *)
(* profile itself, encrypted with a key of the preferences, or in the      *)
(* keyring of a secret plugin, with a dot in the profile.  A profile may   *)
(* be in memory several times, in an editor, a connection or a list; each  *)
(* copy is saved as a whole.  Between two runs of the program the service  *)
(* of the keyring, the plugin of the protocol or the key may go or come.   *)
(***************************************************************************)
EXTENDS Naturals

\* Two finite sets; "." is a password, too, and "none" is what a copy has that has none.
CONSTANTS Passwords, Copies

VARIABLES
    world,      \* what is missing in this run of the program
    disk,       \* the profile on disk: what it says of the password
    keyring,    \* the password under the name of the file, or "none"
    copy,       \* the profiles in memory
    saved,      \* history: what the last save stands for, in which world
    hist,       \* history: see below
    fault       \* the program crashed

vars == <<world, disk, keyring, copy, saved, hist, fault>>

\* Nothing, the service of the keyring, the plugin of the protocol, or the key with which
\* passwords are encrypted elsewhere, is missing.
Worlds == {"none", "service", "plugin", "key"}

Service == world # "service"
Plugin == world # "plugin"
Key == IF world = "key" THEN 2 ELSE 1

Kinds == {"absent", "empty", "dot", "cipher"}
InMemory == Passwords \cup {"", "."}
Values == InMemory \cup {"none", "junk", "raw"}
Form(kind, v, k) == [kind |-> kind, v |-> v, key |-> k]

TypeOK ==
    /\ world \in Worlds
    /\ disk \in [exists : BOOLEAN, pw : [kind : Kinds, v : Values, key : 0 .. 2]]
    /\ keyring \in Values
    /\ copy \in [Copies -> [live : BOOLEAN, named : BOOLEAN, pw : Values, sp : BOOLEAN,
                            disabled : BOOLEAN, plugin : BOOLEAN]]
    /\ saved \in [v : Values \cup {"unknown"}, world : Worlds]
    /\ hist \in [away : BOOLEAN, failed : BOOLEAN, emptied : BOOLEAN]
    /\ fault \in {"none", "plugin"}

Gone == [live |-> FALSE, named |-> FALSE, pw |-> "", sp |-> FALSE,
         disabled |-> FALSE, plugin |-> FALSE]

\* hist.away: the profile was saved or deleted without the service or the plugin.
\* hist.failed: the keyring or the disk refused something.  hist.emptied: a profile whose
\* passwords are not to be stored was saved with an empty one.
Init ==
    /\ world = "none"
    /\ disk = [exists |-> FALSE, pw |-> Form("absent", "none", 0)]
    /\ keyring = "none"
    /\ copy = [c \in Copies |-> Gone]
    /\ saved = [v |-> "unknown", world |-> world]
    /\ hist = [away |-> FALSE, failed |-> FALSE, emptied |-> FALSE]
    /\ fault = "none"

-----------------------------------------------------------------------------
(* Reading.                                                                *)

\* remmina_crypt_decrypt: with another key something else comes out; a text that cannot be
\* decrypted is no password
remmina_crypt_decrypt(form) ==
    CASE form.kind = "cipher" -> IF form.key = Key THEN form.v ELSE "junk"
      [] OTHER -> ""

\* get_password of the secret plugin
Lookup == IF keyring = "none" THEN "" ELSE keyring

\* What remmina_file_load makes of the password: a key that is not on disk is not in memory
Loaded ==
    CASE disk.pw.kind = "absent" -> "none"
      [] ~Plugin /\ disk.pw.kind \in {"dot", "cipher"} -> "raw"
      [] Plugin /\ disk.pw.kind = "dot" /\ Service -> Lookup
      [] OTHER -> remmina_crypt_decrypt(disk.pw)

\* remmina_file_load; the user may change disablepasswordstoring at any time.
remmina_file_load(c) ==
    /\ fault = "none" /\ ~copy[c].live /\ disk.exists
    /\ copy' = [copy EXCEPT ![c] = [Gone EXCEPT !.live = TRUE, !.named = TRUE, !.pw = Loaded,
                                    !.plugin = Plugin,
                                    !.sp = Plugin /\ disk.pw.kind = "dot" /\ Service]]
    /\ UNCHANGED <<world, disk, keyring, saved, hist, fault>>

\* remmina_file_new and remmina_file_generate_filename; a profile with prevent_saving, which
\* the editor sets for a connection that is not to be kept, is as one without a name
remmina_file_new(c) ==
    /\ fault = "none" /\ ~copy[c].live /\ ~disk.exists
    /\ \E n \in BOOLEAN : copy' = [copy EXCEPT ![c] =
           [Gone EXCEPT !.live = TRUE, !.named = n, !.pw = "none", !.plugin = Plugin]]
    /\ UNCHANGED <<world, disk, keyring, saved, hist, fault>>

\* remmina_file_dup and remmina_file_dup_temp_protocol: settings are copied, spsettings are
\* not.
remmina_file_dup(c, d) ==
    /\ fault = "none" /\ copy[c].live /\ copy[c].named /\ ~copy[d].live
    /\ \E n \in BOOLEAN : copy' = [copy EXCEPT ![d] = [copy[c] EXCEPT !.sp = FALSE, !.named = n]]
    /\ UNCHANGED <<world, disk, keyring, saved, hist, fault>>

\* remmina_file_set_string and remmina_file_set_int, of the password and of
\* disablepasswordstoring
remmina_file_set_string(c) ==
    /\ fault = "none" /\ copy[c].live
    /\ \/ \E v \in InMemory : copy' = [copy EXCEPT ![c].pw = v]
       \/ copy' = [copy EXCEPT ![c].disabled = ~@]
    /\ UNCHANGED <<world, disk, keyring, saved, hist, fault>>

remmina_file_free(c) ==
    /\ fault = "none" /\ copy[c].live
    /\ copy' = [copy EXCEPT ![c] = Gone]
    /\ UNCHANGED <<world, disk, keyring, saved, hist, fault>>

-----------------------------------------------------------------------------
(* Writing.                                                                *)

remmina_crypt_encrypt(value) == Form("cipher", value, Key)

\* What remmina_file_save writes in the profile
Written(value, disabled) ==
    CASE Service /\ ~disabled ->
           IF value = "" THEN Form("empty", "none", 0) ELSE Form("dot", "none", 0)
      [] Service /\ disabled /\ value \notin {"", "."} -> Form("dot", "none", 0)
      [] ~Service /\ ~disabled /\ value # "" -> remmina_crypt_encrypt(value)
      [] OTHER -> Form("empty", "none", 0)

\* Mutant: a password that is not to be stored any more stays in the keyring.
KeyringAfter_Kept(value, disabled) ==
    CASE Service /\ ~disabled /\ value \notin {"", "."} -> value
      [] Service /\ ~disabled /\ value = "" -> "none"
      [] OTHER -> keyring

\* What it makes of the keyring, when the service does what it is asked
KeyringAfter(value, disabled) ==
    CASE Service /\ ~disabled /\ value \notin {"", "."} -> value
      [] Service /\ ~disabled /\ value = "" -> "none"
      [] Service /\ disabled /\ value \notin {"", "."} -> "none"
      [] OTHER -> keyring

\* store_password and delete_password of the secret plugin, which fail without a word
Stored(kept, value, disabled) == IF kept THEN KeyringAfter(value, disabled) ELSE keyring

\* remmina_file_save, of a copy r as it is; it starts from the file on disk, and leaves the
\* password there alone when the copy has none.  Nothing is said to the user when the keyring
\* or the disk refuses.
Save(r) ==
    IF ~r.named THEN UNCHANGED <<disk, keyring, saved, hist, fault>>
    ELSE IF ~r.plugin THEN fault' = "plugin" /\ UNCHANGED <<disk, keyring, saved, hist>>
    ELSE IF r.pw = "none"
    THEN /\ \E written \in BOOLEAN : disk' = [disk EXCEPT !.exists = @ \/ written]
         /\ UNCHANGED <<keyring, saved, hist, fault>>
    ELSE \E kept, written \in BOOLEAN :
            /\ keyring' = Stored(kept, r.pw, r.disabled)
            /\ disk' = IF written THEN [exists |-> TRUE, pw |-> Written(r.pw, r.disabled)]
                                  ELSE disk
            /\ saved' = [v |-> IF ~kept \/ ~written THEN "unknown"
                               ELSE IF r.disabled THEN "" ELSE r.pw,
                         world |-> world]
            /\ hist' = [away |-> hist.away \/ ~Service,
                        failed |-> hist.failed \/ ~kept \/ ~written,
                        emptied |-> hist.emptied \/ (r.disabled /\ r.pw \in {"", "."})]
            /\ UNCHANGED fault

remmina_file_save(c) ==
    /\ fault = "none" /\ copy[c].live
    /\ Save(copy[c])
    /\ UNCHANGED <<world, copy>>

\* remmina_file_store_secret_plugin_password, of the multi password changer: a password from
\* the keyring is changed there only.
remmina_file_store_secret_plugin_password(c) ==
    /\ fault = "none" /\ copy[c].live /\ copy[c].named
    /\ \E v \in Passwords :
          IF copy[c].sp
          THEN /\ keyring' = v
               /\ saved' = [v |-> IF disk.pw.kind = "dot" THEN v ELSE "unknown",
                            world |-> world]
               /\ hist' = [hist EXCEPT !.failed = @ \/ disk.pw.kind # "dot" \/ ~disk.exists]
               /\ UNCHANGED <<disk, copy, fault>>
          ELSE /\ copy' = [copy EXCEPT ![c].pw = v]
               /\ Save([copy[c] EXCEPT !.pw = v])
    /\ UNCHANGED world

\* remmina_file_delete with remmina_file_unsave_passwords: the profile is loaded, its
\* passwords emptied, saved if there is a plugin for it, and unlinked.
remmina_file_delete ==
    /\ fault = "none" /\ disk.exists
    /\ \E kept \in BOOLEAN, d \in BOOLEAN :
          /\ keyring' = Stored(kept /\ Plugin, "", d)
          /\ hist' = [away |-> hist.away \/ ~Service \/ ~Plugin,
                      failed |-> hist.failed \/ ~kept,
                      emptied |-> hist.emptied \/ d]
    /\ disk' = [exists |-> FALSE, pw |-> Form("absent", "none", 0)]
    /\ saved' = [saved EXCEPT !.v = "unknown"]
    /\ UNCHANGED <<world, copy, fault>>

\* The program ends, or crashes, and is started in another world.
Restart ==
    /\ copy' = [c \in Copies |-> Gone]
    /\ world' \in Worlds
    /\ fault' = "none"
    /\ UNCHANGED <<disk, keyring, saved, hist>>

Next ==
    \/ \E c \in Copies :
          \/ remmina_file_load(c) \/ remmina_file_new(c) \/ remmina_file_set_string(c)
          \/ remmina_file_free(c) \/ remmina_file_save(c)
          \/ remmina_file_store_secret_plugin_password(c)
    \/ \E c, d \in Copies : remmina_file_dup(c, d)
    \/ remmina_file_delete \/ Restart

Spec == Init /\ [][Next]_vars

-----------------------------------------------------------------------------

\* What was saved last is what is read again in the same world, in between whatever the
\* other worlds read and do not save: unless the password is a dot.
PasswordKept ==
    disk.exists /\ saved.v \notin {"unknown", "."} /\ world = saved.world => Loaded = saved.v

\* The keyring keeps no password of a profile that does not refer to it, or was deleted, if
\* the service and the plugin were always there and refused nothing, and no profile that
\* stores no passwords was saved without one.
SecretsForgotten ==
    keyring # "none" /\ disk.pw.kind # "dot" => hist.away \/ hist.failed \/ hist.emptied

\* A save crashes only for a profile whose plugin is missing.
StoreFaults == fault = "plugin" => ~Plugin
=============================================================================
