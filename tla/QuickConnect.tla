---------------------------- MODULE QuickConnect ----------------------------
(***************************************************************************)
(* A connection without a profile of its own, and profiles brought in from *)
(* other files: the URI of the command line (remmina_exec.c), the entry of *)
(* the main window and the files imported or dropped there (remmina_main.  *)
(* c).  A text is a sequence of words and of the characters that the code  *)
(* looks for; an escape is "%" followed by its digits.                     *)
(***************************************************************************)
EXTENDS Integers, FiniteSets, SequencesExt

CONSTANT Files      \* files to import

VARIABLES
    meant,          \* the parts of the last URI, or the file, that the user meant
    opened,         \* what rcw_open_from_file or _from_filename was given: one or none
    typed,          \* the text last typed in the entry of the main window
    protocol,       \* the protocol of the entry: chosen, in memory and in the file
    import          \* the last import: what the files are, how they were named, which were
                    \* saved, which the message names, and that the list was read again

vars == <<meant, opened, typed, protocol, import>>

NULL == <<>>
Protocols == {"RDP", "VNC", "SSH", "SPICE"}

Has(s, c) == Contains(s, c)
At(s, c) == SelectInSeq(s, LAMBDA x : x = c)
Before(s, c) == IF Has(s, c) THEN SubSeq(s, 1, At(s, c) - 1) ELSE s
After(s, c) == IF Has(s, c) THEN SubSeq(s, At(s, c) + 1, Len(s)) ELSE NULL
Mark(c, s) == IF s = NULL THEN NULL ELSE <<c>> \o s

-----------------------------------------------------------------------------

\* remmina_crypt_encrypt: blocks of eight bytes in base64, which end in "=" here.
Encrypted == <<"cipher", "=">>

\* g_uri_escape_string, and the reverse, which does not take an escape cut in two.
Escaped(s) == FlattenSeq([i \in DOMAIN s |-> IF s[i] = "=" THEN <<"%", "3D">> ELSE <<s[i]>>])

\* remmina_crypt_decrypt: a text that is not a whole number of blocks is returned as it is, and
\* one that happens to be is taken for a cipher.
Decrypt(s) ==
    CASE s = Encrypted   -> <<"secret">>
      [] s = <<"32 letters">> -> <<"garbage">>
      [] OTHER -> s

\* What a user means by a URI: its parts, or a file.
URIs ==
    [protocol : Protocols, domain : {NULL, <<"domain">>},
     username : {NULL, <<"user">>, <<"us", "@", "er">>, <<"us", ":", "er">>},
     password : {NULL, Encrypted, <<"plain">>, <<"32 letters">>, <<"pass", "@", "word">>},
     server : {<<"host">>, <<"host", ":", "22">>, <<"saved", ".remmina">>},
     name : {NULL, <<"name">>}, query : BOOLEAN]
Paths == [path : {<<"dir", "file">>, <<"dir", "%", "file">>}, uri : BOOLEAN]

\* What can be said in the forms of the help of the command line (remmina.c).
Sayable(u) ==
    /\ u.domain # NULL => u.protocol = "RDP" /\ u.username # NULL
    /\ u.username # NULL => u.protocol # "SPICE"
    /\ u.password # NULL => u.username # NULL /\ (u.query => u.password = Encrypted)
    /\ u.query => u.protocol = "VNC" /\ u.username # NULL

\* The URI that says it, after the "://": what the help and --encrypt-password print.
Written(u) ==
    (IF u.query
     THEN u.server \o <<"?", "VncUsername", "=">> \o u.username
            \o (IF u.password = NULL THEN NULL
                ELSE <<"&", "VncPassword", "=">> \o Escaped(u.password))
     ELSE (IF u.domain = NULL THEN NULL ELSE u.domain \o <<"\\">>) \o u.username
            \o Mark(":", u.password) \o (IF u.username = NULL THEN NULL ELSE <<"@">>) \o u.server)
    \o Mark("%", u.name)

\* The value of a key in the query of a VNC URI.
Value(q, key) ==
    LET i == At(q, key)
    IN  IF Has(q, key) THEN Before(SubSeq(q, i + 2, Len(q)), "&") ELSE NULL

\* remmina_exec_connect, for a URI of one of the protocols.  The name is cut off first, at the
\* first "%" of all; so nothing that is unescaped afterwards has an escape left in it.
CutName_Never(s) == s
CutName(s) == Before(s, "%")

Connect(p, text) ==
    LET data == CutName(text)
        userat == p \in {"RDP", "VNC", "SSH"} /\ Has(data, "@")
        userpass == IF userat THEN Before(data, "@") ELSE NULL
        full == Before(userpass, ":")
        domained == p = "RDP" /\ Has(full, "\\")
        rest == IF userat THEN After(data, "@") ELSE data
        query == IF p = "VNC" THEN After(rest, "?") ELSE NULL
        user == IF domained THEN After(full, "\\") ELSE full
        server == IF p = "VNC" THEN Before(rest, "?") ELSE rest
    IN  IF data # NULL /\ data[Len(data)] = ".remmina"
        THEN [file |-> data]
        ELSE [protocol |-> p,
              domain |-> IF domained THEN Before(full, "\\") ELSE NULL,
              username |-> IF Has(query, "VncUsername") THEN Value(query, "VncUsername") ELSE user,
              password |-> Decrypt(IF Has(query, "VncPassword") THEN Value(query, "VncPassword")
                                   ELSE After(userpass, ":")),
              server |-> server,
              name |-> IF Has(text, "%") THEN After(text, "%") ELSE server]

-----------------------------------------------------------------------------

NoImport == [kind |-> [f \in {} |-> "saved"], uri |-> FALSE, saved |-> {}, named |-> {},
             loaded |-> FALSE]

Init ==
    /\ meant = NULL /\ opened = {} /\ typed = NULL
    /\ protocol \in [chosen : {"RDP", "VNC"}, memory : {"RDP"}, file : {"RDP"}]
    /\ import = NoImport

\* remmina_exec_connect: a URI of a protocol, a URI of a file, or a path.
ExecConnect ==
    /\ \/ \E u \in URIs :
             /\ Sayable(u) /\ meant' = <<u>>
             /\ opened' = {Connect(u.protocol, Written(u))}
       \/ \E f \in Paths :
             /\ meant' = <<f>>
             /\ opened' = {[file |-> CutName(f.path)]}
    /\ typed' = NULL /\ import' = NoImport
    /\ UNCHANGED protocol

\* remmina_main_quickconnect: the protocol is saved even when the text is not accepted.
quickconnect(text) ==
    /\ typed' = text /\ meant' = NULL /\ import' = NoImport
    /\ protocol' = [protocol EXCEPT !.memory = protocol.chosen, !.file = protocol.chosen]
    /\ opened' =
          IF text = NULL \/ Has(text, "/") THEN {}
          ELSE {[protocol |-> protocol.chosen, server |-> text, name |-> text,
                 disablepasswordstoring |-> TRUE]}

ChooseProtocol ==
    /\ protocol' \in [chosen : {"RDP", "VNC"}, memory : {protocol.memory},
                      file : {protocol.file}]
    /\ UNCHANGED <<meant, opened, typed, import>>

\* remmina_main_import_file_list: of the files that were chosen, or of those that were dropped,
\* whose URIs keep their escapes.
Kinds == {"profile", "no plugin", "no profile", "no name"}

Imported_Nameless(kind, missed) == kind \in {"profile", "no name"} /\ ~missed
Imported(kind, missed) == kind = "profile" /\ ~missed

import_file_list(kind, dropped, escaped) ==
    LET saved == {f \in DOMAIN kind : Imported(kind[f], dropped /\ f \in escaped)}
    IN  /\ import' = [kind |-> kind, uri |-> dropped, saved |-> saved,
                      named |-> DOMAIN kind \ saved, loaded |-> saved # {}]
        /\ meant' = NULL /\ opened' = {} /\ typed' = NULL
        /\ UNCHANGED protocol

Next ==
    \/ ExecConnect \/ ChooseProtocol
    \/ \E text \in {NULL, <<"host">>, <<"host", ":", "22">>, <<"vnc:", "/", "host">>} :
          quickconnect(text)
    \/ \E fs \in SUBSET Files : \E kind \in [fs -> Kinds] : \E dropped \in BOOLEAN :
          \E escaped \in SUBSET fs : import_file_list(kind, dropped, escaped)

Spec == Init /\ [][Next]_vars

-----------------------------------------------------------------------------

TypeOK ==
    /\ meant = NULL \/ Len(meant) = 1
    /\ Cardinality(opened) <= 1
    /\ \A f \in import.saved \cup import.named : f \in Files

\* No part of a URI holds a character that the code splits it at.
Plain(u) ==
    /\ ~Has(u.username, "@") /\ ~Has(u.username, ":") /\ ~Has(u.password, "@")
    /\ u.password # <<"32 letters">>
    /\ u.server # <<"saved", ".remmina">>

\* What the user says in a URI is what the profile has, as long as the texts in it hold none of
\* the characters that split it.  The form that --encrypt-password prints for a query holds the
\* escaped password, which ends the data: the password comes without its last bytes, and what
\* follows is the name.  So the connection is opened with the cipher for a password.
UriKept ==
    \A i \in DOMAIN meant : "server" \in DOMAIN meant[i] /\ Plain(meant[i]) =>
        LET u == meant[i]
            cut == u.query /\ u.password # NULL
        IN  opened =
              {[protocol |-> u.protocol, domain |-> u.domain, username |-> u.username,
                password |-> CASE u.password = NULL -> NULL
                               [] cut -> <<"cipher">>
                               [] OTHER -> Decrypt(u.password),
                server |-> u.server,
                name |-> CASE cut -> <<"3D">> \o Mark("%", u.name)
                           [] ~cut /\ u.name = NULL -> u.server
                           [] OTHER -> u.name]}

\* A file that is named opens, unless its name has a "%" or its URI an escape: then the file
\* of the part before it does.
FileOpened ==
    \A i \in DOMAIN meant : "path" \in DOMAIN meant[i] =>
        opened = {[file |-> IF Has(meant[i].path, "%") THEN <<"dir">> ELSE meant[i].path]}

\* A connection of the entry never keeps a password, and is of the protocol that is saved.
QuickIsSaved ==
    \A o \in opened : typed # NULL =>
        o.disablepasswordstoring /\ o.protocol = protocol.memory /\ o.server = typed

\* Each file is saved or named in the message, never both, and the list shows what was saved.
ImportTold ==
    /\ import.saved \cap import.named = {}
    /\ import.saved \cup import.named = DOMAIN import.kind
    /\ import.loaded <=> import.saved # {}
    /\ \A f \in import.saved : import.kind[f] = "profile"
=============================================================================
