-------------------------------- MODULE SshAuth --------------------------------
(***************************************************************************)
(* The authentication of an SSH session (src/remmina_ssh.c): the key of    *)
(* the host, the method of the profile, panels that ask the user, servers  *)
(* that want several methods in turn.  The loop around it is that of the   *)
(* terminal (plugins remmina_ssh_plugin.c), of the tunnel and of SFTP; a   *)
(* second session of an open connection takes the shorter way.             *)
(***************************************************************************)
EXTENDS Naturals, Sequences

Methods == {"password", "publickey", "kbdint", "hostbased", "gssapi"}
Auths == {"password", "publickey", "kbdint", "agent", "auto", "gssapi"}

CONSTANT Chains     \* what servers ask for: sequences of sets of methods, one set after another

Hosts == {"ok", "unknown", "changed", "error"}
Results == {"null", "success", "partial", "reconnect", "cancel", "fatal", "retry", "again", "empty"}

VARIABLES
    pc,             \* where the thread is
    ssh,            \* the fields of RemminaSSH, and the loop of the caller
    pwd,            \* passwords: in the profile, the current one, the one of ssh
    host,           \* what known_hosts says of the key of the server
    server,         \* what the server asks for, and what is left of it
    hist            \* the key was accepted; failed calls with a password; a lost session

vars == <<pc, ssh, pwd, host, server, hist>>

TypeOK ==
    /\ pc \in {"init", "gui", "ask", "auth", "panel", "open", "closed"}
    /\ ssh \in [auth : Auths, type : {"password", "passphrase", "krb", "kbdint"},
                user : BOOLEAN, cert : BOOLEAN, session : BOOLEAN, authenticated : BOOLEAN, tunnel : BOOLEAN,
                multi : BOOLEAN, partial : BOOLEAN, forked : BOOLEAN, attempt : 0 .. 3, ret : Results]
    /\ pwd \in [saved : BOOLEAN, current : BOOLEAN, ssh : BOOLEAN]
    /\ host \in Hosts
    /\ server.chain \in Chains /\ Len(server.left) <= Len(server.chain)
    /\ hist \in [accepted : BOOLEAN, failed : Nat, lost : BOOLEAN]

\* remmina_ssh_init_from_file, and remmina_ssh_init_from_ssh for a second session, whose
\* original has been accepted; meanwhile known_hosts or the server may have changed.
Init ==
    /\ pc = "init"
    /\ \E a \in Auths, u, t, f, x \in BOOLEAN :
           ssh = [auth |-> a, type |-> "password", user |-> u, cert |-> x, session |-> FALSE,
                  authenticated |-> FALSE, tunnel |-> t /\ ~f, multi |-> FALSE,
                  partial |-> FALSE, forked |-> f, attempt |-> 0, ret |-> "null"]
    /\ \E s, p \in BOOLEAN : pwd = [saved |-> s, current |-> FALSE, ssh |-> p]
    /\ host \in Hosts
    /\ \E c \in Chains : server = [chain |-> c, left |-> c]
    /\ hist = [accepted |-> FALSE, failed |-> 0, lost |-> FALSE]

Offers(left) == IF left = <<>> THEN {} ELSE Head(left)

-----------------------------------------------------------------------------
(* One call of remmina_ssh_auth, as the set of what may come of it.  A     *)
(* state of the call has the fields ssh, pwd, left and failed.             *)

\* A call of ssh_userauth_*: the server accepts a method it asks for, and then asks for
\* nothing or for more, or it refuses, or answers AGAIN; refused is what the code makes of it.
Userauth(c, method, refused, again) ==
    {[c EXCEPT !.ssh.ret = refused, !.ssh.authenticated = FALSE,
               !.failed = IF method = "password" THEN @ + 1 ELSE @],
     [c EXCEPT !.ssh.ret = again, !.ssh.authenticated = FALSE]}
    \cup IF method \notin Offers(c.left) THEN {}
         ELSE IF Len(c.left) = 1
         THEN {[c EXCEPT !.left = <<>>, !.ssh.ret = "success", !.ssh.authenticated = TRUE]}
         ELSE {[c EXCEPT !.left = Tail(@), !.ssh.ret = "partial", !.ssh.multi = TRUE,
                         !.pwd.ssh = FALSE]}

auth_interactive(c) ==
    IF c.ssh.authenticated THEN {[c EXCEPT !.ssh.ret = "success"]}
    ELSE Userauth(c, "kbdint", "retry", "retry")

auth_password(c) ==
    IF ~c.pwd.ssh THEN {[c EXCEPT !.ssh.ret = "retry"]}
    ELSE Userauth(c, "password", "retry", "again")

\* Keys and certificates that cannot be read are fatal, a missing passphrase is asked for; a
\* name only of a profile without a certificate.
auth_pubkey(c) ==
    IF c.ssh.authenticated THEN {[c EXCEPT !.ssh.ret = "success"]}
    ELSE IF ~c.ssh.cert /\ ~c.ssh.user THEN {[c EXCEPT !.ssh.ret = r] : r \in {"empty", "fatal"}}
    ELSE {[c EXCEPT !.ssh.ret = r] : r \in {"fatal", "retry"}}
         \cup Userauth(c, "publickey", "retry", "retry")

\* After a part of the authentication: the password is forgotten, and the next method is
\* the one the server asks for, if that is one alone.
NextMethod(c) ==
    IF c.ssh.ret # "partial" THEN c
    ELSE LET d == [c EXCEPT !.pwd.ssh = FALSE]
             o == Offers(c.left)
         IN  IF o = {"hostbased"} THEN d
             ELSE IF \E a \in {"password", "publickey", "kbdint"} : o = {a}
             THEN [d EXCEPT !.ssh.auth = CHOOSE a \in Methods : o = {a}]
             ELSE [d EXCEPT !.ssh.ret = "fatal"]

\* The method of the profile.  A password is also tried as the answer to a dialog of the
\* server, with what it offered before the password was sent.
ByMethod(c) ==
    LET offered == Offers(c.left)
        fatal == {[c EXCEPT !.ssh.ret = "fatal"]}
    IN  CASE c.ssh.auth = "password" ->
               IF c.ssh.authenticated THEN {[c EXCEPT !.ssh.ret = "success"]}
               ELSE LET first == IF "password" \in offered THEN auth_password(c)
                                 ELSE {[c EXCEPT !.ssh.ret = "null"]}
                    IN  UNION {IF ~d.ssh.authenticated /\ "kbdint" \in offered
                               THEN auth_interactive(d) ELSE {d} : d \in first}
          [] c.ssh.auth = "kbdint" ->
               IF "kbdint" \in offered THEN auth_interactive(c) ELSE fatal
          [] c.ssh.auth = "publickey" ->
               IF "publickey" \in offered THEN auth_pubkey(c) ELSE fatal
          [] c.ssh.auth = "agent" -> Userauth(c, "publickey", "retry", "retry")
          [] c.ssh.auth = "auto" ->
               LET tried == Userauth(c, "publickey", "retry", "retry")
               IN  IF "publickey" \in offered THEN tried
                   ELSE {[d EXCEPT !.ssh.ret = "fatal"] : d \in tried}
          [] c.ssh.auth = "gssapi" ->
               IF "gssapi" \in offered THEN Userauth(c, "gssapi", "retry", "retry") ELSE fatal

\* Mutant: the key of the host is not looked at again.
KnownHost_Any == TRUE

\* ssh_session_is_known_server
KnownHost == host = "ok"

\* remmina_ssh_auth with the current password, or with none
remmina_ssh_auth ==
    LET c == [ssh |-> ssh, left |-> server.left, failed |-> hist.failed,
              pwd |-> [pwd EXCEPT !.ssh = @ \/ (pwd.current /\ ~ssh.forked)]]
    IN  IF KnownHost THEN {NextMethod(d) : d \in ByMethod(c)}
        ELSE {[c EXCEPT !.ssh.ret = "retry", !.pwd = pwd]}

-----------------------------------------------------------------------------
(* remmina_ssh_auth_gui and the loop of the thread.                        *)

\* remmina_ssh_init_session: no connection, or one that perhaps asks for nothing ("none");
\* the name of the user may come from the configuration of ssh.
init_session ==
    /\ pc = "init"
    /\ \/ pc' = "closed" /\ UNCHANGED <<ssh, server, hist>>
       \/ /\ pc' = IF ssh.forked THEN "auth" ELSE "gui"
          /\ \E u \in BOOLEAN :
                ssh' = [ssh EXCEPT !.session = TRUE, !.user = @ \/ u,
                                   !.authenticated = @ \/ server.chain = <<>>]
          /\ server' = [server EXCEPT !.left = server.chain]
          /\ hist' = [hist EXCEPT !.accepted = host = "ok", !.failed = 0]
    /\ UNCHANGED <<pwd, host>>

\* What is asked for depends on the method of the beginning.
TypeOf(auth) ==
    CASE auth = "password" -> "password"
      [] auth \in {"publickey", "agent", "auto"} -> "passphrase"
      [] auth = "gssapi" -> "krb"
      [] auth = "kbdint" -> "kbdint"

Gui ==
    /\ pc = "gui"
    /\ IF ~ssh.session
       THEN /\ pc' = "closed" /\ hist' = [hist EXCEPT !.lost = TRUE]
            /\ UNCHANGED <<ssh, pwd>>
       ELSE /\ pc' \in CASE host = "ok" -> {"auth"}
                         [] host \in {"unknown", "changed"} -> {"ask", "closed"}
                         [] host = "error" -> {"closed"}
            /\ ssh' = [ssh EXCEPT !.type = TypeOf(ssh.auth), !.attempt = 0]
            /\ pwd' = [pwd EXCEPT !.current = pwd.saved]
            /\ UNCHANGED hist
    /\ UNCHANGED <<host, server>>

\* The user accepts the key or not; whether it could be written is not looked at.
Ask ==
    /\ pc = "ask"
    /\ \/ pc' = "closed" /\ UNCHANGED <<host, hist>>
       \/ /\ pc' = "auth"
          /\ hist' = [hist EXCEPT !.accepted = TRUE]
          /\ host' \in {host, "ok"}
    /\ UNCHANGED <<ssh, pwd, server>>

\* Mutant: a third time.
MoreAttempts_Three == ssh.attempt < 3

\* "So we retry only 2 extra time authentication."
MoreAttempts == ssh.attempt < 2

\* The end of remmina_ssh_auth_gui, in the loop of the caller
Return(ret, s) ==
    CASE ret = "success" -> pc' = "open" /\ ssh' = s
      [] ret = "partial" /\ ~s.forked -> pc' = "gui" /\ ssh' = [s EXCEPT !.partial = TRUE]
      [] ret = "reconnect" -> /\ pc' = IF s.partial THEN "gui" ELSE "init"
                              /\ ssh' = [s EXCEPT !.session = FALSE]
      [] OTHER -> pc' = "closed" /\ ssh' = s

\* Wrong passwords and missing names are asked for again, as often as is allowed.
Auth ==
    /\ pc = "auth"
    /\ \E c \in remmina_ssh_auth :
          /\ pwd' = c.pwd
          /\ server' = [server EXCEPT !.left = c.left]
          /\ hist' = [hist EXCEPT !.failed = c.failed]
          /\ IF c.ssh.ret \in {"retry", "empty"} /\ MoreAttempts /\ ~ssh.forked
             THEN pc' = "panel" /\ ssh' = [c.ssh EXCEPT !.attempt = @ + 1]
             ELSE Return(c.ssh.ret, c.ssh)
    /\ UNCHANGED host

\* remmina_protocol_widget_panel_auth, and what is done with its answer
Panel ==
    /\ pc = "panel"
    /\ \/ /\ ssh.type \in {"krb", "kbdint"}
          /\ pc' = "auth" /\ UNCHANGED <<ssh, pwd>>
       \/ /\ ssh.type \in {"password", "passphrase"}
          /\ Return("cancel", ssh) /\ UNCHANGED pwd
       \/ /\ ssh.type = "passphrase" /\ ssh.ret = "empty"
          /\ Return("reconnect", [ssh EXCEPT !.user = TRUE])
          /\ \E s \in BOOLEAN : pwd' = [pwd EXCEPT !.current = TRUE, !.saved = s]
       \/ /\ ssh.type = "passphrase" /\ ssh.ret # "empty"
          /\ pc' = "auth" /\ UNCHANGED ssh
          /\ \E s \in BOOLEAN : pwd' = [pwd EXCEPT !.current = TRUE, !.saved = s]
       \/ /\ ssh.type = "password"
          /\ \E s \in BOOLEAN :
                IF ~ssh.tunnel /\ ~ssh.multi
                THEN /\ Return("reconnect", [ssh EXCEPT !.user = TRUE])
                     /\ pwd' = [pwd EXCEPT !.current = TRUE, !.saved = s, !.ssh = TRUE]
                ELSE /\ pc' = "auth" /\ UNCHANGED ssh
                     /\ pwd' = [pwd EXCEPT !.current = TRUE, !.saved = s]
    /\ UNCHANGED <<host, server, hist>>

Next == init_session \/ Gui \/ Ask \/ Auth \/ Panel

Spec == Init /\ [][Next]_vars

-----------------------------------------------------------------------------

\* A session is open only with a server whose key was known or accepted, and who asks for
\* nothing more; a second session of a connection included.
SuccessMeansAccepted == pc = "open" => hist.accepted /\ server.left = <<>>

\* "the 3rd failed attempt will block the calling thread forever": a connection whose server
\* asks for one method only sees at most three wrong passwords, and at most one before the
\* user is asked and the connection made anew, unless it is that of a tunnel.
FewAttempts ==
    Len(server.chain) <= 1 => hist.failed <= (IF ssh.tunnel THEN 3 ELSE 1)

\* The session is used after it was freed only when the name of the user was asked for, to
\* use a key, after a part of the authentication: then the loop does not connect again.  A
\* password that is asked for then is tried on the same connection.
SessionThere == hist.lost => ssh.partial /\ ssh.type = "passphrase"
=============================================================================
