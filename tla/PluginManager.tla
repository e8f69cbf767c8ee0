---------------------------- MODULE PluginManager ----------------------------
(***************************************************************************)
(* The plugins (src/remmina_plugin_manager.c, remmina_plugin_native.c, the *)
(* answers that remmina_curl_connector.c hands over): loaded at the start  *)
(* and again after a download, registered in one table, listed in a window *)
(* where the user asks for more.  Requests are sent by threads of their    *)
(* own; what they answer is used by idle sources.                          *)
(***************************************************************************)
EXTENDS Naturals, Sequences, FiniteSets, Functions

CONSTANTS
    Natives, Pythons,   \* plugins the server offers: shared libraries and scripts
    MaxRequests         \* bound of the requests under way

Offered == Natives \cup Pythons
Secrets == {"kwallet", "glibsecret"}
InitOrder(s) == IF s = "kwallet" THEN 1 ELSE 2000
Wrapper == "python_wrapper"
Registrable == Offered \cup Secrets \cup {Wrapper}

VARIABLES
    dir,            \* the files of the directory of the user
    imode,          \* the program was started for one dialog and asks nothing of the server
    works,          \* the secret plugins whose init succeeds
    table,          \* remmina_plugin_table: how often each plugin is registered
    loaded,         \* loaded_plugins, by name; "freed": a string that was freed
    secret,         \* remmina_secret_plugin
    available,      \* remmina_available_plugin_table
    window,         \* remmina_plugin_window: "dead" points to a window that is gone
    listed,         \* what the window offers
    downloading,    \* of the data of the window
    result,         \* the message about a download, and what was asked for
    asked,          \* requests under way
    idles,          \* answers that wait for the main loop
    hist,           \* history: see Properties
    fault           \* what is used that is gone, or the abort

vars == <<dir, imode, works, table, loaded, secret, available, window, listed, downloading,
          result, asked, idles, hist, fault>>

List == "list"
Answers == {"good", "bad", "unsigned", "long"}

TypeOK ==
    /\ dir \subseteq Offered /\ works \subseteq Secrets /\ imode \in BOOLEAN
    /\ table \in [Registrable -> 0 .. 2] /\ loaded \subseteq Registrable \cup {"freed"}
    /\ secret \in Secrets \cup {"none"}
    /\ available \subseteq Offered /\ listed \subseteq available
    /\ window \in {"none", "shown", "dead"} /\ downloading \in BOOLEAN
    /\ result \in {"none", "nothing", "successful", "partially", "failed"}
    /\ asked \subseteq {{List}} \cup SUBSET Offered
    /\ Len(idles) <= MaxRequests
    /\ hist \subseteq {"orphan", "dropped", "wrong"}
    /\ fault \in {"none", "window", "name", "abort"}

\* Mutant: a library is opened again though it has been loaded.
ToLoad_Again(files, known) == files \cap Natives

\* remmina_plugin_manager_load_plugins: libraries that are not known by name
ToLoad(files, known) == (files \cap Natives) \ known

\* Scripts are looked for by their whole path, which is no name, and loaded once more; the
\* interpreter has imported them and registers nothing.  What is noted of one is part of a
\* string that is freed at once.
Scripts(files, reg) == IF reg[Wrapper] > 0 THEN files \cap Pythons ELSE {}

Registered(reg, natives, scripts) ==
    [p \in Registrable |->
        IF p \in natives THEN reg[p] + 1
        ELSE IF p \in scripts /\ reg[p] = 0 THEN 1 ELSE reg[p]]

\* Mutant: the last that works is taken.
Best_Last(s) == CHOOSE x \in s : \A y \in s : InitOrder(x) >= InitOrder(y)

\* The first that works in the order of init_order
Best(s) == CHOOSE x \in s : \A y \in s : InitOrder(x) <= InitOrder(y)

\* remmina_plugin_manager_init, and remmina_on_startup, which asks for the list
Init ==
    /\ dir \in SUBSET Offered /\ works \in SUBSET Secrets /\ imode \in BOOLEAN
    /\ \E natives \in {Secrets, Secrets \cup {Wrapper}} :
          LET libs == natives \cup (dir \cap Natives)
              reg == [p \in Registrable |-> IF p \in libs THEN 1 ELSE 0]
              scripts == Scripts(dir, reg)
          IN  /\ table = Registered(reg, {}, scripts)
              /\ loaded = libs \cup IF scripts = {} THEN {} ELSE {"freed"}
    /\ secret = IF works = {} THEN "none" ELSE Best(works)
    /\ available = {} /\ window = "none" /\ listed = {} /\ downloading = FALSE
    /\ result = "none" /\ idles = <<>> /\ hist = {} /\ fault = "none"
    /\ asked = IF imode THEN {} ELSE {{List}}

\* remmina_plugin_manager_show: a window that points nowhere is taken to be shown.
Show ==
    /\ fault = "none" /\ window = "none"
    /\ window' = "shown" /\ listed' = available /\ downloading' = FALSE
    /\ UNCHANGED <<dir, imode, works, table, loaded, secret, available, result, asked, idles, hist, fault>>

\* The main window is closed, and the window of the plugins with it, without a response.
ParentDestroyed ==
    /\ fault = "none" /\ window = "shown" /\ result = "none"
    /\ window' = "dead" /\ listed' = {} /\ hist' = hist \cup {"orphan"}
    /\ UNCHANGED <<dir, imode, works, table, loaded, secret, available, downloading, result, asked, idles, fault>>

\* remmina_plugin_manager_plugin_request and remmina_curl_compose_message: a thread sends what
\* is installed and what is wanted.
Send(names) == IF imode THEN asked ELSE asked \cup {names}

\* remmina_plugin_manager_on_response
OnDownload(names) ==
    /\ fault = "none" /\ window = "shown" /\ result = "none" /\ names \subseteq listed
    /\ IF names = {}
       THEN result' = "nothing" /\ downloading' = FALSE /\ UNCHANGED asked
       ELSE /\ downloading' = TRUE /\ Cardinality(asked) + Len(idles) < MaxRequests /\ UNCHANGED result
            /\ asked' = Send(names)
    /\ UNCHANGED <<dir, imode, works, table, loaded, secret, available, window, listed, idles, hist, fault>>

\* Mutant: the window is destroyed and not forgotten.
Closed_Kept == "dead"

Closed == "none"

OnClose ==
    /\ fault = "none" /\ window = "shown" /\ result = "none"
    /\ window' = Closed /\ listed' = {}
    /\ UNCHANGED <<dir, imode, works, table, loaded, secret, available, downloading, result, asked, idles, hist, fault>>

\* result_dialog_cleanup
Dismiss ==
    /\ fault = "none" /\ result # "none" /\ result' = "none"
    /\ UNCHANGED <<dir, imode, works, table, loaded, secret, available, window, listed, downloading, asked, idles, hist, fault>>

\* remmina_curl_send_message and handle_resp: the server answers with what it likes, or does
\* not answer.
Answer(req) ==
    /\ fault = "none" /\ req \in asked /\ asked' = asked \ {req}
    /\ \/ UNCHANGED idles
       \/ req = {List} /\ \E s \in SUBSET Offered : idles' = Append(idles, [list |-> s, plugins |-> <<>>])
       \/ /\ req # {List}
          /\ \E how \in [req -> Answers], order \in Injection(1 .. Cardinality(req), req) :
                idles' = Append(idles, [list |-> {}, plugins |->
                            [i \in DOMAIN order |-> [name |-> order[i], how |-> how[order[i]]]]])
    /\ UNCHANGED <<dir, imode, works, table, loaded, secret, available, window, listed, downloading, result, hist, fault>>

\* remmina_plugin_manager_parse_plugin_list: what is installed or listed is left out.
ParseList ==
    /\ fault = "none" /\ idles # <<>> /\ Head(idles).plugins = <<>> /\ idles' = Tail(idles)
    /\ available' = available \cup {p \in Head(idles).list : table[p] = 0}
    /\ UNCHANGED <<dir, imode, works, table, loaded, secret, window, listed, downloading, result, asked, hist, fault>>

\* remmina_append_json_objects_from_response_str: an element without a signature ends it,
\* with no word of those that follow.
Unsigned(ps) == {i \in DOMAIN ps : ps[i].how = "unsigned"}
Read(ps) == IF Unsigned(ps) = {} THEN ps
            ELSE SubSeq(ps, 1, (CHOOSE i \in Unsigned(ps) : \A j \in Unsigned(ps) : i <= j) - 1)

\* After a name that is too long the reader stays inside of the element, and the memory that
\* is asked for next has a negative size.
Aborts(ps) == \E i \in DOMAIN Read(ps) : Read(ps)[i].how = "long"

\* remmina_attempt_to_write_plugin_data_to_disk
Written(ps) == {ps[i].name : i \in {j \in DOMAIN ps : ps[j].how = "good"}}

\* Mutant: one plugin that was written is a success.
Tells_Some(ps) == IF Written(Read(ps)) # {} THEN "successful" ELSE "failed"

\* What the user is told, by the number of plugins that were read
Tells(ps) == IF Cardinality(Written(Read(ps))) = Len(Read(ps)) THEN "successful"
             ELSE IF Written(Read(ps)) # {} THEN "partially" ELSE "failed"

\* remmina_plugin_manager_download_plugins: what was written is loaded, and the search by name
\* comes across the string that was freed.
download_plugins ==
    /\ fault = "none" /\ idles # <<>> /\ Head(idles).plugins # <<>> /\ idles' = Tail(idles)
    /\ LET ps == Head(idles).plugins
           ok == Written(Read(ps))
           files == dir \cup ok
           libs == ToLoad(files, loaded)
           scripts == Scripts(files, table)
           searched == "freed" \in loaded \/ Cardinality(scripts) > 1
       IN  IF Aborts(ps)
           THEN fault' = "abort" /\ UNCHANGED <<dir, table, loaded, downloading, result, hist>>
           ELSE /\ dir' = files
                /\ table' = IF ok = {} THEN table ELSE Registered(table, libs, scripts)
                /\ loaded' = IF ok = {} THEN loaded
                             ELSE loaded \cup libs \cup IF scripts = {} THEN {} ELSE {"freed"}
                /\ hist' = hist \cup (IF Len(Read(ps)) < Len(ps) THEN {"dropped"} ELSE {})
                                \cup (IF Tells(ps) = "successful" /\ Cardinality(ok) < Len(ps) THEN {"wrong"} ELSE {})
                /\ IF window = "none" \/ ~downloading
                   THEN fault' = (IF ok # {} /\ searched THEN "name" ELSE "none")
                        /\ UNCHANGED <<result, downloading>>
                   ELSE /\ fault' = IF ok # {} /\ searched THEN "name"
                                    ELSE IF window = "dead" THEN "window" ELSE "none"
                        /\ downloading' = FALSE
                        /\ result' = Tells(ps)
    /\ UNCHANGED <<imode, works, secret, available, window, listed, asked>>

Next ==
    \/ Show \/ ParentDestroyed \/ OnClose \/ Dismiss \/ ParseList \/ download_plugins
    \/ \E names \in SUBSET listed : OnDownload(names)
    \/ \E req \in asked : Answer(req)

Spec == Init /\ [][Next]_vars

-----------------------------------------------------------------------------

\* No plugin is registered twice, however often the directories are read.
RegisteredOnce == \A p \in Registrable : table[p] <= 1

\* Passwords go to the plugin that is first in the order of those that work.
SecretFirst == \A s \in works : secret # "none" /\ InitOrder(secret) <= InitOrder(s)

\* A window that is gone is taken to be there only after its parent was closed, and a string
\* that was freed is compared only where a script was loaded.
PluginFaults ==
    /\ fault = "window" \/ window = "dead" => "orphan" \in hist
    /\ fault = "name" => \E p \in Pythons : table[p] > 0

\* A download is called a success only if all of it has come, or a part of the answer was
\* dropped unread.
DownloadTold == "wrong" \in hist => "dropped" \in hist
=============================================================================
