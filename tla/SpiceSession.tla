---------------------------- MODULE SpiceSession ----------------------------
(***************************************************************************)
(* A session of the SPICE plugin (plugins/spice/spice_plugin.c and         *)
(* spice_plugin_file_transfer.c).  Everything runs in the main thread: the *)
(* signals of the SPICE library, the keys that an idle source sends one    *)
(* after the other, the dialog of the file transfers, and the dialog for   *)
(* the password, in a nested main loop that goes on with all of this.      *)
(***************************************************************************)
EXTENDS Naturals, FiniteSets

CONSTANTS
    Displays,       \* displays of the server, each with a channel
    Tasks,          \* transfers of files
    MaxKeys,        \* bound: keystrokes that wait to be sent
    MaxLogins       \* bound: refused passwords

VARIABLES
    session,        \* gpdata->session: NULL, not connected, connecting or up
    asking,         \* the dialog for the password is open, in a nested main loop
    displays,       \* the displays that have a channel, and those that are ready
    keys,           \* keys_queue and the keystrokes in it, and the idle source
    files,          \* file_transfers, the tasks in it, and those the library has not finished
    dialog,         \* the dialog of the transfers is on the screen
    told,           \* what the protocol widget was told
    logins,         \* refused passwords
    hist,           \* history: see below
    fault           \* what was used after it was freed

vars == <<session, asking, displays, keys, files, dialog, told, logins, hist, fault>>

None == "none"

TypeOK ==
    /\ session \in {None, "new", "connecting", "up", "lost"} /\ asking \in BOOLEAN
    /\ displays \in [channel : SUBSET Displays, ready : SUBSET Displays]
    /\ keys \in [queue : {None, "there", "freed"}, waiting : 0 .. MaxKeys, idle : BOOLEAN]
    /\ files \in [table : {None, "there", "freed"}, listed : SUBSET Tasks,
                  running : SUBSET Tasks, done : SUBSET Tasks]
    /\ dialog \in BOOLEAN
    /\ told \in [opened : Nat, closed : Nat, error : BOOLEAN]
    /\ logins \in 0 .. MaxLogins
    /\ hist \in [tunnel : BOOLEAN, keys : BOOLEAN, files : BOOLEAN]
    /\ fault \in {None, "keys", "files"}

\* remmina_plugin_spice_init.  hist.tunnel: the tunnel could not be opened again after a
\* password; hist.keys, hist.files: the session was closed with keys to send, with the
\* dialog of the transfers or one of them there.
Init ==
    /\ session = "new" /\ asking = FALSE
    /\ displays = [channel |-> {}, ready |-> {}]
    /\ keys = [queue |-> None, waiting |-> 0, idle |-> FALSE]
    /\ files = [table |-> None, listed |-> {}, running |-> {}, done |-> {}]
    /\ dialog = FALSE /\ told = [opened |-> 0, closed |-> 0, error |-> FALSE]
    /\ logins = 0 /\ hist = [tunnel |-> FALSE, keys |-> FALSE, files |-> FALSE]
    /\ fault = None

Running == fault = None

-----------------------------------------------------------------------------

\* remmina_plugin_spice_open_connection; remmina_protocol_widget_open_connection_real tells
\* the end when it fails.
open_connection(ok) ==
    /\ Running /\ session = "new"
    /\ session' = IF ok THEN "connecting" ELSE "lost"
    /\ told' = IF ok THEN told ELSE [told EXCEPT !.closed = @ + 1]
    /\ UNCHANGED <<asking, displays, keys, files, dialog, logins, hist, fault>>

\* Mutant: session is not looked at.
close_connection_Again(error) ==
    /\ keys' = IF keys.queue = None THEN keys ELSE [keys EXCEPT !.queue = "freed"]
    /\ files' = IF files.table = None THEN files
                ELSE [files EXCEPT !.table = "freed", !.listed = {}]
    /\ fault' = IF keys.queue = "freed" THEN "keys"
                ELSE IF files.table = "freed" THEN "files" ELSE None
    /\ session' = None
    /\ told' = [told EXCEPT !.closed = @ + 1, !.error = @ \/ error]
    /\ hist' = [hist EXCEPT !.keys = @ \/ keys.queue # None, !.files = @ \/ files.table # None]

\* remmina_plugin_spice_close_connection: the queue of the keys and the table of the transfers
\* are released, with an error for the user or not.
close_connection(error) ==
    /\ keys' = IF keys.queue = None THEN keys ELSE [keys EXCEPT !.queue = "freed"]
    /\ files' = IF files.table = None THEN files
                ELSE [files EXCEPT !.table = "freed", !.listed = {}]
    /\ fault' = IF keys.queue = "freed" THEN "keys"
                ELSE IF files.table = "freed" THEN "files" ELSE None
    /\ session' = None
    /\ told' = [told EXCEPT !.closed = IF session = None THEN @ ELSE @ + 1, !.error = @ \/ error]
    /\ hist' = [hist EXCEPT !.keys = @ \/ keys.queue # None, !.files = @ \/ files.table # None]

\* remmina_plugin_spice_channel_new_cb, for the main channel and for a display
MainChannel ==
    /\ Running /\ session = "connecting"
    /\ session' = "up"
    /\ UNCHANGED <<asking, displays, keys, files, dialog, told, logins, hist, fault>>

DisplayChannel(d) ==
    /\ Running /\ session = "up" /\ d \notin displays.channel
    /\ displays' = [displays EXCEPT !.channel = @ \cup {d}]
    /\ UNCHANGED <<session, asking, keys, files, dialog, told, logins, hist, fault>>

\* Mutant: the handler is called for every change of the display.
display_ready_Always(d) ==
    /\ Running /\ session = "up" /\ d \in displays.channel /\ told.opened < 3
    /\ displays' = [displays EXCEPT !.ready = @ \cup {d}]
    /\ told' = [told EXCEPT !.opened = @ + 1]
    /\ UNCHANGED <<session, asking, keys, files, dialog, logins, hist, fault>>

\* remmina_plugin_spice_display_ready_cb, which disconnects itself
display_ready(d) ==
    /\ Running /\ session = "up" /\ d \in displays.channel \ displays.ready
    /\ displays' = [displays EXCEPT !.ready = @ \cup {d}]
    /\ told' = [told EXCEPT !.opened = @ + 1]
    /\ UNCHANGED <<session, asking, keys, files, dialog, logins, hist, fault>>

\* remmina_plugin_spice_main_channel_event_cb: the server closes, or an error
ChannelFails ==
    /\ Running /\ session = "up"
    /\ close_connection(TRUE)
    /\ UNCHANGED <<asking, displays, dialog, logins>>

\* SPICE_CHANNEL_ERROR_AUTH: remmina_plugin_spice_ask_auth
AskAuth ==
    /\ Running /\ session = "up" /\ ~asking /\ displays.channel = {} /\ logins < MaxLogins
    /\ asking' = TRUE /\ logins' = logins + 1
    /\ UNCHANGED <<session, displays, keys, files, dialog, told, hist, fault>>

\* The dialog is answered: the session connects anew, if the tunnel does.  When the session
\* was closed in the meantime nothing is connected.
Answer(ok) ==
    /\ Running /\ asking
    /\ asking' = FALSE
    /\ session' = IF session = None THEN None ELSE IF ok THEN "connecting" ELSE "lost"
    /\ hist' = [hist EXCEPT !.tunnel = @ \/ (session # None /\ ~ok)]
    /\ UNCHANGED <<displays, keys, files, dialog, told, logins, fault>>

\* It is cancelled, goes with its tab, or another tab is looked at.
Cancel ==
    /\ Running /\ asking
    /\ asking' = FALSE
    /\ close_connection(FALSE)
    /\ UNCHANGED <<displays, dialog, logins>>

\* remmina_protocol_widget_close_connection
UserCloses ==
    /\ Running /\ told.closed = 0 /\ session # "new"
    /\ close_connection(FALSE)
    /\ UNCHANGED <<asking, displays, dialog, logins>>

-----------------------------------------------------------------------------
(* Keys.                                                                   *)

\* remmina_plugin_spice_keystroke, of a tab that is open
keystroke ==
    /\ Running /\ session # None /\ displays.channel # {} /\ keys.waiting < MaxKeys
    /\ keys' = [queue |-> "there", waiting |-> keys.waiting + 1, idle |-> TRUE]
    /\ UNCHANGED <<session, asking, displays, files, dialog, told, logins, hist, fault>>

\* send_key_strokes: one, or the source ends
send_key_strokes ==
    /\ Running /\ keys.idle
    /\ IF keys.queue = "freed" THEN fault' = "keys" /\ UNCHANGED keys
       ELSE /\ keys' = IF keys.waiting = 0 THEN [keys EXCEPT !.idle = FALSE]
                       ELSE [keys EXCEPT !.waiting = @ - 1]
            /\ UNCHANGED fault
    /\ UNCHANGED <<session, asking, displays, files, dialog, told, logins, hist>>

-----------------------------------------------------------------------------
(* Transfers of files.                                                     *)

\* remmina_plugin_spice_file_transfer_new_cb
file_transfer_new(t) ==
    /\ Running /\ session = "up" /\ t \notin files.running \cup files.done
    /\ files' = [files EXCEPT !.table = "there", !.listed = @ \cup {t}, !.running = @ \cup {t}]
    /\ dialog' = TRUE
    /\ UNCHANGED <<session, asking, displays, keys, told, logins, hist, fault>>

\* Mutant: the task stays in the table.
file_transfer_finished_Listed(t) ==
    /\ Running /\ t \in files.running
    /\ files' = [files EXCEPT !.running = @ \ {t}, !.done = @ \cup {t}]
    /\ IF files.table = "freed" THEN fault' = "files" /\ UNCHANGED dialog
       ELSE dialog' = (dialog /\ files'.listed # {}) /\ UNCHANGED fault
    /\ UNCHANGED <<session, asking, displays, keys, told, logins, hist>>

\* remmina_plugin_spice_file_transfer_finished_cb: done, failed or cancelled
file_transfer_finished(t) ==
    /\ Running /\ t \in files.running
    /\ files' = [files EXCEPT !.running = @ \ {t}, !.done = @ \cup {t}, !.listed = @ \ {t}]
    /\ IF files.table = "freed" THEN fault' = "files" /\ UNCHANGED dialog
       ELSE dialog' = (dialog /\ files'.listed # {}) /\ UNCHANGED fault
    /\ UNCHANGED <<session, asking, displays, keys, told, logins, hist>>

\* remmina_plugin_spice_file_transfer_dialog_response_cb: every task listed is cancelled
DialogCancel ==
    /\ Running /\ dialog
    /\ IF files.table = "freed" THEN fault' = "files" ELSE UNCHANGED fault
    /\ UNCHANGED <<session, asking, displays, keys, files, dialog, told, logins, hist>>

Next ==
    \/ \E ok \in BOOLEAN : open_connection(ok) \/ Answer(ok)
    \/ \E d \in Displays : DisplayChannel(d) \/ display_ready(d)
    \/ \E t \in Tasks : file_transfer_new(t) \/ file_transfer_finished(t)
    \/ MainChannel \/ ChannelFails \/ AskAuth \/ Cancel \/ UserCloses
    \/ keystroke \/ send_key_strokes \/ DialogCancel

Spec == Init /\ [][Next]_vars

-----------------------------------------------------------------------------

\* The end is told once, although the dialog for the password closes a session that was closed
\* while it was open.
ClosedOnce == told.closed <= 1

\* The connection is told to be open once for each display.
OpenedOnce == told.opened <= Cardinality(displays.ready)

\* A session that is over is told to be, but for a tunnel that is not opened again.
EndTold == session \in {None, "lost"} => told.closed > 0 \/ hist.tunnel

\* Nothing is used after it is freed but the keys that were still to be sent, and the transfers
\* and their dialog, of a session that was closed.
FreedUse ==
    /\ fault = "keys" => hist.keys
    /\ fault = "files" => hist.files

\* While the session is there, the dialog is on the screen for the tasks that are not over.
DialogLasts == files.table = "there" => dialog = (files.listed # {}) /\ files.listed = files.running
=============================================================================
