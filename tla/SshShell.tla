------------------------------- MODULE SshShell -------------------------------
(***************************************************************************)
(* A session of the SSH terminal (src/remmina_ssh_plugin.c) and its shell  *)
(* (src/remmina_ssh.c).  One thread logs in and opens the shell, whose own *)
(* thread copies data until the channel closes and then leaves a callback  *)
(* in the main loop.  The main thread resizes the terminal and closes the  *)
(* session: it cancels the first thread wherever it is and frees the shell.*)
(* How the login goes is the matter of SshAuth.                            *)
(***************************************************************************)
EXTENDS Naturals

VARIABLES
    pc,         \* the thread of the login
    run,        \* the thread of the shell
    shell,      \* RemminaSSHShell
    data,       \* the plugin data: thread, shell, closed
    idle,       \* sources in the main loop
    main,       \* the main thread
    gp,         \* the protocol widget
    hist,       \* history: see below
    fault       \* "freed": used after it was freed, "zero": thread 0 cancelled

vars == <<pc, run, shell, data, idle, main, gp, hist, fault>>

TypeOK ==
    /\ pc \in {"new", "login", "failed", "tell", "opened", "stored", "wait", "signal", "zero",
               "end", "dead"}
    /\ run \in {"none", "setup", "loop", "over", "callback", "end", "dead"}
    /\ shell \in [made : BOOLEAN, freed : BOOLEAN, thread : BOOLEAN, channel : BOOLEAN,
                  callback : BOOLEAN, locked : BOOLEAN]
    /\ data \in [thread : BOOLEAN, shell : BOOLEAN, closed : BOOLEAN]
    /\ idle \in [exit : BOOLEAN, opened : BOOLEAN, closed : 0 .. 3]
    /\ main \in {"loop", "close", "cancel", "join", "free", "shellcancel", "shelljoin",
                 "shellfree", "hung"}
    /\ gp \in [error : BOOLEAN, opened : BOOLEAN, closed : BOOLEAN, closes : 0 .. 3,
               gone : BOOLEAN]
    /\ hist \in [ended : BOOLEAN, refused : BOOLEAN, orphan : BOOLEAN, raced : BOOLEAN,
                 kept : BOOLEAN]
    /\ fault \in {"none", "freed", "zero"}

\* hist.ended: the thread of the shell reached its end by itself.  hist.refused: it gave up
\* before.  hist.kept: it gave up and kept the lock.  hist.orphan: the login was cancelled
\* after it had opened the shell.  hist.raced: the login told its end, or forgot its own
\* number, while a close of the user was under way.
Init ==
    /\ pc = "new" /\ run = "none"
    /\ shell = [made |-> FALSE, freed |-> FALSE, thread |-> FALSE, channel |-> FALSE,
                callback |-> FALSE, locked |-> FALSE]
    /\ data = [thread |-> FALSE, shell |-> FALSE, closed |-> FALSE]
    /\ idle = [exit |-> FALSE, opened |-> FALSE, closed |-> 0]
    /\ main = "loop"
    /\ gp = [error |-> FALSE, opened |-> FALSE, closed |-> FALSE, closes |-> 0, gone |-> FALSE]
    /\ hist = [ended |-> FALSE, refused |-> FALSE, orphan |-> FALSE, raced |-> FALSE,
               kept |-> FALSE]
    /\ fault = "none"

MainFree == fault = "none" /\ main = "loop"

Closing == main \in {"close", "cancel", "join"}

\* remmina_protocol_widget_signal_connection_closed
SignalClosed(g, q) ==
    /\ gp' = [g EXCEPT !.closed = TRUE, !.closes = @ + 1]
    /\ idle' = [q EXCEPT !.closed = @ + 1]

-----------------------------------------------------------------------------
(* The thread of the login.                                                *)

\* remmina_plugin_ssh_open_connection; without a thread nothing happens but an error
open_connection ==
    /\ MainFree /\ pc = "new"
    /\ \/ pc' = "login" /\ data' = [data EXCEPT !.thread = TRUE] /\ UNCHANGED gp
       \/ pc' = "end" /\ gp' = [gp EXCEPT !.error = TRUE] /\ UNCHANGED data
    /\ UNCHANGED <<run, shell, idle, main, hist, fault>>

\* remmina_plugin_ssh_main_thread up to the end of the loop of the login: no tunnel, no
\* login; a shell that runs; and no terminal for the shell, which a new session takes for
\* success and one that shares an open session does not.
Login ==
    /\ fault = "none" /\ pc = "login"
    /\ \/ pc' = "tell" /\ UNCHANGED <<shell, run, gp>>
       \/ /\ pc' = "failed" /\ shell' = [shell EXCEPT !.made = TRUE]
          /\ \E e \in BOOLEAN : gp' = [gp EXCEPT !.error = e]
          /\ UNCHANGED run
       \/ /\ pc' = "opened"
          /\ shell' = [shell EXCEPT !.made = TRUE, !.thread = TRUE, !.callback = TRUE]
          /\ run' = "setup" /\ UNCHANGED gp
       \/ /\ pc' = "opened" /\ shell' = [shell EXCEPT !.made = TRUE]
          /\ gp' = [gp EXCEPT !.error = TRUE] /\ UNCHANGED run
    /\ UNCHANGED <<data, idle, main, hist, fault>>

\* The end without a shell, which keeps gpdata->thread
Failed ==
    /\ fault = "none"
    /\ \/ pc = "failed" /\ pc' = "tell" /\ shell' = [shell EXCEPT !.freed = TRUE]
          /\ UNCHANGED <<gp, idle, hist>>
       \/ /\ pc = "tell" /\ pc' = "end"
          /\ SignalClosed(gp, idle)
          /\ hist' = [hist EXCEPT !.raced = @ \/ Closing]
          /\ UNCHANGED shell
    /\ UNCHANGED <<run, data, main, fault>>

\* gpdata->shell = shell; the shell may have ended and been freed before
Store ==
    /\ fault = "none" /\ pc = "opened"
    /\ pc' = "stored"
    /\ data' = [data EXCEPT !.shell = TRUE]
    /\ UNCHANGED <<run, shell, idle, main, gp, hist, fault>>

\* The rest of the thread; the main thread gives the terminal the device of the shell.
Connect ==
    /\ fault = "none"
    /\ \/ /\ pc = "stored"
          /\ IF shell.freed THEN fault' = "freed" /\ UNCHANGED pc
                            ELSE pc' = "wait" /\ UNCHANGED fault
          /\ UNCHANGED <<data, gp, idle, hist>>
       \/ /\ pc = "wait" /\ main = "loop" /\ pc' = "signal"
          /\ UNCHANGED <<data, gp, idle, hist, fault>>
       \/ /\ pc = "signal" /\ pc' = "zero"
          /\ gp' = [gp EXCEPT !.opened = TRUE]
          /\ idle' = [idle EXCEPT !.opened = TRUE]
          /\ UNCHANGED <<data, hist, fault>>
       \/ /\ pc = "zero" /\ pc' = "end"
          /\ data' = [data EXCEPT !.thread = FALSE]
          /\ hist' = [hist EXCEPT !.raced = @ \/ Closing]
          /\ UNCHANGED <<gp, idle, fault>>
    /\ UNCHANGED <<run, shell, main>>

-----------------------------------------------------------------------------
(* The thread of the shell.                                                *)

\* remmina_ssh_shell_thread: it takes the lock of the session, and on some errors keeps it
Setup ==
    /\ fault = "none" /\ run = "setup" /\ ~shell.locked
    /\ \/ /\ run' = "loop" /\ shell' = [shell EXCEPT !.channel = TRUE]
          /\ UNCHANGED hist
       \/ /\ run' = "end" /\ shell' = [shell EXCEPT !.thread = FALSE]
          /\ hist' = [hist EXCEPT !.refused = TRUE]
       \/ /\ run' = "dead"
          /\ \E c \in BOOLEAN : shell' = [shell EXCEPT !.locked = TRUE, !.channel = c]
          /\ hist' = [hist EXCEPT !.refused = TRUE, !.kept = TRUE]
    /\ UNCHANGED <<pc, data, idle, main, gp, fault>>

\* The channel is closed, by the server or because the terminal is gone.
ChannelCloses ==
    /\ fault = "none" /\ run = "loop"
    /\ run' = "over"
    /\ shell' = [shell EXCEPT !.channel = FALSE]
    /\ UNCHANGED <<pc, data, idle, main, gp, hist, fault>>

\* shell->thread = 0, then the test of exit_callback, which may have been cleared
ShellEnds ==
    /\ fault = "none"
    /\ \/ /\ run = "over" /\ run' = "callback"
          /\ shell' = [shell EXCEPT !.thread = FALSE]
          /\ hist' = [hist EXCEPT !.ended = TRUE]
          /\ UNCHANGED <<idle, fault>>
       \/ /\ run = "callback"
          /\ IF shell.freed THEN fault' = "freed" /\ UNCHANGED <<run, idle>>
             ELSE run' = "end" /\ idle' = [idle EXCEPT !.exit = shell.callback]
                  /\ UNCHANGED fault
          /\ UNCHANGED <<shell, hist>>
    /\ UNCHANGED <<pc, data, main, gp>>

-----------------------------------------------------------------------------
(* The main thread.                                                        *)

\* remmina_ssh_call_exit_callback_on_main_thread: gpdata->shell keeps the freed shell
call_exit_callback ==
    /\ MainFree /\ idle.exit
    /\ IF shell.freed THEN fault' = "freed" /\ UNCHANGED <<shell, gp, idle>>
       ELSE /\ SignalClosed(gp, [idle EXCEPT !.exit = FALSE])
            /\ shell' = [shell EXCEPT !.freed = TRUE, !.callback = FALSE]
            /\ UNCHANGED fault
    /\ UNCHANGED <<pc, run, data, main, hist>>

\* conn_opened and conn_closed of the protocol widget; with a prompt the second waits
Serve ==
    /\ MainFree
    /\ \/ idle.opened /\ idle' = [idle EXCEPT !.opened = FALSE] /\ UNCHANGED gp
       \/ /\ idle.closed > 0
          /\ idle' = [idle EXCEPT !.closed = @ - 1]
          /\ gp' = [gp EXCEPT !.gone = TRUE]
    /\ UNCHANGED <<pc, run, shell, data, main, hist, fault>>

\* remmina_plugin_ssh_on_size_allocate and remmina_ssh_shell_set_size
Resize ==
    /\ MainFree /\ ~gp.gone /\ data.shell
    /\ IF shell.freed THEN fault' = "freed" /\ UNCHANGED main
       ELSE shell.locked /\ main' = "hung" /\ UNCHANGED fault
    /\ UNCHANGED <<pc, run, shell, data, idle, gp, hist>>

\* remmina_protocol_widget_close_connection of a connection that is not closed, and the
\* beginning of remmina_plugin_ssh_close_connection with remmina_plugin_ssh_eof
close_connection ==
    /\ MainFree /\ pc # "new" /\ ~gp.closed /\ ~gp.gone
    /\ main' = "close"
    /\ data' = [data EXCEPT !.closed = TRUE]
    /\ UNCHANGED <<pc, run, shell, idle, gp, hist, fault>>

Cancel ==
    /\ fault = "none"
    /\ \/ main = "close" /\ main' = (IF data.thread THEN "cancel" ELSE "free")
          /\ UNCHANGED <<pc, hist, fault>>
       \/ /\ main = "cancel"
          /\ IF ~data.thread THEN fault' = "zero" /\ UNCHANGED <<main, pc, hist>>
             ELSE /\ main' = "join" /\ UNCHANGED fault
                  /\ pc' = IF pc = "end" THEN "end" ELSE "dead"
                  /\ hist' = [hist EXCEPT !.orphan = @ \/ (pc = "opened" /\ shell.callback)]
       \/ main = "join" /\ pc \in {"end", "dead"} /\ main' = "free"
          /\ UNCHANGED <<pc, hist, fault>>
    /\ UNCHANGED <<run, shell, data, idle, gp>>

\* remmina_ssh_shell_free: the thread is cancelled where it polls, which it also does while
\* it sets the shell up, and waited for as long as it has not forgotten its number.
shell_free ==
    /\ fault = "none" /\ main = "free" /\ data.shell
    /\ IF shell.freed THEN fault' = "freed" /\ UNCHANGED <<main, shell>>
       ELSE /\ main' = IF shell.thread THEN "shellcancel" ELSE "shellfree"
            /\ shell' = [shell EXCEPT !.callback = FALSE] /\ UNCHANGED fault
    /\ UNCHANGED <<pc, run, data, idle, gp, hist>>

CancelShell ==
    /\ fault = "none"
    /\ \/ /\ main = "shellcancel"
          /\ IF ~shell.thread THEN fault' = "zero" /\ UNCHANGED <<main, run>>
             ELSE /\ main' = "shelljoin" /\ UNCHANGED fault
                  /\ run' \in {"dead"} \cup ({"over"} \cap {run})
       \/ /\ main = "shelljoin" /\ (run = "dead" \/ ~shell.thread)
          /\ main' = "shellfree" /\ UNCHANGED <<run, fault>>
    /\ UNCHANGED <<pc, shell, data, idle, gp, hist>>

\* The rest of it, and of remmina_plugin_ssh_close_connection
FreeShell ==
    /\ fault = "none"
    /\ \/ /\ main = "shellfree"
          /\ shell' = [shell EXCEPT !.freed = TRUE, !.thread = FALSE, !.channel = FALSE]
          /\ data' = [data EXCEPT !.shell = FALSE]
       \/ main = "free" /\ ~data.shell /\ UNCHANGED <<shell, data>>
    /\ SignalClosed(gp, idle) /\ main' = "loop"
    /\ UNCHANGED <<pc, run, hist, fault>>

Next ==
    \/ open_connection \/ Login \/ Failed \/ Store \/ Connect
    \/ Setup \/ ChannelCloses \/ ShellEnds
    \/ call_exit_callback \/ Serve \/ Resize \/ close_connection \/ Cancel
    \/ shell_free \/ CancelShell \/ FreeShell

Spec == Init /\ [][Next]_vars

-----------------------------------------------------------------------------

\* The shell is used after it was freed only when its thread
\* came to its end by itself, a thread 0 is cancelled only when a thread ended while the
\* close looked at it.  The end is signalled twice only when a close met the login
\* in its last steps, or between the opening of the shell and its being stored.
FaultKnown ==
    /\ fault = "freed" => hist.ended
    /\ fault = "zero" => hist.ended \/ hist.refused \/ hist.raced
    /\ gp.closes > 1 => hist.orphan \/ hist.raced

\* The main loop stops for ever only where the thread of the shell gave up with the lock.
HungKnown == main = "hung" => hist.kept

\* Once the threads and the main loop have nothing more to do, a connection that nobody
\* told closed has a shell that runs, or one that the server refused, or had no terminal,
\* or could not start its thread.
EndIsTold ==
    /\ fault = "none" /\ main = "loop" /\ ~idle.exit
    /\ pc = "end" /\ run \in {"none", "end", "dead"} /\ ~gp.closed
    => hist.refused \/ gp.error
=============================================================================
