------------------------------ MODULE SftpTasks ------------------------------
(***************************************************************************)
(* The file transfers of an SFTP connection: the task list of the FTP      *)
(* client widget (src/remmina_ftp_client.c) and the thread that carries    *)
(* the tasks out (src/remmina_sftp_client.c).                              *)
(*                                                                         *)
(* The rows belong to the main thread.  The task thread asks for a row, and *)
(* for every update of a row, through remmina_masterthread_exec_and_wait   *)
(* (module MasterThreadExec): it waits until the main thread is in an event *)
(* loop and has served the request.  The two flags the threads share       *)
(* without a lock are taskid, the task being carried out (0: none, or the  *)
(* user has cancelled it), and thread_abort.                               *)
(***************************************************************************)
EXTENDS Naturals, FiniteSets, FiniteSetsExt

CONSTANT MaxTasks       \* bound: tasks the user ever adds

Ids == 1 .. MaxTasks

\* tasktype and type of a task; a link, which is neither file nor folder, is
\* never transferred and gets no status either.
Kinds == {"download", "upload"} \X {"file", "dir", "link"}

VARIABLES
    rows,           \* rows[i]: status of task i in the list
    kind,           \* kind[i]: what task i is
    nextid,         \* remmina_ftp_client_taskid
    client,         \* life of the widget: its destruction has several steps
    sftp,           \* client->sftp is there
    thread,         \* client->thread is not 0
    thread_abort,
    taskid,         \* client->taskid
    pc,             \* where the task thread is
    task,           \* the task it holds, 0 for none
    conn,           \* its own SFTP session is open
    refresh,        \* it has uploaded to the folder on display
    after,          \* where it goes after the update under way
    cancelDlg,      \* task of the "cancel the transfer?" dialog, 0 for none
    clearing,       \* that dialog was answered yes and taskid was compared
    resumeDlg,      \* the "file exists" dialog is open
    refreshq        \* remmina_sftp_client_refresh is queued

rowvars == <<rows, kind, nextid>>
clientvars == <<client, sftp, thread_abort>>
dialogvars == <<cancelDlg, clearing, resumeDlg>>
threadvars == <<pc, task, conn, refresh, after>>
vars == <<rowvars, clientvars, thread, taskid, threadvars, dialogvars, refreshq>>

\* Waiting for the main thread.
Requests == {"getwait", "claimupd", "confirm", "copyupd", "listupd", "seterr", "setfin"}

ThreadStates == Requests \cup
    {"none", "get", "claim", "prepare", "file", "copy", "list", "next", "uploaded",
     "done", "end", "exit", "lost"}

RowStates == {"none", "wait", "run", "finish", "error", "removed"}

TypeOK ==
    /\ rows \in [Ids -> RowStates]
    /\ kind \in [Ids -> Kinds]
    /\ nextid \in 1 .. MaxTasks + 1
    /\ \A i \in Ids : rows[i] = "none" <=> i >= nextid
    /\ client \in {"alive", "freeing", "destroying", "waiting", "gone"}
    /\ sftp \in BOOLEAN /\ thread \in BOOLEAN /\ thread_abort \in BOOLEAN
    /\ taskid \in 0 .. MaxTasks
    /\ pc \in ThreadStates
    /\ task \in 0 .. MaxTasks
    /\ conn \in BOOLEAN /\ refresh \in BOOLEAN
    /\ after \in {"done", "end"}
    /\ cancelDlg \in 0 .. MaxTasks
    /\ clearing \in BOOLEAN /\ resumeDlg \in BOOLEAN /\ refreshq \in BOOLEAN
    /\ thread <=> pc # "none"

Init ==
    /\ rows = [i \in Ids |-> "none"]
    /\ kind = [i \in Ids |-> <<"download", "file">>]
    /\ nextid = 1
    /\ client = "alive" /\ sftp = TRUE /\ thread_abort = FALSE
    /\ thread = FALSE /\ taskid = 0
    /\ pc = "none" /\ task = 0 /\ conn = FALSE /\ refresh = FALSE
    /\ after = "done"
    /\ cancelDlg = 0 /\ clearing = FALSE /\ resumeDlg = FALSE
    /\ refreshq = FALSE

Direction == kind[task][1]
Type == kind[task][2]

\* THREAD_CHECK_EXIT
CheckExit == taskid = 0 \/ thread_abort

-----------------------------------------------------------------------------
(* The task thread.                                                        *)

Goto(l) == pc' = l

\* remmina_sftp_client_thread_set_error: the error is shown unless the task is
\* to be dropped; then the transfer goes on at l.
SetError(l) ==
    IF CheckExit THEN Goto(l) /\ UNCHANGED after
                 ELSE Goto("seterr") /\ after' = l

\* remmina_sftp_client_thread_get_task
GetTask ==
    /\ pc = "get"
    /\ Goto(IF thread_abort THEN "end" ELSE "getwait")
    /\ UNCHANGED <<rowvars, clientvars, thread, taskid, task, conn, refresh, after,
                   dialogvars, refreshq>>

Claim ==
    /\ pc = "claim"
    /\ taskid' = task
    /\ Goto("claimupd")
    /\ UNCHANGED <<rowvars, clientvars, thread, task, conn, refresh, after,
                   dialogvars, refreshq>>

\* Mutant: the loop over the tasks is not left when the connection fails.
Connect_NoBreak ==
    /\ pc = "prepare"
    /\ ~conn
    /\ \/ conn' = TRUE /\ UNCHANGED <<pc, after>>
       \/ SetError("prepare") /\ UNCHANGED conn
    /\ UNCHANGED <<rowvars, clientvars, thread, taskid, task, refresh,
                   dialogvars, refreshq>>

\* The first task opens a connection of its own.  A tunnel that does not start
\* ends the thread on the spot; any other failure shows an error and leaves the
\* loop over the tasks.
Connect ==
    /\ pc = "prepare"
    /\ ~conn
    /\ \/ conn' = TRUE /\ UNCHANGED <<pc, after>>
       \/ SetError("end") /\ UNCHANGED conn
       \/ Goto("lost") /\ UNCHANGED <<conn, after>>
    /\ UNCHANGED <<rowvars, clientvars, thread, taskid, task, refresh,
                   dialogvars, refreshq>>

\* The switch over tasktype and type.  An upload of a folder creates it first,
\* and lists the local folder: a failure of the listing is silent.
Begin ==
    /\ pc = "prepare"
    /\ conn
    /\ \/ Type = "link" /\ Goto("done") /\ UNCHANGED after
       \/ Type = "file" /\ Goto("file") /\ UNCHANGED after
       \/ Type = "dir" /\ Direction = "download" /\ UNCHANGED after
            /\ Goto(IF CheckExit THEN "done" ELSE "list")
       \/ Type = "dir" /\ Direction = "upload" /\ SetError("done")
       \/ Type = "dir" /\ Direction = "upload" /\ UNCHANGED after
            /\ (Goto("done") \/ Goto("next"))
    /\ UNCHANGED <<rowvars, clientvars, thread, taskid, task, conn, refresh,
                   dialogvars, refreshq>>

\* remmina_sftp_client_thread_recursive_dir: a file is found and the size of the
\* task is updated; the folder cannot be opened; the check stops the listing,
\* which is an error in a subfolder only.
List ==
    /\ pc = "list"
    /\ \/ ~CheckExit /\ Goto("listupd") /\ UNCHANGED after
       \/ CheckExit /\ Goto("next") /\ UNCHANGED after
       \/ CheckExit /\ Goto("done") /\ UNCHANGED after
       \/ SetError("done")
    /\ UNCHANGED <<rowvars, clientvars, thread, taskid, task, conn, refresh,
                   dialogvars, refreshq>>

ListEnd ==
    /\ pc = "list"
    /\ Goto("next")
    /\ UNCHANGED <<rowvars, clientvars, thread, taskid, task, conn, refresh, after,
                   dialogvars, refreshq>>

\* The loop over the files of a folder: another file (or, for an upload, a
\* folder, whose creation may fail).
NextFile ==
    /\ pc = "next"
    /\ \/ CheckExit /\ Goto("done") /\ UNCHANGED after
       \/ ~CheckExit /\ Goto("file") /\ UNCHANGED after
       \/ ~CheckExit /\ Direction = "upload" /\ SetError("done")
    /\ UNCHANGED <<rowvars, clientvars, thread, taskid, task, conn, refresh,
                   dialogvars, refreshq>>

\* set_finish, for a transfer that returned TRUE.
Finished ==
    IF ~CheckExit THEN Goto("setfin")
    ELSE Goto(IF Direction = "upload" THEN "uploaded" ELSE "done")

NextEnd ==
    /\ pc = "next"
    /\ Finished
    /\ UNCHANGED <<rowvars, clientvars, thread, taskid, task, conn, refresh, after,
                   dialogvars, refreshq>>

\* download_file and upload_file up to the copy loop.
OpenFile ==
    /\ pc = "file"
    /\ \/ CheckExit /\ Goto("done") /\ UNCHANGED after
       \/ ~CheckExit /\ SetError("done")
       \/ ~CheckExit /\ Goto("confirm") /\ UNCHANGED after
       \/ ~CheckExit /\ Goto("copy") /\ UNCHANGED after
    /\ UNCHANGED <<rowvars, clientvars, thread, taskid, task, conn, refresh,
                   dialogvars, refreshq>>

FileDone == IF Type = "dir" THEN Goto("next") ELSE Finished

\* One turn of the copy loop: stopped by the check (the transfer still returns
\* TRUE), a write error, or a chunk and the update of the row.
Copy ==
    /\ pc = "copy"
    /\ \/ CheckExit /\ FileDone /\ UNCHANGED after
       \/ ~CheckExit /\ SetError("done")
       \/ ~CheckExit /\ Goto("copyupd") /\ UNCHANGED after
    /\ UNCHANGED <<rowvars, clientvars, thread, taskid, task, conn, refresh,
                   dialogvars, refreshq>>

\* End of file, or a read error: the loop does not tell one from the other.
CopyEnd ==
    /\ pc = "copy"
    /\ ~CheckExit
    /\ FileDone
    /\ UNCHANGED <<rowvars, clientvars, thread, taskid, task, conn, refresh, after,
                   dialogvars, refreshq>>

\* remmina_ftp_client_get_dir, in the task thread.
Uploaded ==
    /\ pc = "uploaded"
    /\ refresh' \in {refresh, TRUE}
    /\ Goto("done")
    /\ UNCHANGED <<rowvars, clientvars, thread, taskid, task, conn, after,
                   dialogvars, refreshq>>

\* remmina_ftp_task_free, client->taskid = 0.
Done ==
    /\ pc = "done"
    /\ task' = 0
    /\ taskid' = 0
    /\ Goto(IF thread_abort THEN "end" ELSE "get")
    /\ UNCHANGED <<rowvars, clientvars, thread, conn, refresh, after, dialogvars,
                   refreshq>>

End ==
    /\ pc = "end"
    /\ task' = 0
    /\ conn' = FALSE
    /\ \/ ~thread_abort /\ refresh /\ refreshq' = TRUE
       \/ UNCHANGED refreshq
    /\ Goto("exit")
    /\ UNCHANGED <<rowvars, clientvars, thread, taskid, refresh, after, dialogvars>>

\* Mutant: client->thread is not reset.
Exit_KeepsThread ==
    /\ pc = "exit"
    /\ Goto("none")
    /\ UNCHANGED <<rowvars, clientvars, thread, taskid, task, conn, refresh, after,
                   dialogvars, refreshq>>

\* client->thread = 0 is the last thing the thread does.
Exit ==
    /\ pc = "exit"
    /\ thread' = FALSE
    /\ Goto("none")
    /\ UNCHANGED <<rowvars, clientvars, taskid, task, conn, refresh, after,
                   dialogvars, refreshq>>

-----------------------------------------------------------------------------
(* The main thread.                                                        *)

\* The main thread dispatches requests: it is in its loop or in that of the
\* cancel dialog.
InLoop == client \in {"alive", "gone"} /\ ~clearing /\ ~resumeDlg

\* The user can act on the widget: no modal dialog is open.
UserTurn == client = "alive" /\ cancelDlg = 0 /\ ~clearing /\ ~resumeDlg

\* remmina_ftp_client_get_waiting_task: the first row that waits.
ServeGet ==
    /\ InLoop /\ pc = "getwait"
    /\ LET waiting == {i \in Ids : rows[i] = "wait"} IN
          IF waiting = {} THEN Goto("end") /\ UNCHANGED task
                          ELSE Goto("claim") /\ task' = Min(waiting)
    /\ UNCHANGED <<rowvars, clientvars, thread, taskid, conn, refresh, after,
                   dialogvars, refreshq>>

\* Mutant: the row reference is not checked.
update_task_AnyRow(s) == rows' = [rows EXCEPT ![task] = s]

\* remmina_ftp_client_update_task: a row the user has removed stays removed.
update_task(s) ==
    rows' = IF rows[task] = "removed" THEN rows ELSE [rows EXCEPT ![task] = s]

ServeUpdate ==
    /\ InLoop
    /\ \/ pc = "claimupd" /\ update_task("run") /\ Goto("prepare")
       \/ pc = "copyupd" /\ update_task("run") /\ Goto("copy")
       \/ pc = "listupd" /\ update_task("run") /\ Goto("list")
       \/ pc = "seterr" /\ update_task("error") /\ Goto(after)
       \/ /\ pc = "setfin" /\ update_task("finish")
          /\ Goto(IF Direction = "upload" THEN "uploaded" ELSE "done")
    /\ UNCHANGED <<kind, nextid, clientvars, thread, taskid, task, conn, refresh,
                   after, dialogvars, refreshq>>

\* remmina_sftp_client_confirm_resume opens its dialog ...
ServeConfirm ==
    /\ InLoop /\ pc = "confirm"
    /\ resumeDlg' = TRUE
    /\ UNCHANGED <<rowvars, clientvars, thread, taskid, threadvars, cancelDlg, clearing,
                   refreshq>>

\* ... and the user answers: cancel, or resume or overwrite.
AnswerResume ==
    /\ resumeDlg
    /\ resumeDlg' = FALSE
    /\ SetError("done") \/ (Goto("copy") /\ UNCHANGED after)
    /\ UNCHANGED <<rowvars, clientvars, thread, taskid, task, conn, refresh,
                   cancelDlg, clearing, refreshq>>

\* A row is appended and "new-task" is emitted: remmina_sftp_client_on_newtask
\* starts a thread unless there is one.  An upload of several files appends all
\* its rows first.
NewTasks ==
    /\ UserTurn
    /\ \E n \in 1 .. 2, k \in Kinds :
          /\ nextid + n <= MaxTasks + 1
          /\ k[1] = "upload" => k[2] # "link"
          /\ k[1] = "download" => n = 1
          /\ LET new == nextid .. nextid + n - 1 IN
                /\ rows' = [i \in Ids |-> IF i \in new THEN "wait" ELSE rows[i]]
                /\ kind' = [i \in Ids |-> IF i \in new THEN k ELSE kind[i]]
          /\ nextid' = nextid + n
    /\ IF thread THEN UNCHANGED <<thread, threadvars>>
       ELSE /\ thread' = TRUE
            /\ Goto("get")
            /\ task' = 0 /\ conn' = FALSE /\ refresh' = FALSE
            /\ UNCHANGED after
    /\ UNCHANGED <<clientvars, taskid, dialogvars, refreshq>>

\* The stop button of a row: remmina_sftp_client_on_canceltask asks only when
\* the task is the one being carried out.
CancelTask(i) ==
    /\ UserTurn
    /\ rows[i] \notin {"none", "removed"}
    /\ IF taskid # i
       THEN rows' = [rows EXCEPT ![i] = "removed"] /\ UNCHANGED cancelDlg
       ELSE cancelDlg' = i /\ UNCHANGED rows
    /\ UNCHANGED <<kind, nextid, clientvars, thread, taskid, threadvars, clearing,
                   resumeDlg, refreshq>>

AnswerNo ==
    /\ cancelDlg # 0 /\ ~clearing /\ ~resumeDlg
    /\ cancelDlg' = 0
    /\ UNCHANGED <<rowvars, clientvars, thread, taskid, threadvars, clearing, resumeDlg,
                   refreshq>>

\* "Make sure we are still handling the same task before we clear the flag":
\* the comparison ...
AnswerYes ==
    /\ cancelDlg # 0 /\ ~clearing /\ ~resumeDlg
    /\ IF taskid = cancelDlg
       THEN clearing' = TRUE /\ UNCHANGED <<rows, cancelDlg>>
       ELSE /\ rows' = [rows EXCEPT ![cancelDlg] = "removed"]
            /\ cancelDlg' = 0
            /\ UNCHANGED clearing
    /\ UNCHANGED <<kind, nextid, clientvars, thread, taskid, threadvars, resumeDlg,
                   refreshq>>

\* ... and the assignment, with the task thread running in between.
ClearTaskid ==
    /\ clearing
    /\ taskid' = 0
    /\ clearing' = FALSE
    /\ cancelDlg' = 0
    /\ rows' = [rows EXCEPT ![cancelDlg] = "removed"]
    /\ UNCHANGED <<kind, nextid, clientvars, thread, threadvars, resumeDlg, refreshq>>

\* remmina_sftp_client_refresh.
Refresh ==
    /\ InLoop
    /\ refreshq
    /\ refreshq' = FALSE
    /\ UNCHANGED <<rowvars, clientvars, thread, taskid, threadvars, dialogvars>>

\* "destroy": the handler of the parent class frees priv ...
DestroyFtpClient ==
    /\ UserTurn
    /\ client' = "freeing"
    /\ UNCHANGED <<rowvars, sftp, thread_abort, thread, taskid, threadvars, dialogvars,
                   refreshq>>

\* ... remmina_sftp_client_destroy frees the session, sets thread_abort and
\* sleeps until the thread has gone.
FreeSession ==
    /\ client = "freeing"
    /\ client' = "destroying"
    /\ sftp' = FALSE
    /\ UNCHANGED <<rowvars, thread_abort, thread, taskid, threadvars, dialogvars,
                   refreshq>>

Abort ==
    /\ client = "destroying"
    /\ client' = "waiting"
    /\ thread_abort' = TRUE
    /\ UNCHANGED <<rowvars, sftp, thread, taskid, threadvars, dialogvars, refreshq>>

\* Mutant: the thread is not waited for.
Destroyed_NoWait ==
    /\ client = "waiting"
    /\ client' = "gone"
    /\ UNCHANGED <<rowvars, sftp, thread_abort, thread, taskid, threadvars, dialogvars,
                   refreshq>>

Destroyed ==
    /\ client = "waiting"
    /\ ~thread
    /\ client' = "gone"
    /\ UNCHANGED <<rowvars, sftp, thread_abort, thread, taskid, threadvars, dialogvars,
                   refreshq>>

-----------------------------------------------------------------------------
Thread ==
    GetTask \/ Claim \/ Connect \/ Begin \/ List \/ ListEnd \/ NextFile \/ NextEnd
    \/ OpenFile \/ Copy \/ CopyEnd \/ Uploaded \/ Done \/ End \/ Exit

Serve == ServeGet \/ ServeUpdate \/ ServeConfirm \/ Refresh

User == NewTasks \/ DestroyFtpClient \/ \E i \in Ids : CancelTask(i)

Answer == AnswerResume \/ AnswerNo \/ AnswerYes

Destroy == FreeSession \/ Abort \/ Destroyed

Next == Thread \/ Serve \/ User \/ Answer \/ ClearTaskid \/ Destroy

Spec == Init /\ [][Next]_vars

\* Threads are scheduled, dialogs are answered, folders and files end.
Fairness ==
    /\ WF_vars(Thread) /\ WF_vars(Serve) /\ WF_vars(AnswerResume)
    /\ WF_vars(AnswerNo \/ AnswerYes) /\ WF_vars(ClearTaskid) /\ WF_vars(Destroy)
    /\ SF_vars(ListEnd) /\ SF_vars(NextEnd) /\ SF_vars(CopyEnd)

FairSpec == Spec /\ Fairness

-----------------------------------------------------------------------------
(* Properties.                                                             *)

\* The status of a row moves forward only, and a row the user has removed never
\* comes back, whatever updates the thread still sends.
RowsForward ==
    [][\A i \in Ids : rows'[i] # rows[i] =>
          CASE rows[i] = "none" -> rows'[i] = "wait"
            [] rows[i] = "wait" -> rows'[i] \in {"run", "removed"}
            [] rows[i] = "run"  -> rows'[i] \in {"finish", "error", "removed"}
            [] rows[i] \in {"finish", "error"} -> rows'[i] = "removed"
            [] rows[i] = "removed" -> FALSE]_rows

\* The destruction of the widget does not end before the thread has stopped
\* using it.
GoneMeansNoThread == client = "gone" => pc = "none"

\* A task the thread has taken is given up or done in the end, as long as the
\* widget lives and the thread does not end without a word.
Taken == task # 0
GivenUpOrDone == task = 0 \/ client # "alive" \/ pc = "lost"
TaskEnds == Taken ~> GivenUpOrDone

\* "We will wait for the thread to quit itself, and hopefully the thread is
\* handling things correctly": the destruction ends.
DestroyReturns == client = "waiting" ~> client = "gone"
=============================================================================
