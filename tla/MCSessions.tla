------------------------------ MODULE MCSessions ------------------------------
(***************************************************************************)
(* The sessions that run in threads or timers of their own, one at a time: *)
(* a behaviour is about one of the parts, chosen in the initial state, and *)
(* the variables of the others stay as they are.  The parts share nothing, *)
(* so the states of the model are the sum of theirs; their initial states  *)
(* enable nothing that is fair, so a part that does not run asks for       *)
(* nothing.                                                                *)
(***************************************************************************)
EXTENDS Naturals

CONSTANTS
    MaxEvents,      \* bound of VncSession: events of the user
    MaxSessions,    \* bound of X2GoSession: sessions of the server
    MaxTasks,       \* bound of SftpTasks: tasks the user adds
    MaxConns,       \* bound of SshTunnel: connections of a tunnel
    Sizes,          \* sizes of the window in RdpLayout
    Size            \* one of them

ASSUME SessionBounds ==
    /\ MaxEvents \in Nat /\ MaxSessions \in Nat /\ MaxTasks \in Nat /\ MaxConns \in Nat
    /\ Sizes \subseteq Nat \ {0} /\ Size \in Sizes

VARIABLES
    part,       \* which of the parts this behaviour is about
    vnc_pc, vnc_next, vnc_sess, vnc_queue, vnc_idle, vnc_main, vnc_gp, vnc_hist,
    vnc_fault,
    x2go_pc, x2go_data, x2go_dlg, x2go_term, x2go_child, x2go_embed, x2go_main,
    x2go_idle, x2go_gp, x2go_hist, x2go_fault,
    layout_rfi, layout_window, layout_layout,
    sftp_rows, sftp_kind, sftp_nextid, sftp_client, sftp_sftp, sftp_thread,
    sftp_thread_abort, sftp_taskid, sftp_pc, sftp_task, sftp_conn, sftp_refresh,
    sftp_after, sftp_cancelDlg, sftp_clearing, sftp_resumeDlg, sftp_refreshq,
    tunnel_kind, tunnel_own, tunnel_destroy_func, tunnel_alive, tunnel_running,
    tunnel_listening, tunnel_slots, tunnel_pc, tunnel_i, tunnel_hand, tunnel_conns,
    tunnel_sockets, tunnel_channels, tunnel_notice, tunnel_twice, tunnel_torn,
    tunnel_fault,
    life_conn, life_todo, life_mid

Vnc == INSTANCE VncSession WITH
    pc <- vnc_pc, next <- vnc_next, sess <- vnc_sess, queue <- vnc_queue, idle <-
    vnc_idle, main <- vnc_main, gp <- vnc_gp, hist <- vnc_hist, fault <- vnc_fault,
    MaxEvents <- MaxEvents
VncVars ==
    <<vnc_pc, vnc_next, vnc_sess, vnc_queue, vnc_idle, vnc_main, vnc_gp, vnc_hist,
      vnc_fault>>

X2Go == INSTANCE X2GoSession WITH
    pc <- x2go_pc, data <- x2go_data, dlg <- x2go_dlg, term <- x2go_term, child <-
    x2go_child, embed <- x2go_embed, main <- x2go_main, idle <- x2go_idle, gp <-
    x2go_gp, hist <- x2go_hist, fault <- x2go_fault, N <- MaxSessions
X2GoVars ==
    <<x2go_pc, x2go_data, x2go_dlg, x2go_term, x2go_child, x2go_embed, x2go_main,
      x2go_idle, x2go_gp, x2go_hist, x2go_fault>>

Layout == INSTANCE RdpLayout WITH
    rfi <- layout_rfi, window <- layout_window, layout <- layout_layout, Sizes <- Sizes
LayoutVars == <<layout_rfi, layout_window, layout_layout>>

Sftp == INSTANCE SftpTasks WITH
    rows <- sftp_rows, kind <- sftp_kind, nextid <- sftp_nextid, client <- sftp_client,
    sftp <- sftp_sftp, thread <- sftp_thread, thread_abort <- sftp_thread_abort, taskid
    <- sftp_taskid, pc <- sftp_pc, task <- sftp_task, conn <- sftp_conn, refresh <-
    sftp_refresh, after <- sftp_after, cancelDlg <- sftp_cancelDlg, clearing <-
    sftp_clearing, resumeDlg <- sftp_resumeDlg, refreshq <- sftp_refreshq, MaxTasks <- MaxTasks
SftpVars ==
    <<sftp_rows, sftp_kind, sftp_nextid, sftp_client, sftp_sftp, sftp_thread,
      sftp_thread_abort, sftp_taskid, sftp_pc, sftp_task, sftp_conn, sftp_refresh,
      sftp_after, sftp_cancelDlg, sftp_clearing, sftp_resumeDlg, sftp_refreshq>>

Tunnel == INSTANCE SshTunnel WITH
    kind <- tunnel_kind, own <- tunnel_own, destroy_func <- tunnel_destroy_func, alive
    <- tunnel_alive, running <- tunnel_running, listening <- tunnel_listening, slots <-
    tunnel_slots, pc <- tunnel_pc, i <- tunnel_i, hand <- tunnel_hand, conns <-
    tunnel_conns, sockets <- tunnel_sockets, channels <- tunnel_channels, notice <-
    tunnel_notice, twice <- tunnel_twice, torn <- tunnel_torn, fault <- tunnel_fault,
    MaxConns <- MaxConns
TunnelVars ==
    <<tunnel_kind, tunnel_own, tunnel_destroy_func, tunnel_alive, tunnel_running,
      tunnel_listening, tunnel_slots, tunnel_pc, tunnel_i, tunnel_hand, tunnel_conns,
      tunnel_sockets, tunnel_channels, tunnel_notice, tunnel_twice, tunnel_torn,
      tunnel_fault>>

Life == INSTANCE ConnectionLifecycle WITH
    conn <- life_conn, todo <- life_todo, mid <- life_mid, Conns <- {"c"}, None <-
    "none"
LifeVars == <<life_conn, life_todo, life_mid>>

vars ==
    <<part, VncVars, X2GoVars, LayoutVars, SftpVars, TunnelVars, LifeVars>>

Parts == {"Vnc", "X2Go", "Layout", "Sftp", "Tunnel", "Life"}

Init ==
    /\ part \in Parts
    /\ Vnc!Init
    /\ X2Go!Init
    /\ Layout!Init
    /\ Sftp!Init
    /\ Tunnel!Init
    /\ Life!Init
    /\ part # "Layout" => layout_window.size = Size
    /\ part # "Tunnel" => tunnel_kind = "open"
    /\ part # "Life" => ~life_conn["c"].prompt /\ ~life_conn["c"].sync

\* A step of one part: the others stay as they are.
Only(p) ==
    /\ part = p /\ UNCHANGED part
    /\ IF p = "Vnc" THEN TRUE ELSE UNCHANGED VncVars
    /\ IF p = "X2Go" THEN TRUE ELSE UNCHANGED X2GoVars
    /\ IF p = "Layout" THEN TRUE ELSE UNCHANGED LayoutVars
    /\ IF p = "Sftp" THEN TRUE ELSE UNCHANGED SftpVars
    /\ IF p = "Tunnel" THEN TRUE ELSE UNCHANGED TunnelVars
    /\ IF p = "Life" THEN TRUE ELSE UNCHANGED LifeVars

Next ==
    \/ part = "Vnc" /\ Vnc!Next /\ Only("Vnc")
    \/ part = "X2Go" /\ X2Go!Next /\ Only("X2Go")
    \/ part = "Layout" /\ Layout!Next /\ Only("Layout")
    \/ part = "Sftp" /\ Sftp!Next /\ Only("Sftp")
    \/ part = "Tunnel" /\ Tunnel!Next /\ Only("Tunnel")
    \/ part = "Life" /\ Life!Next /\ Only("Life")

\* The fairness of the modules.  As only one part runs, a condition for each part is one
\* condition for all: the threads and the sources of the main loop, what ends a thread,
\* and what is only fair when it is enabled again and again.
Run ==
    \/ Only("Vnc") /\ Vnc!ThreadStep
    \/ Only("X2Go") /\ X2Go!ThreadStep
    \/ Only("Layout") /\ Layout!delayed_monitor_layout
    \/ Only("Sftp") /\ Sftp!Thread
    \/ Only("Tunnel") /\ tunnel_fault = "none"
       /\ (Tunnel!Work \/ Tunnel!MainThreadEnds \/ Tunnel!Announce)
    \/ Only("Life") /\ Life!Main("c")
Serve ==
    \/ Only("Vnc") /\ (Vnc!Write \/ Vnc!close_connection \/ Vnc!Join)
    \/ Only("X2Go") /\ X2Go!CleanUpStep
    \/ Only("Sftp") /\ Sftp!Serve
    \/ Only("Tunnel") /\ tunnel_fault = "none" /\ (Tunnel!Joined \/ Tunnel!Notify)
End ==
    \/ Only("Vnc") /\ Vnc!Die
    \/ Only("X2Go") /\ X2Go!Die
    \/ Only("Sftp") /\ Sftp!AnswerResume
    \/ Only("Tunnel") /\ tunnel_fault = "none" /\ Tunnel!Die
    \/ Only("Life") /\ life_conn["c"].asked /\ Life!ThreadEnds("c")
Again(k) ==
    \/ Only("Vnc") /\ \/ k = 1 /\ Vnc!ServeScale
                      \/ k = 2 /\ Vnc!CloseTimer
                      \/ k = 3 /\ Vnc!Answer
                      \/ k = 4 /\ Vnc!Retry
    \/ Only("X2Go") /\ \/ k = 1 /\ X2Go!QueuedCleanup
                       \/ k = 2 /\ X2Go!AddId
                       \/ k = 3 /\ X2Go!pyhoca_cli_exited
    \/ Only("Sftp") /\ \/ k = 1 /\ Sftp!ListEnd
                       \/ k = 2 /\ Sftp!NextEnd
                       \/ k = 3 /\ Sftp!CopyEnd

Fairness ==
    /\ WF_vars(Run) /\ WF_vars(Serve) /\ WF_vars(End)
    /\ WF_vars(Only("Sftp") /\ (Sftp!AnswerNo \/ Sftp!AnswerYes))
    /\ WF_vars(Only("Sftp") /\ Sftp!ClearTaskid)
    /\ WF_vars(Only("Sftp") /\ Sftp!Destroy)
    /\ SF_vars(Again(1)) /\ SF_vars(Again(2)) /\ SF_vars(Again(3)) /\ SF_vars(Again(4))

Spec == Init /\ [][Next]_vars /\ Fairness

-----------------------------------------------------------------------------

\* Every part keeps its variables in their types.
TypeOK ==
    /\ Vnc!TypeOK /\ X2Go!TypeOK /\ Layout!TypeOK
    /\ Sftp!TypeOK /\ Tunnel!TypeOK /\ Life!TypeOK

\* What a session uses after its end, and what it signals or closes twice, is one of the
\* cases that its module names: an event that comes after the clean-up, a thread that ends
\* while the clean-up looks at it, a cancellation in the middle of a removal.
FaultsKnown ==
    /\ Vnc!ClosedOnce /\ Vnc!FaultNeedsLate /\ X2Go!FaultKnown
    /\ Tunnel!ClosedOnce /\ Life!NoFault

\* A source of the main loop that a session owns is known by its number for as long as it
\* runs, so that the end of the session can remove it.
SourcesKnown == Vnc!DrawKnown /\ Layout!OneLayoutTimer

\* What a thread transfers stays together and is released exactly when the thread is over:
\* the channels, sockets and buffers of a tunnel, the rows of the transfers, the session
\* that the user chose.
TransfersPaired ==
    /\ Tunnel!Paired /\ Tunnel!HoleHidesNone
    /\ Tunnel!FreedClosesAll /\ Tunnel!TransferOverBeforeFree
    /\ Sftp!GoneMeansNoThread /\ X2Go!ResumesChosen

\* A session tells the protocol widget once that it is open, and then that it is over; the
\* status of a row of the SFTP window only moves forward.
KeepPromises == Vnc!KeepsPromise /\ X2Go!KeepsPromise /\ Sftp!RowsForward

\* A close of the user, an end of the thread, the freeing of a tunnel and the announcement of
\* its end come to an end (CloseEnds of each module, FreeReturns of SshTunnel).
ClosesEnd ==
    \/ part = "Vnc" /\ Vnc!CloseAsked
    \/ part = "X2Go" /\ X2Go!CloseAsked
    \/ part = "Tunnel" /\ tunnel_own = "joining"
    \/ part = "Life" /\ life_conn["c"].user
    ~>
    \/ part = "Vnc" /\ Vnc!IsOver
    \/ part = "X2Go" /\ X2Go!IsOver
    \/ part = "Tunnel" /\ tunnel_own = "freed"
    \/ part = "Life" /\ Life!IsOver("c")

\* What is asked for is done in the end: an event of the user is sent unless the library has
\* data of the server buffered for ever (EventsSent of VncSession), a file is transferred or given up (TaskEnds of SftpTasks), a tunnel whose
\* thread has announced its end is destroyed (EndedIsDestroyed of SshTunnel), a new size
\* reaches the server (SizeSent of RdpLayout, here for one size: the other is symmetric).
WorkEnds ==
    []<>~vnc_sess.buffered =>
    (  \/ part = "Vnc" /\ Vnc!Waiting
       \/ part = "Sftp" /\ Sftp!Taken
       \/ part = "Tunnel" /\ Tunnel!Ended
       \/ part = "Layout" /\ Layout!Unserved(Size)
       ~>
       \/ part = "Vnc" /\ Vnc!Sent
       \/ part = "Sftp" /\ Sftp!GivenUpOrDone
       \/ part = "Tunnel" /\ Tunnel!Destroyed
       \/ part = "Layout" /\ Layout!ServedOrNot(Size)  )
=============================================================================
