------------------------------ MODULE SshTunnel ------------------------------
(***************************************************************************)
(* An SSH tunnel of a connection (src/remmina_ssh.c): its thread accepts    *)
(* connections, pairs each with an SSH channel, and copies data both ways   *)
(* until the last one is gone.  The main thread opens the tunnel, stops the *)
(* accepting when the protocol is up, and frees the tunnel, by itself (the  *)
(* connection closes) or because an idle source tells it that the thread    *)
(* has ended (src/remmina_protocol_widget.c).                               *)
(*                                                                         *)
(* Connections are numbered; the socket and the channel of connection n are *)
(* both called n.  0 stands for NULL, or for nothing.                       *)
(***************************************************************************)
EXTENDS Naturals, Sequences

CONSTANT MaxConns       \* bound on the connections made through the tunnel

VARIABLES
    kind,           \* tunnel_type
    own,            \* what the main thread has made of the tunnel
    destroy_func,   \* "garbage" until the owner sets it: tunnel_new_from_file,
                    \* which uses g_new, does not
    alive,          \* tunnel->thread # 0
    running,        \* tunnel->running
    listening,      \* server_sock >= 0
    slots,          \* channels, sockets and socketbuffers, num_channels of each
    pc,             \* where the thread is
    i,              \* its index into the arrays
    hand,           \* what it has accepted or created and not yet stored
    conns,          \* connections made so far
    sockets,        \* open sockets
    channels,       \* allocated channels
    notice,         \* the idle source that announces the end is queued
    twice,          \* a socket was closed, or a channel freed, twice
    torn,           \* the thread was cancelled in the middle of a removal
    fault           \* the freed tunnel was used, or a wild pointer called

mainvars == <<kind, own, destroy_func>>
arrays == <<slots, i, hand, conns, sockets, channels, twice>>
vars == <<mainvars, alive, running, listening, arrays, pc, notice, torn, fault>>

Ids == 1 .. MaxConns
Nothing == [ch |-> 0, sk |-> 0]

\* Points where the thread reaches a cancellation point.
Cancellable == {"start", "forward", "first", "loop", "select", "read", "poll", "accept",
                "forward again", "removing in read", "removing in poll",
                "closing", "closing channel"}

TypeOK ==
    /\ kind \in {"open", "xport", "reverse"}
    /\ own \in {"new", "open", "joining", "freed"}
    /\ destroy_func \in {"garbage", "owner"}
    /\ alive \in BOOLEAN /\ running \in BOOLEAN /\ listening \in BOOLEAN
    /\ slots \in Seq([ch : Ids \cup {0}, sk : Ids, buf : Ids \cup {0}])
    /\ pc \in Cancellable \cup {"none", "returned", "ended", "ending", "dead"}
    /\ i \in 1 .. MaxConns + 1
    /\ hand \in [ch : Ids \cup {0}, sk : Ids \cup {0}]
    /\ conns \in 0 .. MaxConns
    /\ sockets \subseteq Ids /\ channels \subseteq Ids
    /\ notice \in BOOLEAN /\ twice \in BOOLEAN /\ torn \in BOOLEAN
    /\ fault \in {"none", "freed", "wild"}

Init ==
    /\ kind \in {"open", "xport", "reverse"}
    /\ own = "new" /\ destroy_func = "garbage"
    /\ alive = FALSE /\ running = FALSE /\ listening = FALSE
    /\ slots = <<>> /\ i = 1 /\ hand = Nothing /\ conns = 0
    /\ sockets = {} /\ channels = {}
    /\ pc = "none" /\ notice = FALSE
    /\ twice = FALSE /\ torn = FALSE /\ fault = "none"

-----------------------------------------------------------------------------
(* The arrays.                                                             *)

\* Mutant: the buffer of the new slot is what the memory held.
add_channel_NoClear(ch, sk) ==
    slots' = Append(slots, [ch |-> ch, sk |-> sk, buf |-> MaxConns + 1])

\* remmina_ssh_tunnel_add_channel
add_channel(ch, sk) == slots' = Append(slots, [ch |-> ch, sk |-> sk, buf |-> 0])

\* Mutants: the last slot goes instead; the socket of the last slot stays behind.
remove_slot_Last(n) == SubSeq(slots, 1, Len(slots) - 1)

remove_slot_Mixed(n) ==
    LET last == slots[Len(slots)]
        s == [slots EXCEPT ![n] = [last EXCEPT !.sk = slots[n].sk]]
    IN  SubSeq(s, 1, Len(s) - 1)

\* The last slot takes the place of the one that goes (the end of
\* remmina_ssh_tunnel_remove_channel).
remove_slot(n) ==
    SubSeq([slots EXCEPT ![n] = slots[Len(slots)]], 1, Len(slots) - 1)

close_socket(sk) ==
    /\ sockets' = sockets \ {sk}
    /\ twice' = (twice \/ sk \notin sockets)

free_channel(ch) ==
    /\ channels' = channels \ {ch}
    /\ twice' = (twice \/ ch \notin channels \cup {0})

\* remmina_ssh_tunnel_close_all_channels, in the main thread.
close_all_channels ==
    /\ sockets' = sockets \ {slots[k].sk : k \in DOMAIN slots}
    /\ channels' = channels \ {slots[k].ch : k \in DOMAIN slots}
    /\ twice' = (twice \/ \E k \in DOMAIN slots :
                             \/ slots[k].sk \notin sockets
                             \/ slots[k].ch \notin channels \cup {0})
    /\ slots' = <<>>

-----------------------------------------------------------------------------
(* The tunnel thread: remmina_ssh_tunnel_main_thread_proc ...              *)

Go(p) == pc' = p

\* The early returns: tunnel->thread = 0, running stays TRUE.
Return ==
    /\ Go("returned") /\ alive' = FALSE
    /\ UNCHANGED <<running, slots, i, sockets, channels, twice>>

\* A local connection: accept() gives socket n.
accept_local_connection(n) ==
    /\ conns < MaxConns
    /\ n = conns + 1
    /\ conns' = n
    /\ hand' = [ch |-> 0, sk |-> n]
    /\ sockets' = sockets \cup {n}
    /\ UNCHANGED <<slots, i, channels, twice>>

AcceptLocal(n) ==
    /\ pc = "start" /\ kind = "open" /\ listening
    /\ accept_local_connection(n)
    /\ Go("forward")
    /\ UNCHANGED <<alive, running>>

AcceptFails ==
    /\ pc = "start" /\ kind = "open"
    /\ Return
    /\ UNCHANGED <<hand, conns>>

\* remmina_ssh_tunnel_create_forward_channel; the check that follows looks at
\* tunnel, not at channel, so that a failure adds a NULL channel.
Forward ==
    /\ pc = "forward"
    /\ \E ch \in {0, hand.sk} :
          /\ add_channel(ch, hand.sk)
          /\ channels' = channels \cup ({ch} \ {0})
    /\ hand' = Nothing
    /\ Go("loop")
    /\ UNCHANGED <<alive, running, i, conns, sockets, twice>>

\* X port and reverse tunnels ask the server to listen.
Listen ==
    /\ pc = "start" /\ kind # "open"
    /\ \/ Go("first") /\ UNCHANGED <<alive, running, slots, i, sockets, channels, twice>>
       \/ Return
    /\ UNCHANGED <<hand, conns>>

\* ssh_channel_accept_forward, 15 seconds for the first connection, and the
\* local end of it.
NoConnection ==
    /\ pc = "first" /\ running
    /\ Return
    /\ UNCHANGED <<hand, conns>>

FirstConnection(n) ==
    /\ \/ pc = "first" /\ running
       \/ pc = "loop" /\ running /\ kind = "xport"
    /\ conns < MaxConns /\ n = conns + 1
    /\ conns' = n
    /\ \/ /\ add_channel(n, n)
          /\ channels' = channels \cup {n}
          /\ sockets' = sockets \cup {n}
          /\ Go("select")
       \/ /\ Go(IF slots = <<>> THEN "closing" ELSE "select")
          /\ UNCHANGED <<slots, channels, sockets>>
    /\ i' = 1
    /\ UNCHANGED <<alive, running, hand, twice>>

Loop ==
    /\ pc \in {"loop", "first"}
    /\ \/ ~running /\ Go("closing")
       \/ running /\ pc = "loop" /\ slots = <<>> /\ Go("closing")
       \/ running /\ pc = "loop" /\ slots # <<>> /\ Go("select")
    /\ i' = 1
    /\ UNCHANGED <<alive, running, slots, hand, conns, sockets, channels, twice>>

\* ssh_select returns: ready or timed out, interrupted, in error.
Select ==
    /\ pc = "select"
    /\ \/ ~running /\ Go("closing")
       \/ running /\ \E p \in {"read", "loop", "closing"} : Go(p)
    /\ i' = 1
    /\ UNCHANGED <<alive, running, slots, hand, conns, sockets, channels, twice>>

\* The two passes over the connections: from the sockets to the channels, and
\* from the channels, by way of the buffers, to the sockets.
Pass(here, next) ==
    /\ pc = here
    /\ \/ ~running /\ Go("closing")
       \/ running /\ i > Len(slots) /\ Go(next)
    /\ i' = 1
    /\ UNCHANGED <<alive, running, slots, hand, conns, sockets, channels, twice>>

Read ==
    /\ pc = "read" /\ running /\ i <= Len(slots)
    /\ i' = i + 1
    /\ UNCHANGED <<pc, alive, running, slots, hand, conns, sockets, channels, twice>>

\* A NULL channel cannot be polled.
Poll ==
    /\ pc = "poll" /\ running /\ i <= Len(slots)
    /\ slots[i].ch # 0
    /\ \E b \in {0, slots[i].ch} : slots' = [slots EXCEPT ![i].buf = b]
    /\ i' = i + 1
    /\ UNCHANGED <<pc, alive, running, hand, conns, sockets, channels, twice>>

\* An error or the end of a stream: remmina_ssh_tunnel_remove_channel frees the
\* channel ...
Disconnected ==
    /\ pc \in {"read", "poll"} /\ running /\ i <= Len(slots)
    /\ free_channel(slots[i].ch)
    /\ Go(IF pc = "read" THEN "removing in read" ELSE "removing in poll")
    /\ UNCHANGED <<alive, running, slots, i, hand, conns, sockets>>

\* ... closes the socket, which is a cancellation point, and fills the slot.
Remove ==
    /\ pc \in {"removing in read", "removing in poll"}
    /\ close_socket(slots[i].sk)
    /\ slots' = remove_slot(i)
    /\ Go(IF pc = "removing in read" THEN "read" ELSE "poll")
    /\ UNCHANGED <<alive, running, i, hand, conns, channels>>

\* One more local connection is accepted without waiting (only an open tunnel
\* has a server socket).
AcceptMore(n) ==
    /\ pc = "accept" /\ listening
    /\ accept_local_connection(n)
    /\ Go("forward again")
    /\ UNCHANGED <<alive, running>>

AcceptNone ==
    /\ pc = "accept"
    /\ Go("loop")
    /\ UNCHANGED <<alive, running, arrays>>

\* Mutant: the same missing check as for the first connection.
ForwardAgain_NoCheck ==
    /\ pc = "forward again"
    /\ \E ch \in {0, hand.sk} :
          /\ add_channel(ch, hand.sk)
          /\ channels' = channels \cup ({ch} \ {0})
    /\ hand' = Nothing
    /\ Go("loop")
    /\ UNCHANGED <<alive, running, i, conns, sockets, twice>>

\* Mutant: the socket of a connection that could not be forwarded stays open.
ForwardAgain_Leaks ==
    /\ pc = "forward again"
    /\ hand' = Nothing
    /\ Go("loop")
    /\ running' = FALSE
    /\ UNCHANGED <<alive, i, conns, slots, channels, sockets, twice>>

ForwardAgain ==
    /\ pc = "forward again"
    /\ hand' = Nothing
    /\ Go("loop")
    /\ \/ /\ add_channel(hand.sk, hand.sk)
          /\ channels' = channels \cup {hand.sk}
          /\ UNCHANGED <<sockets, running, twice>>
       \/ /\ running' = FALSE
          /\ close_socket(hand.sk)
          /\ UNCHANGED <<slots, channels>>
    /\ UNCHANGED <<alive, i, conns>>

\* remmina_ssh_tunnel_close_all_channels, in the thread.
CloseSocket ==
    /\ pc = "closing" /\ i <= Len(slots)
    /\ close_socket(slots[i].sk)
    /\ Go("closing channel")
    /\ UNCHANGED <<alive, running, slots, i, hand, conns, channels>>

CloseChannel ==
    /\ pc = "closing channel"
    /\ free_channel(slots[i].ch)
    /\ i' = i + 1
    /\ Go("closing")
    /\ UNCHANGED <<alive, running, slots, hand, conns, sockets>>

\* Mutant: the thread says it has ended before it has closed the channels.
Closed_Early ==
    /\ pc = "closing"
    /\ running' = FALSE /\ alive' = FALSE
    /\ IF i > Len(slots) THEN slots' = <<>> /\ Go("ended") ELSE UNCHANGED <<slots, pc>>
    /\ UNCHANGED <<i, hand, conns, sockets, channels, twice>>

Closed ==
    /\ pc = "closing" /\ i > Len(slots)
    /\ slots' = <<>> /\ i' = 1
    /\ running' = FALSE
    /\ Go("ended")
    /\ UNCHANGED <<alive, hand, conns, sockets, channels, twice>>

Work ==
    /\ \/ Forward \/ Listen \/ NoConnection \/ Loop \/ Select \/ Read \/ Poll
       \/ Disconnected \/ Remove \/ AcceptNone \/ ForwardAgain \/ CloseSocket
       \/ CloseChannel \/ Closed \/ Pass("read", "poll") \/ Pass("poll", "accept")
    /\ UNCHANGED <<mainvars, listening, notice, torn, fault>>

Connect ==
    /\ AcceptFails \/ \E n \in Ids : AcceptLocal(n) \/ FirstConnection(n) \/ AcceptMore(n)
    /\ UNCHANGED <<mainvars, listening, notice, torn, fault>>

\* ... and remmina_ssh_tunnel_main_thread: after an early return it looks at the
\* tunnel again ...
MainThreadEnds ==
    /\ pc \in {"returned", "ended"}
    /\ IF own = "freed" THEN fault' = "freed" ELSE UNCHANGED fault
    /\ Go("ending") /\ alive' = FALSE
    /\ UNCHANGED <<mainvars, running, listening, arrays, notice, torn>>

\* ... and queues the announcement of its end.
Announce ==
    /\ pc = "ending"
    /\ Go("dead") /\ notice' = TRUE
    /\ UNCHANGED <<mainvars, alive, running, listening, arrays, torn, fault>>

\* Mutant: the thread has disabled its cancellation.
Die_Disabled == own = "freed" /\ pc = "start" /\ UNCHANGED vars

\* pthread_cancel takes effect.
Die ==
    /\ own = "joining"
    /\ pc \in Cancellable
    /\ Go("dead")
    /\ torn' = (torn \/ pc \in {"removing in read", "removing in poll", "closing channel"}
                     \/ (pc = "closing" /\ i > 1))
    /\ UNCHANGED <<mainvars, alive, running, listening, arrays, notice, fault>>

-----------------------------------------------------------------------------
(* The main thread.                                                        *)

\* remmina_ssh_tunnel_open, _xport and _reverse, called by start_direct_tunnel,
\* start_xport_tunnel and start_reverse_tunnel.
Open ==
    /\ own = "new"
    /\ \/ /\ own' = "open"
          /\ alive' = TRUE /\ running' = TRUE /\ listening' = (kind = "open")
          /\ Go("start")
       \/ /\ own' = "freed"
          /\ UNCHANGED <<alive, running, listening, pc>>
    /\ UNCHANGED <<kind, destroy_func, arrays, notice, torn, fault>>

\* Only start_direct_tunnel says how the tunnel is to be destroyed, when its
\* thread is already running.
SetDestroy ==
    /\ own = "open" /\ kind = "open"
    /\ destroy_func' = "owner"
    /\ UNCHANGED <<kind, own, alive, running, listening, arrays, pc, notice, torn, fault>>

\* conn_opened: remmina_ssh_tunnel_cancel_accept
CancelAccept ==
    /\ own = "open" /\ listening
    /\ listening' = FALSE
    /\ UNCHANGED <<mainvars, alive, running, arrays, pc, notice, torn, fault>>

\* The end of remmina_ssh_tunnel_free.
free ==
    /\ own' = "freed"
    /\ listening' = FALSE
    /\ close_all_channels
    /\ UNCHANGED <<kind, destroy_func, running, i, hand, conns, pc, torn>>

\* remmina_ssh_tunnel_free, from remmina_protocol_widget_close_all_tunnels.
Free ==
    /\ own = "open"
    /\ IF alive
       THEN /\ own' = "joining"
            /\ running' = FALSE
            /\ UNCHANGED <<kind, destroy_func, listening, arrays, pc, torn>>
       ELSE free
    /\ UNCHANGED <<alive, notice, fault>>

Joined ==
    /\ own = "joining" /\ pc = "dead"
    /\ alive' = FALSE
    /\ free
    /\ UNCHANGED <<notice, fault>>

\* Mutant: the tunnel is not in the owner's list.
Notify_NotFound ==
    /\ notice /\ own # "joining"
    /\ notice' = FALSE
    /\ UNCHANGED <<mainvars, alive, running, listening, arrays, pc, torn, fault>>

\* remmina_ssh_notify_tunnel_main_thread_end, and the owner's
\* remmina_protocol_widget_tunnel_destroy.
Notify ==
    /\ notice /\ own # "joining"
    /\ notice' = FALSE
    /\ IF own = "open" /\ destroy_func = "owner"
       THEN free /\ UNCHANGED fault
       ELSE /\ \/ own = "freed" /\ fault' = "freed"
               \/ own = "open" /\ fault' \in {"none", "wild"}
            /\ UNCHANGED <<mainvars, running, listening, arrays, pc, torn>>
    /\ UNCHANGED alive

Next ==
    /\ fault = "none"
    /\ \/ Work \/ Connect \/ MainThreadEnds \/ Announce \/ Die
       \/ Open \/ SetDestroy \/ CancelAccept \/ Free \/ Joined \/ Notify

Spec == Init /\ [][Next]_vars

\* The thread and the main loop run; nothing obliges anybody to connect.
Fairness ==
    /\ WF_vars(fault = "none" /\ (Work \/ MainThreadEnds \/ Announce))
    /\ WF_vars(fault = "none" /\ Die)
    /\ WF_vars(fault = "none" /\ (Joined \/ Notify))

FairSpec == Spec /\ Fairness

-----------------------------------------------------------------------------
(* Properties.                                                             *)

\* A channel, its socket and its buffer stay together however slots are
\* reordered: the bytes of one connection never go to another.
Paired ==
    \A k \in DOMAIN slots :
        slots[k].ch \in {0, slots[k].sk} /\ slots[k].buf \in {0, slots[k].sk}

\* The NULL channel that a failed forwarding leaves, which ends the list for
\* ssh_select, never hides another connection.
HoleHidesNone == \A k \in DOMAIN slots : slots[k].ch = 0 => Len(slots) = 1

\* Nothing is closed or freed twice, as long as the cancellation does not strike
\* in the middle of a removal.
ClosedOnce == twice => torn

\* A tunnel that is freed leaves nothing open but what its thread had in hand
\* when it was cancelled.
FreedClosesAll ==
    own = "freed" =>
        ~listening /\ sockets \subseteq {hand.sk} /\ channels \subseteq {hand.ch}

\* The tunnel is never freed under a thread that is still transferring.
TransferOverBeforeFree ==
    own = "freed" => pc \in {"none", "returned", "ending", "dead"}

\* Freeing a tunnel returns, wherever its thread is blocked.
FreeReturns == own = "joining" ~> own = "freed"

\* A tunnel whose thread has announced its end is destroyed by its owner.
Ended == notice /\ destroy_func = "owner"
Destroyed == own = "freed" \/ fault # "none"
EndedIsDestroyed == Ended ~> Destroyed

\* "Ask tunnel owner to destroy tunnel object": the announcement finds the
\* tunnel, and the function of its owner.
NoticeReachesOwner == fault = "none"
=============================================================================
