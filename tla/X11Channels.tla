------------------------------ MODULE X11Channels ------------------------------
(***************************************************************************)
(* The X11 channels of the SSH terminals (src/remmina_ssh.c).  One list    *)
(* for all shells says which file descriptor belongs to which channel, by  *)
(* the address of the channel; the thread of a shell is known by its       *)
(* number.  Addresses, descriptors and numbers of threads are given out    *)
(* again once they are free: a descriptor the lowest one, as the system    *)
(* does.                                                                   *)
(***************************************************************************)
EXTENDS Naturals, Sequences

CONSTANTS Shells, MaxChans     \* a set of shells; the bound of addresses and of descriptors

VARIABLES
    nodes,      \* the list
    shell,      \* of each shell: its state, its thread (0 when it is over), its device
    chan,       \* by address: nothing, or the shell, the socket and the kind of a channel
    open,       \* by descriptor: nothing, or the address of the channel that opened it
    hist        \* a node was left behind; a descriptor of another channel written or closed

vars == <<nodes, shell, chan, open, hist>>

Addrs == 1 .. MaxChans
Tids == 1 .. 2
Kinds == {"free", "shell", "x11", "closed"}

TypeOK ==
    /\ \A i \in DOMAIN nodes :
           nodes[i] \in [ch : Addrs, fd : 0 .. MaxChans, protected : BOOLEAN, thread : Tids]
    /\ shell \in [Shells -> [state : {"new", "open", "ended", "freed"}, thread : 0 .. 2,
                            slave : 0 .. MaxChans]]
    /\ chan \in [Addrs -> [kind : Kinds, shell : Shells \cup {"none"}, fd : 0 .. MaxChans]]
    /\ open \in [Addrs -> 0 .. MaxChans]
    /\ hist \in [left : BOOLEAN, wrong : BOOLEAN]

NoChan == [kind |-> "free", shell |-> "none", fd |-> 0]

Init ==
    /\ nodes = <<>>
    /\ shell = [s \in Shells |-> [state |-> "new", thread |-> 0, slave |-> 0]]
    /\ chan = [a \in Addrs |-> NoChan] /\ open = [d \in Addrs |-> 0]
    /\ hist = [left |-> FALSE, wrong |-> FALSE]

FreeFds(o) == {d \in Addrs : o[d] = 0}
Lowest(o) == CHOOSE d \in FreeFds(o) : \A e \in FreeFds(o) : d <= e

-----------------------------------------------------------------------------
(* The list.                                                               *)

remmina_ssh_insert_item(list, ch, fd, protected, tid) ==
    Append(list, [ch |-> ch, fd |-> fd, protected |-> protected, thread |-> tid])

\* The first node of the channel, 0 for none
remmina_ssh_search_item(list, ch) ==
    IF \A i \in DOMAIN list : list[i].ch # ch THEN 0
    ELSE CHOOSE i \in DOMAIN list : list[i].ch = ch /\ \A j \in 1 .. i - 1 : list[j].ch # ch

\* Mutant: the last node of the list is taken out.
remmina_ssh_delete_item_Last(list, ch) ==
    IF list = <<>> THEN list ELSE SubSeq(list, 1, Len(list) - 1)

remmina_ssh_delete_item(list, ch) ==
    LET i == remmina_ssh_search_item(list, ch)
    IN  IF i = 0 THEN list ELSE SubSeq(list, 1, i - 1) \o SubSeq(list, i + 1, Len(list))

\* close of a set of descriptors, those that are open
CloseAll(o, fds) == [d \in Addrs |-> IF d \in fds THEN 0 ELSE o[d]]

\* A descriptor that now is another channel's, or that of a channel that is given
Foreign(fds, own) == \E d \in fds \ {0} : open[d] # 0 /\ open[d] \notin own

-----------------------------------------------------------------------------

\* The end of the setting up in remmina_ssh_shell_thread: the device of the shell, which
\* remmina_ssh_shell_open opened, is protected.
OpenShell(s) ==
    /\ shell[s].state = "new" /\ FreeFds(open) # {}
    /\ \E a \in {b \in Addrs : chan[b].kind = "free"}, t \in Tids \ {shell[r].thread : r \in Shells} :
          LET d == Lowest(open)
          IN  /\ nodes' = remmina_ssh_insert_item(nodes, a, d, TRUE, t)
              /\ chan' = [chan EXCEPT ![a] = [kind |-> "shell", shell |-> s, fd |-> d]]
              /\ open' = [open EXCEPT ![d] = a]
              /\ shell' = [shell EXCEPT ![s] = [state |-> "open", thread |-> t, slave |-> d]]
    /\ UNCHANGED hist

\* remmina_ssh_x11_connect_display: the socket that it opens and leaves open; without a
\* display, or a server that answers, -1, here 0
remmina_ssh_x11_connect_display ==
    {0} \cup (IF FreeFds(open) = {} THEN {} ELSE {Lowest(open)})

\* remmina_ssh_x11_open_request_cb
remmina_ssh_x11_open_request_cb(s) ==
    /\ shell[s].state = "open"
    /\ \E a \in {b \in Addrs : chan[b].kind = "free"},
          d \in remmina_ssh_x11_connect_display :
          /\ nodes' = remmina_ssh_insert_item(nodes, a, d, FALSE, shell[s].thread)
          /\ chan' = [chan EXCEPT ![a] = [kind |-> "x11", shell |-> s, fd |-> d]]
          /\ open' = IF d = 0 THEN open ELSE [open EXCEPT ![d] = a]
    /\ UNCHANGED <<shell, hist>>

\* remmina_ssh_cp_to_fd_cb: what the server sends goes to the socket of the node.
remmina_ssh_cp_to_fd_cb(a) ==
    /\ chan[a].kind \in {"shell", "x11"}
    /\ LET n == remmina_ssh_search_item(nodes, a)
       IN  /\ n # 0
           /\ hist' = [hist EXCEPT !.wrong = @ \/ Foreign({nodes[n].fd}, {a})]
    /\ UNCHANGED <<nodes, shell, chan, open>>

\* remmina_ssh_cp_to_ch_cb at the end of what the X client sends: its socket is closed, the
\* node stays, and the channel until the server closes it.
remmina_ssh_cp_to_ch_cb(a) ==
    /\ chan[a].kind = "x11" /\ chan[a].fd # 0 /\ open[chan[a].fd] = a
    /\ LET n == remmina_ssh_search_item(nodes, a)
       IN  /\ n # 0 /\ ~nodes[n].protected
           /\ open' = CloseAll(open, {chan[a].fd})
    /\ hist' = [hist EXCEPT !.left = TRUE]
    /\ UNCHANGED <<nodes, shell, chan>>

\* remmina_ssh_ch_close_cb; the channel stays with its session, the address in use.
remmina_ssh_ch_close_cb(a) ==
    /\ chan[a].kind = "x11"
    /\ LET n == remmina_ssh_search_item(nodes, a)
       IN  IF n # 0 /\ ~nodes[n].protected
           THEN /\ nodes' = remmina_ssh_delete_item(nodes, a)
                /\ hist' = [hist EXCEPT !.wrong = @ \/ Foreign({nodes[n].fd}, {a})]
                /\ open' = CloseAll(open, {nodes[n].fd})
           ELSE UNCHANGED <<nodes, hist, open>>
    /\ chan' = [chan EXCEPT ![a].kind = "closed"]
    /\ UNCHANGED shell

\* The descriptors of remmina_ssh_close_all_x11_ch
OfThread(tid) ==
    {nodes[i].fd : i \in {j \in DOMAIN nodes : nodes[j].thread = tid /\ ~nodes[j].protected}}

Own(s) == {a \in Addrs : chan[a].shell = s}

\* The end of remmina_ssh_shell_thread: the channel of the shell is freed, its node stays.
EndShell(s) ==
    /\ shell[s].state = "open"
    /\ hist' = [left |-> TRUE, wrong |-> hist.wrong \/ Foreign(OfThread(shell[s].thread), Own(s))]
    /\ open' = CloseAll(open, OfThread(shell[s].thread))
    /\ chan' = [a \in Addrs |-> IF chan[a].shell = s /\ chan[a].kind = "shell"
                                THEN NoChan ELSE chan[a]]
    /\ shell' = [shell EXCEPT ![s].state = "ended", ![s].thread = 0]
    /\ UNCHANGED nodes

\* remmina_ssh_shell_free, before or after the end of the thread; the session frees its
\* channels.
remmina_ssh_shell_free(s) ==
    /\ shell[s].state \in {"open", "ended"}
    /\ LET fds == IF shell[s].thread = 0 THEN {} ELSE OfThread(shell[s].thread)
       IN  /\ hist' = [left |-> TRUE, wrong |-> hist.wrong \/ Foreign(fds, Own(s))]
           /\ open' = CloseAll(open, fds \cup {shell[s].slave})
    /\ chan' = [a \in Addrs |-> IF chan[a].shell = s THEN NoChan ELSE chan[a]]
    /\ shell' = [shell EXCEPT ![s].state = "freed", ![s].thread = 0]
    /\ UNCHANGED nodes

Next ==
    \/ \E s \in Shells :
          \/ OpenShell(s) \/ remmina_ssh_x11_open_request_cb(s)
          \/ EndShell(s) \/ remmina_ssh_shell_free(s)
    \/ \E a \in Addrs :
          \/ remmina_ssh_cp_to_fd_cb(a) \/ remmina_ssh_cp_to_ch_cb(a)
          \/ remmina_ssh_ch_close_cb(a)

Spec == Init /\ [][Next]_vars

-----------------------------------------------------------------------------

\* Data go to the channel they are meant for, and nobody closes the socket of another, as long
\* as no shell has ended and no X client has closed its socket before the server closed the
\* channel: only the nodes that these leave in the list lead to another's socket.
OwnSockets == hist.wrong => hist.left

\* Every channel in use finds its node, which the callbacks follow without a test.
NodeFound ==
    \A a \in Addrs : chan[a].kind \in {"shell", "x11"} => remmina_ssh_search_item(nodes, a) # 0
=============================================================================
