-------------------------- MODULE ServiceDiscovery --------------------------
(***************************************************************************)
(* The discovery of VNC servers in the local network (remmina_avahi.c),    *)
(* which the menu of the status icon turns on and off.  The daemon tells   *)
(* the browser of a service once for each interface, and the resolver of   *)
(* a service once where it is; both in order, as one connection carries    *)
(* them.  The table of the menu has the services by name only.             *)
(***************************************************************************)
EXTENDS Integers, Sequences, FiniteSets, Functions

CONSTANTS
    Places,         \* where a service may be found: <<service, interface>>
    MaxMessages     \* bound on the messages of the daemon under way

VARIABLES
    known,          \* the places the daemon knows of
    up,             \* the daemon runs
    enabled,        \* remmina_pref.applet_enable_avahi
    ga,             \* the RemminaAvahi: started, its client, the timer of remmina_avahi_iterate
    queue,          \* the messages of the daemon to the client
    resolvers,      \* how many resolvers wait for an answer, by place
    discovered,     \* discovered_services
    missed          \* the services the table lost, or never had, though they are there

vars == <<known, up, enabled, ga, queue, resolvers, discovered, missed>>

Services == {p[1] : p \in Places}
Messages == {"new", "remove", "found", "failure"} \X Places
Off == [started |-> FALSE, client |-> "none", timer |-> FALSE]
NoResolver == [p \in Places |-> 0]
There == {p[1] : p \in known}

TypeOK ==
    /\ known \subseteq Places /\ up \in BOOLEAN /\ enabled \in BOOLEAN
    /\ ga \in [started : BOOLEAN, client : {"none", "running", "failed"}, timer : BOOLEAN]
    /\ queue \in Seq(Messages) /\ Len(queue) <= MaxMessages
    /\ resolvers \in [Places -> 0 .. 2]
    /\ discovered \subseteq Services /\ missed \subseteq Services

Init ==
    /\ known \in SUBSET Places /\ up \in BOOLEAN /\ enabled \in BOOLEAN
    /\ ga = Off /\ queue = <<>> /\ resolvers = NoResolver
    /\ discovered = {} /\ missed = {}

-----------------------------------------------------------------------------

\* remmina_avahi_start: it counts as started even if the daemon does not answer; the browser
\* may fail after the client.
start ==
    /\ UNCHANGED <<resolvers, discovered, missed>>
    /\ IF ga.started
       THEN UNCHANGED <<ga, queue>>
       ELSE \/ /\ ~up
               /\ ga' = [Off EXCEPT !.started = TRUE]
               /\ UNCHANGED queue
            \/ /\ up
               /\ ga' = [started |-> TRUE, client |-> "running", timer |-> FALSE]
               /\ UNCHANGED queue
            \/ /\ up
               /\ ga' = [started |-> TRUE, client |-> "running", timer |-> TRUE]
               /\ \E order \in Injection(1 .. Cardinality(known), known) :
                     queue' = [i \in DOMAIN order |-> <<"new", order[i]>>]

\* A stop that leaves the table as it is.
stop_Kept ==
    /\ ga' = Off
    /\ queue' = <<>>
    /\ resolvers' = NoResolver
    /\ UNCHANGED <<discovered, missed>>

\* remmina_avahi_stop; the client takes its browser and its resolvers with it.
stop ==
    /\ ga' = Off
    /\ queue' = <<>>
    /\ resolvers' = NoResolver
    /\ discovered' = {}
    /\ missed' = {}

\* remmina_icon_init, at the start and after the preferences.
IconInit ==
    /\ IF enabled THEN start ELSE stop
    /\ UNCHANGED <<known, up, enabled>>

\* remmina_icon_enable_avahi: the user has ticked the item of the menu, or cleared it.
Toggle ==
    /\ enabled' = ~enabled
    /\ IF enabled' THEN start ELSE stop
    /\ UNCHANGED <<known, up>>

-----------------------------------------------------------------------------

Browsing == ga.timer /\ ga.client = "running"
Tells(m) ==
    IF Browsing
    THEN Len(queue) < MaxMessages /\ queue' = Append(queue, m)
    ELSE UNCHANGED queue

\* The daemon learns of a service, or that it is gone, or it answers a resolver.
Announce(p) ==
    /\ up /\ p \notin known
    /\ known' = known \cup {p} /\ Tells(<<"new", p>>)
    /\ UNCHANGED <<up, enabled, ga, resolvers, discovered, missed>>
Withdraw(p) ==
    /\ up /\ p \in known
    /\ known' = known \ {p} /\ Tells(<<"remove", p>>)
    /\ UNCHANGED <<up, enabled, ga, resolvers, discovered, missed>>
Answer(p) ==
    /\ up /\ Browsing /\ resolvers[p] > 0
    /\ \/ p \in known /\ Tells(<<"found", p>>)
       \/ Tells(<<"failure", p>>)
    /\ resolvers' = [resolvers EXCEPT ![p] = @ - 1]
    /\ UNCHANGED <<known, up, enabled, ga, discovered, missed>>

\* The daemon ends: remmina_avahi_client_callback only says so, and no resolver is answered.
\* It starts again, and learns what there is; the client does not.
Fail ==
    /\ up /\ up' = FALSE
    /\ ga' = [ga EXCEPT !.client = IF @ = "running" THEN "failed" ELSE @]
    /\ UNCHANGED <<known, enabled, queue, resolvers, discovered, missed>>
Recover ==
    /\ ~up /\ up' = TRUE
    /\ known' \in SUBSET Places
    /\ UNCHANGED <<enabled, ga, queue, resolvers, discovered, missed>>

-----------------------------------------------------------------------------

\* remmina_avahi_browse_callback: a service of the table is not resolved again, and one that
\* is gone from an interface leaves the table though another interface may have it.
browse_callback(event, p) ==
    \/ /\ event = "new" /\ p[1] \notin discovered
       /\ IF ga.client = "running"
          THEN resolvers[p] < 2 /\ resolvers' = [resolvers EXCEPT ![p] = @ + 1]
          ELSE UNCHANGED resolvers
       /\ UNCHANGED <<discovered, missed>>
    \/ /\ event = "new" /\ p[1] \in discovered
       /\ UNCHANGED <<resolvers, discovered, missed>>
    \/ /\ event = "remove"
       /\ discovered' = discovered \ {p[1]}
       /\ missed' = missed \cup {p[1]}
       /\ UNCHANGED resolvers

\* remmina_avahi_resolve_callback; the resolver is freed with its first answer.
resolve_callback(event, p) ==
    \/ /\ event = "found"
       /\ discovered' = discovered \cup {p[1]}
       /\ missed' = missed \ {p[1]}
       /\ UNCHANGED resolvers
    \/ /\ event = "failure"
       /\ missed' = missed \cup ({p[1]} \ discovered)
       /\ UNCHANGED <<resolvers, discovered>>

\* remmina_avahi_iterate, every five seconds, takes as many messages as there are.
Iterate ==
    /\ ga.timer /\ queue # <<>>
    /\ LET event == Head(queue)[1]
           p == Head(queue)[2]
       IN browse_callback(event, p) \/ resolve_callback(event, p)
    /\ queue' = Tail(queue)
    /\ UNCHANGED <<known, up, enabled, ga>>

Next ==
    \/ IconInit \/ Toggle \/ Fail \/ Recover \/ Iterate
    \/ \E p \in Places : Announce(p) \/ Withdraw(p) \/ Answer(p)

Spec == Init /\ [][Next]_vars

-----------------------------------------------------------------------------

\* With every message read and every resolver answered, the table has only services that are
\* there, and lacks one only after it failed to be resolved or left one of its interfaces.
TableTrue ==
    Browsing /\ queue = <<>> /\ resolvers = NoResolver =>
        discovered \subseteq There /\ There \ discovered \subseteq missed

\* A discovery that is turned off shows nothing, and holds no connection to the daemon.
OffShowsNothing == ~ga.started => discovered = {} /\ ga = Off /\ resolvers = NoResolver
=============================================================================
