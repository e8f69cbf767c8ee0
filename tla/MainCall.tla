------------------------------ MODULE MainCall ------------------------------
(***************************************************************************)
(* What remmina_masterthread_exec_and_wait promises to a worker thread:    *)
(* the function it asks for is executed by the GTK main thread once, while *)
(* the caller is still there, and the caller goes on only after that.  A   *)
(* caller may be cancelled at any moment; nothing is executed for it       *)
(* afterwards.                                                             *)
(***************************************************************************)
CONSTANT Threads

VARIABLE call       \* call[t]: how far the call of thread t is

Init == call = [t \in Threads |-> "idle"]

Request(t) ==
    /\ call[t] = "idle"
    /\ call' = [call EXCEPT ![t] = "requested"]

Execute(t) ==
    /\ call[t] = "requested"
    /\ call' = [call EXCEPT ![t] = "executed"]

Return(t) ==
    /\ call[t] = "executed"
    /\ call' = [call EXCEPT ![t] = "idle"]

\* The thread is cancelled, with or without a call under way.
Abandon(t) ==
    /\ call[t] # "dead"
    /\ call' = [call EXCEPT ![t] = "dead"]

Next == \E t \in Threads : Request(t) \/ Execute(t) \/ Return(t) \/ Abandon(t)

Spec == Init /\ [][Next]_call
=============================================================================
