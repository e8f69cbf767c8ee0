-------------------------- MODULE MasterThreadExec --------------------------
(***************************************************************************)
(* src/remmina_masterthread_exec.c: a worker thread asks the GTK main      *)
(* thread to run a function and waits for it.  The request is a structure  *)
(* d allocated by the caller; it holds the mutex pt_mutex, the condition   *)
(* pt_cond and the flags cancelled and complete.  The main thread reaches  *)
(* d through an idle source.  d is freed by the caller when the call       *)
(* returns, or by the idle callback when the caller was cancelled first.   *)
(*                                                                         *)
(* A thread has one call under way at most, so d is identified by its      *)
(* thread.  Functions that run a nested main loop (the "resume" dialog of  *)
(* the SFTP client) let the main thread dispatch other callbacks, and      *)
(* cancel other threads, before they return: stack holds the callbacks     *)
(* that are under way, the innermost first.                                *)
(***************************************************************************)
EXTENDS Naturals, Sequences, TLAPS

CONSTANTS
    Threads,        \* worker threads
    Cancellable,    \* those some code of the main thread ends by pthread_cancel
    Async,          \* those that run with CANCEL_ASYNC
    Nesting,        \* those whose function runs a nested main loop
    NoThread        \* no thread

\* The SFTP task thread is the only one whose function opens a dialog, and it
\* is stopped by a flag, never by pthread_cancel.
ASSUME ThreadAssumption ==
    /\ Cancellable \subseteq Threads
    /\ Async \subseteq Cancellable
    /\ Nesting \subseteq Threads \ Cancellable
    /\ NoThread \notin Threads

VARIABLES
    pc,             \* pc[t]: where the worker is in its call
    mem,            \* mem[t]: allocations of d minus its frees
    cancelled,      \* d->cancelled
    complete,       \* d->complete
    result,         \* TRUE when d->func has been executed (d->p.*.retval is set)
    owner,          \* who holds d->pt_mutex
    ctxlock,        \* the thread that holds the lock of GLib's main context
    idleq,          \* the idle sources, oldest first
    frame,          \* frame[t]: progress of the callback for the d of t
    stack,          \* callbacks under way in the main thread, innermost first
    cancelreq,      \* pthread_cancel was called for the thread
    joining         \* the thread the main thread waits for in pthread_join

vars == <<pc, mem, cancelled, complete, result, owner, ctxlock, idleq,
          frame, stack, cancelreq, joining>>

WorkerStates == {"outside", "malloced", "pushed", "attaching", "attached",
                 "check", "waiting", "waking", "popped", "exited"}

\* The states between pthread_cleanup_push and pthread_cleanup_pop.
Handled == {"pushed", "attaching", "attached", "check", "waiting", "waking"}

TypeOK ==
    /\ pc \in [Threads -> WorkerStates]
    /\ mem \in [Threads -> 0 .. 1]
    /\ cancelled \in [Threads -> BOOLEAN]
    /\ complete \in [Threads -> BOOLEAN]
    /\ result \in [Threads -> BOOLEAN]
    /\ owner \in [Threads -> {"none", "worker", "main"}]
    /\ ctxlock \in Threads \cup {NoThread}
    /\ idleq \in Seq(Threads)
    /\ frame \in [Threads -> {"none", "run", "lock", "unlock"}]
    /\ stack \in Seq(Threads)
    /\ cancelreq \in [Threads -> BOOLEAN]
    /\ joining \in Threads \cup {NoThread}

Init ==
    /\ pc = [t \in Threads |-> "outside"]
    /\ mem = [t \in Threads |-> 0]
    /\ cancelled = [t \in Threads |-> FALSE]
    /\ complete = [t \in Threads |-> FALSE]
    /\ result = [t \in Threads |-> FALSE]
    /\ owner = [t \in Threads |-> "none"]
    /\ ctxlock = NoThread
    /\ idleq = <<>>
    /\ frame = [t \in Threads |-> "none"]
    /\ stack = <<>>
    /\ cancelreq = [t \in Threads |-> FALSE]
    /\ joining = NoThread

-----------------------------------------------------------------------------
(* The caller.                                                             *)

\* d = g_malloc(sizeof(RemminaMTExecData)) in the caller of exec_and_wait; the
\* flags hold whatever the memory held.
Malloc(t) ==
    /\ pc[t] = "outside"
    /\ pc' = [pc EXCEPT ![t] = "malloced"]
    /\ mem' = [mem EXCEPT ![t] = @ + 1]
    /\ \E b, c \in BOOLEAN :
          /\ cancelled' = [cancelled EXCEPT ![t] = b]
          /\ complete' = [complete EXCEPT ![t] = c]
    /\ result' = [result EXCEPT ![t] = FALSE]
    /\ UNCHANGED <<owner, ctxlock, idleq, frame, stack,
                   cancelreq, joining>>

\* Mutant: the flags are not cleared.
Setup_NoReset(t) ==
    /\ pc[t] = "malloced"
    /\ pc' = [pc EXCEPT ![t] = "pushed"]
    /\ owner' = [owner EXCEPT ![t] = "none"]
    /\ UNCHANGED <<mem, cancelled, complete, result, ctxlock, idleq, frame, stack,
                   cancelreq, joining>>

\* The flags are cleared, the cleanup handler is pushed, the mutex is created.
Setup(t) ==
    /\ pc[t] = "malloced"
    /\ pc' = [pc EXCEPT ![t] = "pushed"]
    /\ cancelled' = [cancelled EXCEPT ![t] = FALSE]
    /\ complete' = [complete EXCEPT ![t] = FALSE]
    /\ owner' = [owner EXCEPT ![t] = "none"]
    /\ UNCHANGED <<mem, result, ctxlock, idleq, frame, stack, cancelreq, joining>>

\* gdk_threads_add_idle takes the lock of the main context ...
AttachLock(t) ==
    /\ pc[t] = "pushed"
    /\ ctxlock = NoThread
    /\ pc' = [pc EXCEPT ![t] = "attaching"]
    /\ ctxlock' = t
    /\ UNCHANGED <<mem, cancelled, complete, result, owner, idleq, frame, stack,
                   cancelreq, joining>>

\* ... appends the source and releases the lock.
Attach(t) ==
    /\ pc[t] = "attaching"
    /\ pc' = [pc EXCEPT ![t] = "attached"]
    /\ ctxlock' = NoThread
    /\ idleq' = Append(idleq, t)
    /\ UNCHANGED <<mem, cancelled, complete, result, owner, frame, stack,
                   cancelreq, joining>>

\* pthread_mutex_lock before the loop, and the one pthread_cond_wait does
\* before it returns.
Lock(t) ==
    /\ pc[t] \in {"attached", "waking"}
    /\ owner[t] = "none"
    /\ pc' = [pc EXCEPT ![t] = "check"]
    /\ owner' = [owner EXCEPT ![t] = "worker"]
    /\ UNCHANGED <<mem, cancelled, complete, result, ctxlock, idleq, frame, stack,
                   cancelreq, joining>>

CondWait(t) ==
    /\ pc[t] = "check"
    /\ ~complete[t]
    /\ pc' = [pc EXCEPT ![t] = "waiting"]
    /\ owner' = [owner EXCEPT ![t] = "none"]
    /\ UNCHANGED <<mem, cancelled, complete, result, ctxlock, idleq, frame, stack,
                   cancelreq, joining>>

\* pthread_cond_wait may return with no signal.
SpuriousWakeup(t) ==
    /\ pc[t] = "waiting"
    /\ pc' = [pc EXCEPT ![t] = "waking"]
    /\ UNCHANGED <<mem, cancelled, complete, result, owner, ctxlock, idleq, frame,
                   stack, cancelreq, joining>>

\* Mutants: "if" for "while" around pthread_cond_wait; d freed here as well.
Leave_If(t) ==
    /\ pc[t] = "check"
    /\ pc' = [pc EXCEPT ![t] = "popped"]
    /\ owner' = [owner EXCEPT ![t] = "none"]
    /\ UNCHANGED <<mem, cancelled, complete, result, ctxlock, idleq, frame, stack,
                   cancelreq, joining>>

Leave_Frees(t) == pc[t] = "check" /\ complete[t]
    /\ pc' = [pc EXCEPT ![t] = "popped"]
    /\ mem' = [mem EXCEPT ![t] = @ - 1]
    /\ owner' = [owner EXCEPT ![t] = "none"]
    /\ UNCHANGED <<cancelled, complete, result, ctxlock, idleq, frame, stack,
                   cancelreq, joining>>

\* The loop is left: pthread_cleanup_pop(0), pthread_mutex_destroy,
\* pthread_cond_destroy.  The mutex is destroyed while it is held.
Leave(t) ==
    /\ pc[t] = "check"
    /\ complete[t]
    /\ pc' = [pc EXCEPT ![t] = "popped"]
    /\ owner' = [owner EXCEPT ![t] = "none"]
    /\ UNCHANGED <<mem, cancelled, complete, result, ctxlock, idleq, frame, stack,
                   cancelreq, joining>>

\* The caller reads the return value from d and frees d.
Free(t) ==
    /\ pc[t] = "popped"
    /\ pc' = [pc EXCEPT ![t] = "outside"]
    /\ mem' = [mem EXCEPT ![t] = @ - 1]
    /\ UNCHANGED <<cancelled, complete, result, owner, ctxlock, idleq, frame, stack,
                   cancelreq, joining>>

-----------------------------------------------------------------------------
(* Cancellation.                                                           *)

\* remmina_masterthread_exec_cleanup_handler: runs when the thread is
\* cancelled between the push and the pop.
cleanup_handler(t) ==
    cancelled' = IF pc[t] \in Handled THEN [cancelled EXCEPT ![t] = TRUE]
                                      ELSE cancelled

\* Cancellation takes effect.  With deferred cancellation that is in
\* pthread_cond_wait, which takes pt_mutex again before the handler runs and
\* never releases it, or in the thread's own code.  With CANCEL_ASYNC it is
\* anywhere, whatever lock the thread holds.
Die(t) ==
    /\ cancelreq[t]
    /\ \/ /\ pc[t] = "outside"
          /\ owner' = owner
       \/ /\ pc[t] \in {"waiting", "waking"}
          /\ owner[t] = "none"
          /\ owner' = [owner EXCEPT ![t] = "worker"]
       \/ /\ t \in Async
          /\ pc[t] \in {"malloced", "pushed", "attaching", "attached", "check", "popped"}
          /\ owner' = owner
    /\ cleanup_handler(t)
    /\ pc' = [pc EXCEPT ![t] = "exited"]
    /\ UNCHANGED <<mem, complete, result, ctxlock, idleq, frame, stack, cancelreq,
                   joining>>

\* The main thread runs its event loop, the outermost one or the one that the
\* innermost function has started.
InLoop ==
    /\ joining = NoThread
    /\ ctxlock = NoThread
    /\ stack # <<>> => Head(stack) \in Nesting /\ frame[Head(stack)] = "run"

\* pthread_cancel followed by pthread_join, when a connection is closed.
CancelThread(t) ==
    /\ InLoop
    /\ t \in Cancellable
    /\ ~cancelreq[t]
    /\ cancelreq' = [cancelreq EXCEPT ![t] = TRUE]
    /\ joining' = t
    /\ UNCHANGED <<pc, mem, cancelled, complete, result, owner, ctxlock, idleq,
                   frame, stack>>

Joined ==
    /\ joining # NoThread
    /\ pc[joining] = "exited"
    /\ joining' = NoThread
    /\ UNCHANGED <<pc, mem, cancelled, complete, result, owner, ctxlock, idleq,
                   frame, stack, cancelreq>>

-----------------------------------------------------------------------------
(* remmina_masterthread_exec_callback, in the main thread.                 *)

\* The caller was cancelled before the callback: the callback frees d.
DispatchCancelled ==
    /\ InLoop
    /\ idleq # <<>>
    /\ LET t == Head(idleq) IN
          /\ cancelled[t]
          /\ mem' = [mem EXCEPT ![t] = @ - 1]
    /\ idleq' = Tail(idleq)
    /\ UNCHANGED <<pc, cancelled, complete, result, owner, ctxlock, frame, stack,
                   cancelreq, joining>>

\* Mutant: the callback does not look at d->cancelled.
Dispatch_NoCheck ==
    /\ InLoop
    /\ idleq # <<>>
    /\ frame' = [frame EXCEPT ![Head(idleq)] = "run"]
    /\ stack' = <<Head(idleq)>> \o stack
    /\ idleq' = Tail(idleq)
    /\ UNCHANGED <<pc, mem, cancelled, complete, result, owner, ctxlock, cancelreq,
                   joining>>

Dispatch ==
    /\ InLoop
    /\ idleq # <<>>
    /\ LET t == Head(idleq) IN
          /\ ~cancelled[t]
          /\ frame' = [frame EXCEPT ![t] = "run"]
          /\ stack' = <<t>> \o stack
    /\ idleq' = Tail(idleq)
    /\ UNCHANGED <<pc, mem, cancelled, complete, result, owner, ctxlock, cancelreq,
                   joining>>

\* d->func has run; its return value is in d.
FuncDone(t) ==
    /\ joining = NoThread
    /\ stack # <<>> /\ Head(stack) = t
    /\ frame[t] = "run"
    /\ result' = [result EXCEPT ![t] = TRUE]
    /\ frame' = [frame EXCEPT ![t] = "lock"]
    /\ UNCHANGED <<pc, mem, cancelled, complete, owner, ctxlock, idleq, stack,
                   cancelreq, joining>>

\* Mutants: completion announced before the function has run; no signal.
Complete_TooEarly ==
    /\ stack # <<>>
    /\ LET t == Head(stack) IN
          /\ frame[t] \in {"run", "lock"}
          /\ owner[t] = "none"
          /\ owner' = [owner EXCEPT ![t] = "main"]
          /\ complete' = [complete EXCEPT ![t] = TRUE]
          /\ pc' = IF pc[t] = "waiting" THEN [pc EXCEPT ![t] = "waking"] ELSE pc
          /\ frame' = [frame EXCEPT ![t] = "unlock"]
    /\ UNCHANGED <<mem, cancelled, result, ctxlock, idleq, stack, cancelreq, joining>>

Complete_NoSignal ==
    /\ stack # <<>>
    /\ LET t == Head(stack) IN
          /\ frame[t] = "lock"
          /\ owner[t] = "none"
          /\ owner' = [owner EXCEPT ![t] = "main"]
          /\ complete' = [complete EXCEPT ![t] = TRUE]
          /\ frame' = [frame EXCEPT ![t] = "unlock"]
    /\ UNCHANGED <<pc, mem, cancelled, result, ctxlock, idleq, stack, cancelreq,
                   joining>>

\* pthread_mutex_lock, d->complete = TRUE, pthread_cond_signal.
Complete ==
    /\ stack # <<>>
    /\ LET t == Head(stack) IN
          /\ frame[t] = "lock"
          /\ owner[t] = "none"
          /\ owner' = [owner EXCEPT ![t] = "main"]
          /\ complete' = [complete EXCEPT ![t] = TRUE]
          /\ pc' = IF pc[t] = "waiting" THEN [pc EXCEPT ![t] = "waking"] ELSE pc
          /\ frame' = [frame EXCEPT ![t] = "unlock"]
    /\ UNCHANGED <<mem, cancelled, result, ctxlock, idleq, stack, cancelreq, joining>>

\* pthread_mutex_unlock; the callback is over.
Unlock ==
    /\ stack # <<>>
    /\ LET t == Head(stack) IN
          /\ frame[t] = "unlock"
          /\ owner' = [owner EXCEPT ![t] = "none"]
          /\ frame' = [frame EXCEPT ![t] = "none"]
    /\ stack' = Tail(stack)
    /\ UNCHANGED <<pc, mem, cancelled, complete, result, ctxlock, idleq, cancelreq,
                   joining>>

Worker(t) ==
    Malloc(t) \/ Setup(t) \/ AttachLock(t) \/ Attach(t) \/ Lock(t) \/ CondWait(t)
    \/ SpuriousWakeup(t) \/ Leave(t) \/ Free(t) \/ Die(t)

MainThread ==
    DispatchCancelled \/ Dispatch \/ Complete \/ Unlock \/ Joined
    \/ \E t \in Threads : FuncDone(t) \/ CancelThread(t)

Next == MainThread \/ \E t \in Threads : Worker(t)

\* The scheduler runs every thread and a mutex is not refused for ever to a
\* thread that asks again and again; a dialog is answered in the end (FuncDone);
\* nothing obliges a thread to make a call or anybody to cancel it, and a
\* spurious wakeup need never happen.
Fairness ==
    /\ WF_vars(DispatchCancelled \/ Dispatch)
    /\ SF_vars(Complete)
    /\ WF_vars(Unlock)
    /\ WF_vars(Joined)
    /\ \A t \in Threads :
          /\ WF_vars(Setup(t) \/ Attach(t) \/ CondWait(t) \/ Leave(t) \/ Free(t))
          /\ SF_vars(FuncDone(t))
          /\ SF_vars(AttachLock(t))
          /\ SF_vars(Lock(t))
          /\ SF_vars(Die(t))

Spec == Init /\ [][Next]_vars

FairSpec == Spec /\ Fairness

-----------------------------------------------------------------------------
(* Properties.                                                             *)

\* The idle queue and the callbacks under way never refer to memory that was
\* freed: neither the caller's g_free(d) nor the callback's can come first.
NoDangling ==
    /\ \A i \in 1 .. Len(idleq) : mem[idleq[i]] = 1
    /\ \A t \in Threads : frame[t] # "none" => mem[t] = 1

\* A caller that has left the loop finds its function executed, and nothing in
\* the main thread will touch d any more (it is about to free it).
ReturnIsLast ==
    \A t \in Threads : pc[t] = "popped" =>
        /\ result[t]
        /\ frame[t] = "none"
        /\ \A i \in 1 .. Len(idleq) : idleq[i] # t

\* The main thread never waits for a pt_mutex that a cancelled thread took with
\* it (the cleanup handler does not release it), which would freeze the user
\* interface for good.
MainNeverStuck ==
    \A t \in Threads : frame[t] # "none" => pc[t] # "exited"

\* A call ends, by its return or by the cancellation of its thread, unless a
\* thread cancelled at any point (CANCEL_ASYNC) took the lock of GLib's main
\* context with it: the main loop is dead then.
CallReturns ==
    \A t \in Threads :
        pc[t] = "malloced" ~>
            \/ pc[t] \in {"outside", "exited"}
            \/ ctxlock # NoThread /\ pc[ctxlock] = "exited"

-----------------------------------------------------------------------------
(* The inductive invariant.                                                *)

\* The states in which the main thread may refer to d.
Reachable == {"attached", "check", "waiting", "waking"}

\* A queued request is queued once, its function has not run, its memory is
\* there, and cancelled tells exactly whether its thread is dead.
QueueInv ==
    /\ \A i, j \in 1 .. Len(idleq) : idleq[i] = idleq[j] => i = j
    /\ \A i \in 1 .. Len(idleq) :
          /\ mem[idleq[i]] = 1
          /\ frame[idleq[i]] = "none"
          /\ ~result[idleq[i]]
          /\ ~complete[idleq[i]]
          /\ pc[idleq[i]] \in Reachable \cup {"exited"}
          /\ cancelled[idleq[i]] <=> pc[idleq[i]] = "exited"

\* The thread of a callback under way is alive and not about to be cancelled:
\* only the innermost callback may be one that runs no nested loop.
FrameInv ==
    \A t \in Threads : frame[t] # "none" =>
        /\ mem[t] = 1
        /\ pc[t] \in Reachable
        /\ ~cancelreq[t]
        /\ result[t] <=> frame[t] # "run"
        /\ complete[t] <=> frame[t] = "unlock"
        /\ frame[t] = "unlock" => owner[t] = "main"
        /\ t \in Nesting \/ (stack # <<>> /\ t = Head(stack))

CallInv ==
    \A t \in Threads :
        /\ pc[t] = "outside" => mem[t] = 0
        /\ pc[t] \notin {"outside", "exited"} => mem[t] = 1
        /\ pc[t] = "malloced" => ~result[t]
        /\ pc[t] \in {"pushed", "attaching"} => ~result[t] /\ ~complete[t]
        /\ pc[t] \in Handled => ~cancelled[t]
        /\ pc[t] \in Reachable => (complete[t] => result[t])
        /\ pc[t] = "check" => owner[t] = "worker"
        /\ pc[t] = "popped" => result[t] /\ complete[t]

CancelInv ==
    \A t \in Threads : cancelreq[t] =>
        /\ t \in Cancellable
        /\ pc[t] = "exited" \/ joining = t

IInv == TypeOK /\ QueueInv /\ FrameInv /\ CallInv /\ CancelInv

-----------------------------------------------------------------------------
\* The call as the abstract specification sees it.
call == [t \in Threads |->
            IF pc[t] = "outside" THEN "idle"
            ELSE IF pc[t] = "exited" THEN "dead"
            ELSE IF result[t] THEN "executed" ELSE "requested"]

Abstract == INSTANCE MainCall

\* The rendezvous implements the abstract call.
ImplementsMainCall == Abstract!Spec

-----------------------------------------------------------------------------
(* Proofs: the invariant of the rendezvous between worker threads and the  *)
(* main thread, its consequences, and the refinement of MainCall, for any  *)
(* set of threads and any choice of those that are cancelled.              *)

\* The invariant holds before any call.
LEMMA InitInv == Init => IInv
  BY ThreadAssumption
  DEF Init, IInv, TypeOK, QueueInv, FrameInv, CallInv, CancelInv, WorkerStates,
      Handled, Reachable

\* Every step of a worker or of the main thread preserves the invariant.
LEMMA StepInv == IInv /\ [Next]_vars => IInv'
<1> SUFFICES ASSUME IInv, [Next]_vars PROVE IInv'
  OBVIOUS
<1> USE DEF IInv
<1>1. ASSUME NEW t \in Threads, Malloc(t) PROVE IInv'
  <2>1. TypeOK'
    <3>1. mem[t] + 1 \in 0 .. 1
      BY <1>1 DEF CallInv, Malloc
    <3> QED BY <1>1, <3>1 DEF TypeOK, Malloc, WorkerStates
  <2>2. QueueInv'
    BY <1>1
    DEF QueueInv, Malloc, Reachable
  <2>3. FrameInv'
    BY <1>1
    DEF FrameInv, Malloc, Reachable
  <2>4. CallInv'
    BY <1>1
    DEF TypeOK, CallInv, Malloc, Handled, Reachable
  <2>5. CancelInv'
    BY <1>1
    DEF CancelInv, Malloc
  <2> QED BY <2>1, <2>2, <2>3, <2>4, <2>5
<1>2. ASSUME NEW t \in Threads, Setup(t) PROVE IInv'
  <2>1. TypeOK'
    BY <1>2
    DEF TypeOK, Setup, WorkerStates
  <2>2. QueueInv'
    BY <1>2
    DEF QueueInv, Setup, Reachable
  <2>3. FrameInv'
    BY <1>2
    DEF FrameInv, Setup, Reachable
  <2>4. CallInv'
    BY <1>2
    DEF TypeOK, CallInv, Setup
  <2>5. CancelInv'
    BY <1>2
    DEF CancelInv, Setup
  <2> QED BY <2>1, <2>2, <2>3, <2>4, <2>5
<1>3. ASSUME NEW t \in Threads, AttachLock(t) PROVE IInv'
  <2>1. TypeOK'
    BY <1>3
    DEF TypeOK, AttachLock, WorkerStates
  <2>2. QueueInv'
    BY <1>3
    DEF QueueInv, AttachLock, Reachable
  <2>3. FrameInv'
    BY <1>3
    DEF FrameInv, AttachLock, Reachable
  <2>4. CallInv'
    BY <1>3
    DEF CallInv, AttachLock, Handled
  <2>5. CancelInv'
    BY <1>3
    DEF CancelInv, AttachLock
  <2> QED BY <2>1, <2>2, <2>3, <2>4, <2>5
<1>4. ASSUME NEW t \in Threads, Attach(t) PROVE IInv'
  <2>1. TypeOK'
    BY <1>4
    DEF TypeOK, Attach, WorkerStates
  <2>2. QueueInv'
    <3>1. /\ Len(idleq') = Len(idleq) + 1
          /\ Len(idleq) \in Nat
          /\ \A i \in 1 .. Len(idleq) : idleq'[i] = idleq[i]
          /\ idleq'[Len(idleq) + 1] = t
      BY <1>4 DEF TypeOK, Attach
    <3>2. \A i \in 1 .. Len(idleq) : idleq[i] # t /\ idleq[i] \in Threads
      <4> SUFFICES ASSUME NEW i \in 1 .. Len(idleq)
                   PROVE  idleq[i] # t /\ idleq[i] \in Threads
        OBVIOUS
      <4>1. idleq \in Seq(Threads)
        BY DEF TypeOK
      <4>2. idleq[i] \in Threads
        BY <4>1
      <4>3. pc[t] = "attaching"
        BY <1>4 DEF Attach
      <4>4. pc[idleq[i]] # "attaching"
        BY DEF QueueInv, Reachable
      <4> QED BY <4>2, <4>3, <4>4
    <3>3. /\ mem[t] = 1
          /\ frame[t] = "none"
          /\ ~result[t] /\ ~complete[t] /\ ~cancelled[t]
      BY <1>4 DEF TypeOK, Attach, CallInv, FrameInv, Reachable, Handled
    <3> QED BY <1>4, <3>1, <3>2, <3>3 DEF TypeOK, Attach, QueueInv, Reachable
  <2>3. FrameInv'
    BY <1>4
    DEF FrameInv, Attach, Reachable
  <2>4. CallInv'
    BY <1>4
    DEF CallInv, Attach, Handled
  <2>5. CancelInv'
    BY <1>4
    DEF CancelInv, Attach
  <2> QED BY <2>1, <2>2, <2>3, <2>4, <2>5
<1>5. ASSUME NEW t \in Threads, Lock(t) PROVE IInv'
  <2>1. TypeOK'
    BY <1>5
    DEF TypeOK, Lock, WorkerStates
  <2>2. QueueInv'
    BY <1>5
    DEF QueueInv, Lock, Reachable
  <2>3. FrameInv'
    BY <1>5
    DEF FrameInv, Lock, Reachable
  <2>4. CallInv'
    BY <1>5
    DEF TypeOK, CallInv, Lock, Handled, Reachable
  <2>5. CancelInv'
    BY <1>5
    DEF CancelInv, Lock
  <2> QED BY <2>1, <2>2, <2>3, <2>4, <2>5
<1>6. ASSUME NEW t \in Threads, CondWait(t) PROVE IInv'
  <2>1. TypeOK'
    BY <1>6
    DEF TypeOK, CondWait, WorkerStates
  <2>2. QueueInv'
    BY <1>6
    DEF QueueInv, CondWait, Reachable
  <2>3. FrameInv'
    BY <1>6
    DEF FrameInv, CondWait, Reachable
  <2>4. CallInv'
    BY <1>6
    DEF TypeOK, CallInv, CondWait, Handled
  <2>5. CancelInv'
    BY <1>6
    DEF CancelInv, CondWait
  <2> QED BY <2>1, <2>2, <2>3, <2>4, <2>5
<1>7. ASSUME NEW t \in Threads, SpuriousWakeup(t) PROVE IInv'
  <2>1. TypeOK'
    BY <1>7
    DEF TypeOK, SpuriousWakeup, WorkerStates
  <2>2. QueueInv'
    BY <1>7
    DEF QueueInv, SpuriousWakeup, Reachable
  <2>3. FrameInv'
    BY <1>7
    DEF FrameInv, SpuriousWakeup, Reachable
  <2>4. CallInv'
    BY <1>7
    DEF CallInv, SpuriousWakeup, Handled, Reachable
  <2>5. CancelInv'
    BY <1>7
    DEF CancelInv, SpuriousWakeup
  <2> QED BY <2>1, <2>2, <2>3, <2>4, <2>5
<1>8. ASSUME NEW t \in Threads, Leave(t) PROVE IInv'
  <2>1. TypeOK'
    BY <1>8
    DEF TypeOK, Leave, WorkerStates
  <2>2. QueueInv'
    BY <1>8
    DEF QueueInv, Leave
  <2>3. FrameInv'
    BY <1>8
    DEF FrameInv, CallInv, Leave
  <2>4. CallInv'
    BY <1>8
    DEF TypeOK, CallInv, Leave, Handled, Reachable
  <2>5. CancelInv'
    BY <1>8
    DEF CancelInv, Leave
  <2> QED BY <2>1, <2>2, <2>3, <2>4, <2>5
<1>9. ASSUME NEW t \in Threads, Free(t) PROVE IInv'
  <2>1. TypeOK'
    <3>1. mem[t] - 1 \in 0 .. 1
      BY <1>9 DEF CallInv, Free
    <3> QED BY <1>9, <3>1 DEF TypeOK, Free, WorkerStates
  <2>2. QueueInv'
    BY <1>9
    DEF QueueInv, Free, Reachable
  <2>3. FrameInv'
    BY <1>9
    DEF FrameInv, Free, Reachable
  <2>4. CallInv'
    BY <1>9
    DEF TypeOK, CallInv, Free, Handled
  <2>5. CancelInv'
    BY <1>9
    DEF CancelInv, Free
  <2> QED BY <2>1, <2>2, <2>3, <2>4, <2>5
<1>10. ASSUME NEW t \in Threads, Die(t) PROVE IInv'
  <2>1. TypeOK'
    BY <1>10
    DEF TypeOK, Die, cleanup_handler, WorkerStates
  <2>2. QueueInv'
    BY <1>10
    DEF TypeOK, QueueInv, Die, cleanup_handler, Handled, Reachable
  <2>3. FrameInv'
    BY <1>10
    DEF TypeOK, FrameInv, Die, cleanup_handler
  <2>4. CallInv'
    BY <1>10
    DEF TypeOK, CallInv, Die, cleanup_handler, Handled, Reachable
  <2>5. CancelInv'
    BY <1>10
    DEF CancelInv, Die, cleanup_handler
  <2> QED BY <2>1, <2>2, <2>3, <2>4, <2>5
<1>11. ASSUME NEW t \in Threads, CancelThread(t) PROVE IInv'
  <2>1. TypeOK'
    BY <1>11
    DEF TypeOK, CancelThread, InLoop
  <2>2. QueueInv'
    BY <1>11
    DEF QueueInv, CancelThread, InLoop
  <2>3. FrameInv'
    BY <1>11, ThreadAssumption
    DEF FrameInv, CancelThread, InLoop
  <2>4. CallInv'
    BY <1>11
    DEF CallInv, CancelThread, InLoop
  <2>5. CancelInv'
    BY <1>11, ThreadAssumption
    DEF CancelInv, CancelThread, InLoop
  <2> QED BY <2>1, <2>2, <2>3, <2>4, <2>5
<1>12. CASE Joined
  <2>1. TypeOK'
    BY <1>12
    DEF TypeOK, Joined
  <2>2. QueueInv'
    BY <1>12
    DEF QueueInv, Joined
  <2>3. FrameInv'
    BY <1>12
    DEF FrameInv, Joined
  <2>4. CallInv'
    BY <1>12
    DEF CallInv, Joined
  <2>5. CancelInv'
    BY <1>12
    DEF CancelInv, Joined
  <2> QED BY <2>1, <2>2, <2>3, <2>4, <2>5
<1>13. CASE DispatchCancelled
  <2>1. TypeOK'
    <3>1. Head(idleq) = idleq[1] /\ 1 \in 1 .. Len(idleq) /\ idleq[1] \in Threads
      BY <1>13 DEF TypeOK, DispatchCancelled
    <3>2. mem[Head(idleq)] - 1 \in 0 .. 1
      BY <3>1 DEF QueueInv
    <3>3. Tail(idleq) \in Seq(Threads)
      BY <1>13 DEF TypeOK, DispatchCancelled
    <3> QED BY <1>13, <3>2, <3>3 DEF TypeOK, DispatchCancelled
  <2>2. QueueInv'
    BY <1>13
    DEF QueueInv, DispatchCancelled, InLoop
  <2>3. FrameInv'
    BY <1>13
    DEF FrameInv, CallInv, DispatchCancelled, InLoop, Handled, Reachable
  <2>4. CallInv'
    BY <1>13
    DEF QueueInv, CallInv, DispatchCancelled, InLoop
  <2>5. CancelInv'
    BY <1>13
    DEF CancelInv, DispatchCancelled, InLoop
  <2> QED BY <2>1, <2>2, <2>3, <2>4, <2>5
<1>14. CASE Dispatch
  <2>1. TypeOK'
    BY <1>14
    DEF TypeOK, Dispatch, InLoop
  <2>2. QueueInv'
    BY <1>14
    DEF QueueInv, Dispatch, InLoop
  <2>3. FrameInv'
    BY <1>14, ThreadAssumption
    DEF QueueInv, FrameInv, CancelInv, Dispatch, InLoop
  <2>4. CallInv'
    BY <1>14
    DEF CallInv, Dispatch, InLoop
  <2>5. CancelInv'
    BY <1>14
    DEF CancelInv, Dispatch, InLoop
  <2> QED BY <2>1, <2>2, <2>3, <2>4, <2>5
<1>15. ASSUME NEW t \in Threads, FuncDone(t) PROVE IInv'
  <2>1. TypeOK'
    BY <1>15
    DEF TypeOK, FuncDone
  <2>2. QueueInv'
    BY <1>15
    DEF QueueInv, FuncDone
  <2>3. FrameInv'
    BY <1>15
    DEF TypeOK, FrameInv, FuncDone
  <2>4. CallInv'
    BY <1>15
    DEF FrameInv, CallInv, FuncDone, Reachable
  <2>5. CancelInv'
    BY <1>15
    DEF CancelInv, FuncDone
  <2> QED BY <2>1, <2>2, <2>3, <2>4, <2>5
<1>16. CASE Complete
  <2>1. TypeOK'
    BY <1>16
    DEF TypeOK, Complete, WorkerStates
  <2>2. QueueInv'
    BY <1>16
    DEF QueueInv, Complete
  <2>3. FrameInv'
    BY <1>16
    DEF TypeOK, FrameInv, Complete, Reachable
  <2>4. CallInv'
    BY <1>16
    DEF FrameInv, CallInv, Complete, Handled
  <2>5. CancelInv'
    BY <1>16
    DEF CancelInv, Complete
  <2> QED BY <2>1, <2>2, <2>3, <2>4, <2>5
<1>17. CASE Unlock
  <2>1. TypeOK'
    BY <1>17
    DEF TypeOK, Unlock
  <2>2. QueueInv'
    BY <1>17
    DEF QueueInv, Unlock
  <2>3. FrameInv'
    BY <1>17
    DEF TypeOK, FrameInv, Unlock
  <2>4. CallInv'
    BY <1>17
    DEF FrameInv, CallInv, Unlock
  <2>5. CancelInv'
    BY <1>17
    DEF CancelInv, Unlock
  <2> QED BY <2>1, <2>2, <2>3, <2>4, <2>5
<1>18. CASE UNCHANGED vars
  BY <1>18
  DEF TypeOK, QueueInv, FrameInv, CallInv, CancelInv, vars, WorkerStates,
      Reachable, Handled
<1> QED
  BY <1>1, <1>2, <1>3, <1>4, <1>5, <1>6, <1>7, <1>8, <1>9,
     <1>10, <1>11, <1>12, <1>13, <1>14, <1>15, <1>16, <1>17, <1>18
  DEF Next, MainThread, Worker

\* The inductive invariant holds in every reachable state.
THEOREM Invariance == Spec => []IInv
<1>1. Init => IInv
  BY InitInv
<1>2. IInv /\ [Next]_vars => IInv'
  BY StepInv
<1> QED
  BY <1>1, <1>2, PTL DEF Spec

\* Type correctness; in particular d is never freed twice nor allocated over.
THEOREM Typing == Spec => []TypeOK
<1>1. IInv => TypeOK
  BY DEF IInv
<1> QED
  BY <1>1, Invariance, PTL

\* The idle queue and the callbacks under way never refer to freed memory.
THEOREM MemorySafety == Spec => []NoDangling
<1>1. IInv => NoDangling
  BY DEF IInv, NoDangling, QueueInv, FrameInv
<1> QED
  BY <1>1, Invariance, PTL

\* A caller that leaves the wait finds its function executed and is the last to
\* know d.
THEOREM CallerIsLast == Spec => []ReturnIsLast
<1>1. IInv => ReturnIsLast
  <2> SUFFICES ASSUME IInv, NEW t \in Threads, pc[t] = "popped"
               PROVE  /\ result[t]
                      /\ frame[t] = "none"
                      /\ \A i \in 1 .. Len(idleq) : idleq[i] # t
    BY DEF ReturnIsLast
  <2>1. result[t]
    BY DEF IInv, CallInv
  <2>2. frame[t] = "none"
    BY DEF IInv, FrameInv, Reachable
  <2>3. \A i \in 1 .. Len(idleq) : idleq[i] # t
    BY DEF IInv, QueueInv, Reachable
  <2> QED
    BY <2>1, <2>2, <2>3
<1> QED
  BY <1>1, Invariance, PTL

\* The main thread never waits for a mutex that a dead thread holds.
THEOREM NeverStuck == Spec => []MainNeverStuck
<1>1. IInv => MainNeverStuck
  BY DEF IInv, MainNeverStuck, FrameInv, Reachable
<1> QED
  BY <1>1, Invariance, PTL

-----------------------------------------------------------------------------
(* Refinement.                                                             *)

\* The initial state is the one of the abstract call.
LEMMA InitRefines == Init => Abstract!Init
  BY DEF Init, call, Abstract!Init

\* A step that changes neither pc nor result leaves the abstract call alone.
LEMMA CallUnchanged == UNCHANGED <<pc, result>> => UNCHANGED call
  BY DEF call

\* Every step is a step of the abstract call, or leaves it as it is.
LEMMA StepRefines == IInv /\ [Next]_vars => [Abstract!Next]_call
<1> SUFFICES ASSUME IInv, [Next]_vars
             PROVE  Abstract!Next \/ UNCHANGED call
  OBVIOUS
<1> USE DEF IInv, TypeOK
<1>1. ASSUME NEW t \in Threads, Malloc(t) PROVE Abstract!Request(t)
  BY <1>1 DEF Malloc, call, Abstract!Request
<1>2. ASSUME NEW t \in Threads,
             Setup(t) \/ AttachLock(t) \/ Attach(t) \/ Lock(t) \/ CondWait(t)
             \/ SpuriousWakeup(t) \/ Leave(t)
      PROVE  UNCHANGED call
  BY <1>2 DEF Setup, AttachLock, Attach, Lock, CondWait, SpuriousWakeup, Leave, call
<1>3. ASSUME NEW t \in Threads, Free(t) PROVE Abstract!Return(t)
  BY <1>3 DEF Free, call, CallInv, Abstract!Return
<1>4. ASSUME NEW t \in Threads, Die(t) PROVE Abstract!Abandon(t)
  BY <1>4 DEF Die, call, Abstract!Abandon
<1>5. ASSUME NEW t \in Threads, FuncDone(t) PROVE Abstract!Execute(t)
  BY <1>5 DEF FuncDone, FrameInv, Reachable, call, Abstract!Execute
<1>6. CASE Complete
  <2> DEFINE h == Head(stack)
  <2>1. h \in Threads
    BY <1>6 DEF Complete
  <2>2. /\ result' = result
        /\ \/ pc[h] = "waiting" /\ pc' = [pc EXCEPT ![h] = "waking"]
           \/ pc' = pc
    BY <1>6 DEF Complete
  <2> QED
    BY <2>1, <2>2 DEF call
<1>7. ASSUME NEW t \in Threads, CancelThread(t) PROVE UNCHANGED call
  BY <1>7, CallUnchanged DEF CancelThread
<1>8. CASE Joined \/ DispatchCancelled \/ Dispatch \/ Unlock \/ UNCHANGED vars
  BY <1>8, CallUnchanged DEF Joined, DispatchCancelled, Dispatch, Unlock, vars
<1> QED
  BY <1>1, <1>2, <1>3, <1>4, <1>5, <1>6, <1>7, <1>8
  DEF Next, MainThread, Worker, Abstract!Next

\* The rendezvous implements the abstract call: the function runs once per call,
\* before the caller goes on, and never for a caller that was cancelled.
THEOREM Refinement == Spec => ImplementsMainCall
<1>1. Init => Abstract!Init
  BY InitRefines
<1>2. IInv /\ [Next]_vars => [Abstract!Next]_call
  BY StepRefines
<1> QED
  BY <1>1, <1>2, Invariance, PTL DEF Spec, ImplementsMainCall, Abstract!Spec

=============================================================================
