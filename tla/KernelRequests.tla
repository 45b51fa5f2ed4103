---------------------------- MODULE KernelRequests ----------------------------
(* Who calls the scheduler.  A thread that is about to wait announces itself *)
(* in num_kernel_requests before it takes the kernel lock; when it suspends   *)
(* it runs oooschedule only if nobody else is announced, and otherwise leaves *)
(* the work to the last one.  Methods have no coroutine: an Invoker thread    *)
(* runs a queue of them, and it leaves scheduling to the last running         *)
(* invoker as well.                                                           *)
(*                                                                            *)
(* Each kernel section is one step here: KernelLock.tla shows that only the   *)
(* owner of sched_mutex runs kernel code and that wake-ups are not lost.  The *)
(* announcement is a step of its own because it is made outside the lock.     *)
(* What oooschedule dispatches is any set of the processes that have a reason *)
(* to run.                                                                    *)
EXTENDS Integers, FiniteSets

CONSTANTS
    Thread,     \* SC_THREAD and SC_CTHREAD processes
    Method,     \* SC_METHOD processes
    Invoker,    \* the invoker threads
    InvokerOf,  \* method_to_invoker_map
    Root        \* the root thread

ASSUME KernelRequestsAssumption ==
    /\ IsFiniteSet(Thread) /\ IsFiniteSet(Method) /\ IsFiniteSet(Invoker)
    /\ InvokerOf \in [Method -> Invoker]
    /\ Root \notin Thread \cup Invoker
    /\ Thread \cap Invoker = {} /\ Thread \cap Method = {}

VARIABLES
    requests,           \* num_kernel_requests
    running,            \* m_curr_proc_queue
    runningInvokers,    \* running_invokers
    runningMethods,     \* running_methods
    queue,              \* method_queue of each invoker
    pending,            \* processes oooschedule may dispatch: ready, or notified
    pc,                 \* where each coroutine is
    owed                \* a suspension left its scheduling to somebody else

vars == <<requests, running, runningInvokers, runningMethods, queue, pending, pc, owed>>

Worker == Thread \cup Invoker
Coroutine == Worker \cup {Root}
Process == Thread \cup Method

TypeOK ==
    /\ requests \in Int
    /\ running \subseteq Process
    /\ runningInvokers \subseteq Invoker
    /\ runningMethods \in Nat
    /\ queue \in [Invoker -> SUBSET Method]
    /\ pending \subseteq Process
    /\ pc \in [Coroutine -> {"asleep", "user", "requested", "halted", "ended"}]
    /\ owed \in BOOLEAN

(* prepare_to_simulate made every process runnable that is not              *)
(* dont_initialize; sc_main is running.                                     *)
Init ==
    /\ requests = 0
    /\ running = {}
    /\ runningInvokers = {}
    /\ runningMethods = 0
    /\ queue = [i \in Invoker |-> {}]
    /\ pending \in SUBSET Process
    /\ pc = [c \in Coroutine |-> IF c = Root THEN "user" ELSE "asleep"]
    /\ owed = FALSE

-----------------------------------------------------------------------------
(* Faulty: a method is handed to an invoker that is running its queue.      *)
FitsBusy(p, rinv) == TRUE

(* A method whose invoker is busy counts as having a conflict.              *)
Fits(p, rinv) == p \in Method => InvokerOf[p] \notin rinv

(* Faulty: the scheduler leaves the root thread alone.                      *)
RootNever(run) == {}

(* At the end of oooschedule the root thread is resumed if nothing runs.    *)
RootIfIdle(run) == IF run = {} THEN {Root} ELSE {}

(* oooschedule called by coroutine c, which goes to place unless it was     *)
(* dispatched itself.  The record k is the scheduler's state at the call.   *)
(* Threads are signalled one by one; the invokers that were given methods   *)
(* are signalled after the dispatch loop.                                   *)
Schedule(c, place, k) ==
    \E d \in SUBSET {p \in k.ready : Fits(p, k.invokers)} :
        LET methods == d \cap Method
            invokers == {InvokerOf[m] : m \in methods}
            woken == (d \cap Thread) \cup invokers \cup RootIfIdle(k.running \cup d)
        IN  /\ running' = k.running \cup d
            /\ runningInvokers' = k.invokers \cup invokers
            /\ runningMethods' = k.methods + Cardinality(methods)
            /\ queue' = [i \in Invoker |-> k.queue[i] \cup {m \in methods : InvokerOf[m] = i}]
            /\ pending' = k.ready \ d
            /\ pc' = [x \in Coroutine |-> IF x \in woken THEN "user"
                                          ELSE IF x = c THEN place ELSE pc[x]]
            /\ owed' = FALSE

(* Nobody schedules: c goes to place and somebody else is trusted to do it. *)
Defer(c, place, k) ==
    /\ running' = k.running
    /\ runningInvokers' = k.invokers
    /\ runningMethods' = k.methods
    /\ queue' = k.queue
    /\ pending' = k.ready
    /\ pc' = [pc EXCEPT ![c] = place]
    /\ owed' = TRUE

(* The scheduler's state as it is.                                          *)
Here == [running |-> running, invokers |-> runningInvokers, methods |-> runningMethods,
         queue |-> queue, ready |-> pending]

(* The scheduler's state after thread t left the running queue; self is t   *)
(* again if it waits for a time, which only itself can end.                 *)
Without(t, self) ==
    [running |-> running \ {t}, invokers |-> runningInvokers, methods |-> runningMethods,
     queue |-> queue, ready |-> pending \cup self]

-----------------------------------------------------------------------------
(* sc_start: simulate() enters oooschedule with the root's coroutine.       *)
Start ==
    /\ pc[Root] = "user"
    /\ Schedule(Root, "asleep", Without(Root, {}))
    /\ UNCHANGED requests

(* A running process notifies an event somebody waits for.                  *)
Notify(c, p) ==
    /\ c \in Worker /\ pc[c] = "user"
    /\ p \notin running \cup pending
    /\ p \in Thread => pc[p] = "asleep"
    /\ pending' = pending \cup {p}
    /\ UNCHANGED <<requests, running, runningInvokers, runningMethods, queue, pc, owed>>

(* num_kernel_requests++ at the head of wait() and of the invoker's epilogue.*)
Request(c) ==
    /\ c \in Worker /\ pc[c] = "user"
    /\ pc' = [pc EXCEPT ![c] = "requested"]
    /\ requests' = requests + 1
    /\ UNCHANGED <<running, runningInvokers, runningMethods, queue, pending, owed>>

(* suspend_me                                                               *)
Suspend(t) ==
    /\ pc[t] = "requested"
    /\ requests' = requests - 1
    /\ \E self \in {{}, {t}} :
        IF requests = 1
        THEN Schedule(t, "asleep", Without(t, self))
        ELSE Defer(t, "asleep", Without(t, self))

(* wait_halt: suspend_me without an announcement, and nothing will ever     *)
(* wake t.                                                                  *)
Halt(t) ==
    /\ pc[t] = "user"
    /\ requests' = requests - 1
    /\ IF requests = 1
       THEN Schedule(t, "halted", Without(t, {}))
       ELSE Defer(t, "halted", Without(t, {}))

(* sc_thread_cor_fn after the body has returned.                            *)
End(t) ==
    /\ pc[t] = "user"
    /\ Schedule(t, "ended", Without(t, {}))
    /\ UNCHANGED requests

(* aux_boundary: t calls the scheduler in the middle of what it does, without *)
(* announcing itself and whoever else is announced, and goes on.            *)
Boundary(t) ==
    /\ pc[t] = "user"
    /\ Schedule(t, "user", Here)
    /\ UNCHANGED requests

(* The epilogue of method_invoker: every method of the queue leaves the     *)
(* running queue; again are those that asked for a time with next_trigger.  *)
AfterQueue(i, again) ==
    [running |-> running \ queue[i], invokers |-> runningInvokers \ {i},
     methods |-> runningMethods - Cardinality(queue[i]),
     queue |-> [queue EXCEPT ![i] = {}], ready |-> pending \cup again]

(* Faulty: an invoker that defers goes round its loop without waiting.      *)
SuspendInvokerRound(i) ==
    /\ pc[i] = "requested"
    /\ requests' = requests - 1
    /\ \E again \in SUBSET queue[i] :
        IF requests = 1 /\ runningInvokers \ {i} = {}
        THEN Schedule(i, "asleep", AfterQueue(i, again))
        ELSE Defer(i, "user", Here)

(* suspend_invoker: schedule if nobody is announced and no invoker runs.    *)
SuspendInvoker(i) ==
    /\ pc[i] = "requested"
    /\ requests' = requests - 1
    /\ \E again \in SUBSET queue[i] :
        IF requests = 1 /\ runningInvokers \ {i} = {}
        THEN Schedule(i, "asleep", AfterQueue(i, again))
        ELSE Defer(i, "asleep", AfterQueue(i, again))

-----------------------------------------------------------------------------
Next ==
    \/ Start
    \/ \E c \in Worker, p \in Process : Notify(c, p)
    \/ \E c \in Worker : Request(c)
    \/ \E t \in Thread : Suspend(t) \/ End(t) \/ Boundary(t)
    \/ \E i \in Invoker : SuspendInvoker(i)

(* A program with SC_CTHREADs that call halt().                             *)
HaltNext == Next \/ \E t \in Thread : Halt(t)

(* The mutexes are fair to the threads that wait for them, and processes    *)
(* are written to reach their next wait (SystemC has no preemption, a       *)
(* process that never waits stops any simulator).                           *)
Fairness ==
    /\ \A c \in Worker : WF_vars(Request(c))
    /\ \A t \in Thread : WF_vars(Suspend(t))
    /\ \A i \in Invoker : WF_vars(SuspendInvoker(i))

Spec == Init /\ [][Next]_vars
HaltSpec == Init /\ [][HaltNext]_vars
FairSpec == Spec /\ Fairness

-----------------------------------------------------------------------------
(* num_kernel_requests counts the coroutines between their announcement and *)
(* their suspension, whatever the interleaving of its two critical sections *)
(* with the kernel lock (sc_thread_process::wait, suspend_me).              *)
RequestsCounted ==
    requests = Cardinality({c \in Worker : pc[c] = "requested"})

(* Deferring is safe: if the last suspension left the scheduling to others, *)
(* somebody who will do it is announced or is an invoker running its queue. *)
DeferredHasHeir ==
    owed => requests > 0 \/ runningInvokers # {}

(* The simulation cannot freeze: when sc_main waits in simulate(), some     *)
(* process or invoker is awake and will enter the kernel again              *)
(* ("when no running or ready thread, resume the sc_main").                 *)
NoFreeze ==
    pc[Root] = "asleep" => \E c \in Worker : pc[c] \in {"user", "requested"}

(* The running queue says which coroutines are awake: a thread is in it     *)
(* exactly when its coroutine is, a method exactly when it is in the queue  *)
(* of its invoker, an invoker is awake exactly when it is in                *)
(* running_invokers, and running_methods counts the methods in the queue -  *)
(* the bound on the processes dispatched is computed from these.            *)
RunningIsAwake ==
    /\ \A t \in Thread : t \in running <=> pc[t] \in {"user", "requested"}
    /\ \A m \in Method : m \in running <=> m \in queue[InvokerOf[m]]
    /\ \A i \in Invoker : i \in runningInvokers <=> pc[i] \in {"user", "requested"}
    /\ runningMethods = Cardinality(running \cap Method)

(* While sc_main runs nothing else does (RootAlone of KernelLock.tla at the *)
(* level of the queues).                                                    *)
RootIdle == pc[Root] = "user" => running = {} /\ runningInvokers = {}

(* method_invoker walks its list without a lock: no scheduler changes the   *)
(* queue of an invoker that is awake, only the invoker's own epilogue does. *)
QueueStable ==
    [][\A i \in Invoker : pc[i] \in {"user", "requested"} =>
          queue'[i] = queue[i] \/ (pc[i] = "requested" /\ requests' < requests)]_vars

(* A deferred scheduling is made up for.                                    *)
DeferredIsDone == owed ~> ~owed

(* The suspension protocol keeps the simulation going: the announcements    *)
(* are counted, whoever defers has an heir, sc_main does not wait for       *)
(* nobody, and the queues agree with who is awake (suspend_me,              *)
(* suspend_invoker, oooschedule).                                           *)
RequestsSafety ==
    /\ TypeOK
    /\ RequestsCounted
    /\ DeferredHasHeir
    /\ NoFreeze
    /\ RunningIsAwake
    /\ RootIdle
=============================================================================
