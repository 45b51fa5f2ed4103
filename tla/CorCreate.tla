----------------------------- MODULE CorCreate ------------------------------
(***************************************************************************)
(* The creation of coroutines by sc_cor_pkg_pthread.  pthread_create starts *)
(* the new thread at once, but a simulation process must not run before the *)
(* scheduler calls go for it.  create() therefore locks create_mutex, starts*)
(* the thread and waits on create_condition; the new thread signals it,     *)
(* takes sched_mutex before it gives create_mutex up, and waits on a        *)
(* condition of its own that go() signals under sched_mutex.                *)
(*                                                                          *)
(* sc_main's thread creates the coroutines of the elaborated processes      *)
(* before it takes the kernel lock.  sc_spawn, called by a process while the*)
(* simulation runs, creates one inside a scope of the kernel lock.          *)
(***************************************************************************)
EXTENDS FiniteSets

CONSTANTS
    Root,       \* the thread of sc_main
    Child,      \* the coroutines to be created
    By,         \* who creates each of them
    Spurious,   \* may pthread_cond_wait return without a signal (POSIX)
    Free        \* value of a mutex nobody owns

Thread == Child \cup {Root}

(* What is assumed of the constants; the model-checking modules assume it.  *)
CorCreateAssumption ==
    /\ Root \notin Child
    /\ Free \notin Thread
    /\ By \in [Child -> Thread]
    /\ Spurious \in BOOLEAN

VARIABLES
    create,     \* owner of create_mutex
    sched,      \* owner of sched_mutex
    target,     \* the coroutine each thread is creating, or itself
    created,    \* the coroutines whose create() has returned
    dispatched, \* those for which go() has been called
    pc          \* where each thread is

vars == <<create, sched, target, created, dispatched, pc>>

(* Before go: none (no POSIX thread yet), new, born (has create_mutex),     *)
(* signalled, holding (both mutexes), leaving (sched_mutex only), dormant.  *)
Prestart == {"none", "new", "born", "signalled", "holding", "leaving"}

(* In create(): locked, started, create_wait, create_woken, returning.      *)
Creating == {"locked", "started", "create_wait", "create_woken", "returning"}

TypeOK ==
    /\ create \in Thread \cup {Free}
    /\ sched \in Thread \cup {Free}
    /\ target \in [Thread -> Thread]
    /\ created \subseteq Child
    /\ dispatched \subseteq Child
    /\ pc \in [Thread -> Prestart \cup Creating
                          \cup {"dormant", "woken", "user", "kernel", "end"}]

Init ==
    /\ create = Free
    /\ sched = Free
    /\ target = [t \in Thread |-> t]
    /\ created = {}
    /\ dispatched = {}
    /\ pc = [t \in Thread |-> IF t = Root THEN "user" ELSE "none"]

Goto(t, place) == pc' = [pc EXCEPT ![t] = place]

-----------------------------------------------------------------------------
(* sc_cor_pkg_pthread::create                                               *)

(* Elaborated processes are created by sc_main without the kernel lock, one *)
(* after the other; spawned ones inside the kernel lock of sc_spawn.        *)
CreateLock(t, c) ==
    /\ By[c] = t
    /\ pc[c] = "none"
    /\ pc[t] = IF t = Root THEN "user" ELSE "kernel"
    /\ create = Free
    /\ create' = t
    /\ target' = [target EXCEPT ![t] = c]
    /\ Goto(t, "locked")
    /\ UNCHANGED <<sched, created, dispatched>>

PthreadCreate(t) ==
    /\ pc[t] = "locked"
    /\ pc' = [pc EXCEPT ![t] = "started", ![target[t]] = "new"]
    /\ UNCHANGED <<create, sched, target, created, dispatched>>

WaitCreated(t) ==
    /\ pc[t] = "started"
    /\ create' = Free
    /\ Goto(t, "create_wait")
    /\ UNCHANGED <<sched, target, created, dispatched>>

(* pthread_cond_wait takes create_mutex back.  It is not called in a loop.  *)
Relock(t) ==
    /\ \/ pc[t] = "create_woken"
       \/ pc[t] = "create_wait" /\ Spurious
    /\ create = Free
    /\ create' = t
    /\ Goto(t, "returning")
    /\ UNCHANGED <<sched, target, created, dispatched>>

CreateReturn(t) ==
    /\ pc[t] = "returning"
    /\ create' = Free
    /\ created' = created \cup {target[t]}
    /\ target' = [target EXCEPT ![t] = t]
    /\ Goto(t, IF t = Root THEN "user" ELSE "kernel")
    /\ UNCHANGED <<sched, dispatched>>

-----------------------------------------------------------------------------
(* sc_cor_pthread::invoke_module_method                                     *)

ChildLock(c) ==
    /\ pc[c] = "new"
    /\ create = Free
    /\ create' = c
    /\ Goto(c, "born")
    /\ UNCHANGED <<sched, target, created, dispatched>>

(* pthread_cond_signal wakes one of the threads that wait, if there is one. *)
ChildSignal(c) ==
    /\ pc[c] = "born"
    /\ LET waiting == {t \in Thread : pc[t] = "create_wait"}
       IN  IF waiting = {} THEN Goto(c, "signalled")
           ELSE \E t \in waiting :
                  pc' = [pc EXCEPT ![c] = "signalled", ![t] = "create_woken"]
    /\ UNCHANGED <<create, sched, target, created, dispatched>>

(* Faulty: create_mutex is given up without sched_mutex in hand.            *)
ForgetSched(c) ==
    /\ pc[c] = "signalled"
    /\ Goto(c, "holding")
    /\ UNCHANGED <<create, sched, target, created, dispatched>>

ChildSched(c) ==
    /\ pc[c] = "signalled"
    /\ sched = Free
    /\ sched' = c
    /\ Goto(c, "holding")
    /\ UNCHANGED <<create, target, created, dispatched>>

ChildUnlock(c) ==
    /\ pc[c] = "holding"
    /\ create' = Free
    /\ Goto(c, "leaving")
    /\ UNCHANGED <<sched, target, created, dispatched>>

ChildWait(c) ==
    /\ pc[c] = "leaving"
    /\ sched' = Free
    /\ Goto(c, "dormant")
    /\ UNCHANGED <<create, target, created, dispatched>>

(* pthread_cond_wait takes sched_mutex back, the child gives it up and calls*)
(* m_cor_fn.                                                                *)
ChildStart(c) ==
    /\ pc[c] = "woken"
    /\ sched = Free
    /\ Goto(c, "user")
    /\ UNCHANGED <<create, sched, target, created, dispatched>>

-----------------------------------------------------------------------------
(* The scheduler                                                            *)

(* simulate() by sc_main once prepare_to_simulate has created the elaborated*)
(* processes; notify, wait or sc_spawn by a process.                        *)
EnterKernel(t) ==
    /\ pc[t] = "user"
    /\ t = Root => \A c \in Child : By[c] = Root => c \in created
    /\ sched = Free
    /\ sched' = t
    /\ Goto(t, "kernel")
    /\ UNCHANGED <<create, target, created, dispatched>>

(* Dispatching a process of the ready queue: a signal to a thread that does *)
(* not wait yet is lost.                                                    *)
go(t, c) ==
    /\ pc[t] = "kernel"
    /\ c \in created \ dispatched
    /\ dispatched' = dispatched \cup {c}
    /\ pc' = IF pc[c] = "dormant" THEN [pc EXCEPT ![c] = "woken"] ELSE pc
    /\ UNCHANGED <<create, sched, target, created>>

(* oooschedule has dispatched what is ready; the caller goes on, or ends.   *)
LeaveKernel(t) ==
    /\ pc[t] = "kernel"
    /\ created \subseteq dispatched
    /\ sched' = Free
    /\ \/ t # Root /\ Goto(t, "user")
       \/ (\A c \in Child : By[c] = t => c \in created) /\ Goto(t, "end")
    /\ UNCHANGED <<create, target, created, dispatched>>

Terminating ==
    /\ \A t \in Thread : pc[t] = "end"
    /\ UNCHANGED vars

CreateStep(t) ==
    \/ PthreadCreate(t) \/ WaitCreated(t) \/ Relock(t) \/ CreateReturn(t)
    \/ \E c \in Child : CreateLock(t, c)

ChildStep(c) ==
    ChildLock(c) \/ ChildSignal(c) \/ ChildSched(c) \/ ChildUnlock(c)
        \/ ChildWait(c) \/ ChildStart(c)

Next ==
    \/ \E t \in Thread :
        \/ CreateStep(t) \/ EnterKernel(t) \/ LeaveKernel(t)
        \/ \E c \in Child : go(t, c)
    \/ \E c \in Child : ChildStep(c)
    \/ Terminating

Spec == Init /\ [][Next]_vars

(* Every thread that can run does run, and a mutex that keeps becoming free *)
(* is not withheld from the same thread for ever.                           *)
Fairness ==
    /\ \A t \in Thread : /\ SF_vars(CreateStep(t))
                         /\ WF_vars(\E c \in Child : go(t, c))
                         /\ SF_vars(EnterKernel(t) /\ t = Root)
                         /\ WF_vars(LeaveKernel(t))
    /\ \A c \in Child : SF_vars(ChildStep(c))

FairSpec == Spec /\ Fairness

-----------------------------------------------------------------------------
(* When create() has returned, the new thread has gone through its start-up *)
(* far enough to hold sched_mutex until it waits: whoever calls go, which   *)
(* needs that mutex, finds it waiting.                                      *)
Dormant ==
    \A c \in created : pc[c] \in Prestart => pc[c] = "leaving" /\ sched = c

(* The signal of go is never lost: no dispatched coroutine has still to     *)
(* reach its wait.                                                          *)
NoLostStart == \A c \in dispatched : pc[c] \notin Prestart

(* Who is between lock and unlock of create_mutex or sched_mutex owns it, so *)
(* no two threads are: the hand-over in the middle of create does not let a *)
(* third thread in.                                                         *)
Exclusive ==
    /\ \A t \in Thread : pc[t] \in {"locked", "started", "returning"}
                            => create = t
    /\ \A c \in Child : pc[c] \in {"born", "signalled", "holding"} => create = c
    /\ \A t \in Thread : pc[t] \in {"holding", "leaving", "kernel"} => sched = t

(* create() returns: the new thread always gets far enough to signal.       *)
CreateReturns ==
    \A c \in Child : (\E t \in Thread : target[t] = c /\ t # c)
                        ~> (c \in created)

(* A process that is dispatched starts to run.                              *)
Starts ==
    \A c \in Child : (c \in dispatched) ~> (pc[c] \notin Prestart \cup {"dormant", "woken"})
=============================================================================
