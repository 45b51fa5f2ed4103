----------------------------- MODULE KernelLock -----------------------------
(***************************************************************************)
(* The kernel lock of the parallel simulator and the coroutines that pass   *)
(* it around.  Every simulation process is a POSIX thread (sc_cor_pthread); *)
(* all of them, and the root thread that runs sc_main, share one mutex,     *)
(* sched_mutex.  The lock is recursive by hand: sc_kernel_lock counts the   *)
(* nested acquisitions in m_counter of the coroutine.  A thread suspends by *)
(* waiting on its own condition variable, which releases sched_mutex, and   *)
(* is resumed by whoever schedules it while holding sched_mutex.            *)
(*                                                                          *)
(* The second half is the channel locks: every channel method takes the     *)
(* mutex of its channel and records it in the process' own stack, wait()    *)
(* gives all of them up before the thread sleeps and takes them back after  *)
(* the kernel lock is released.                                             *)
(*                                                                          *)
(* What the scheduler picks is left open here (any set of sleeping threads):*)
(* OoOSchedule.tla says which ones.                                         *)
(***************************************************************************)
EXTENDS Naturals, Sequences, FiniteSets

CONSTANTS
    Process,    \* the SC_THREAD coroutines
    Root,       \* the coroutine of sc_main (main_cor)
    Channel,    \* the channels with a lock of their own
    Rank,       \* nesting order of the channels: outer channels have lower rank
    MaxNest,    \* bound on nested sc_kernel_locks (the code nests two)
    MaxRepeat,  \* bound on nested calls into one channel
    Free        \* value of a mutex nobody owns

ASSUME KernelLockAssumption ==
    /\ Root \notin Process
    /\ Free \notin Process \cup {Root}
    /\ Rank \in [Channel -> Nat]
    /\ MaxNest \in Nat
    /\ MaxRepeat \in Nat \ {0}

Thread == Process \cup {Root}

VARIABLES
    sched,      \* owner of sched_mutex
    counter,    \* m_counter of each coroutine
    chan,       \* owner of each channel mutex
    acq,        \* m_acq_chnl_lock_queue of each thread, outermost first
    running,    \* m_curr_proc_queue
    pc          \* where each thread is

vars == <<sched, counter, chan, acq, running, pc>>

(* The places a thread can be:                                              *)
(*   user     runs user code (for the root: sc_main, simulation not running)*)
(*   notify   inside an sc_kernel_lock scope that does not suspend          *)
(*   wait     inside wait(), channel locks still held                       *)
(*   suspend  inside wait(), channel locks given up                         *)
(*   asleep   blocked in pthread_cond_wait, not signalled                   *)
(*   woken    signalled, must get sched_mutex before it continues           *)
(*   resume   back from suspend_me, still holding the kernel lock           *)
(*   relock   outside the kernel, taking its channel locks back             *)
(*   exit     finished, releasing the kernel lock for the last time         *)
(*   dead     the POSIX thread has ended                                    *)
Places == {"user", "notify", "wait", "suspend", "asleep", "woken", "resume",
           "relock", "exit", "dead"}

(* A thread in one of these places executes code that assumes the kernel    *)
(* lock.                                                                    *)
Inside == {"notify", "wait", "suspend", "resume", "exit"}

LockRecord == [lock : Channel, count : 1..MaxRepeat]

TypeOK ==
    /\ sched \in Thread \cup {Free}
    /\ counter \in [Thread -> 0..MaxNest]
    /\ chan \in [Channel -> Process \cup {Free}]
    /\ acq \in [Process -> Seq(LockRecord)]
    /\ running \in SUBSET Process
    /\ pc \in [Thread -> Places]

(* prepare_to_simulate has created every coroutine; each of them sleeps in  *)
(* invoke_module_method and sc_main has not called sc_start yet.            *)
Init ==
    /\ sched = Free
    /\ counter = [t \in Thread |-> 0]
    /\ chan = [c \in Channel |-> Free]
    /\ acq = [p \in Process |-> <<>>]
    /\ running = {}
    /\ pc = [t \in Thread |-> IF t = Root THEN "user" ELSE "asleep"]

-----------------------------------------------------------------------------
(* sc_kernel_lock                                                           *)

(* The constructor when the caller does not own sched_mutex.                *)
Acquire(t, place) ==
    /\ sched = Free
    /\ sched' = t
    /\ pc' = [pc EXCEPT ![t] = place]

(* The destructor of the outermost sc_kernel_lock.                          *)
Release(t, place) ==
    /\ counter[t] = 0
    /\ sched' = Free
    /\ pc' = [pc EXCEPT ![t] = place]

(* A second sc_kernel_lock inside the first: is_locked_and_owner() is true, *)
(* so only the counter moves.                                               *)
NestedLock(t) ==
    /\ pc[t] \in {"notify", "resume"}
    /\ sched = t
    /\ counter[t] < MaxNest
    /\ counter' = [counter EXCEPT ![t] = @ + 1]
    /\ UNCHANGED <<sched, chan, acq, running, pc>>

NestedUnlock(t) ==
    /\ pc[t] \in {"notify", "resume"}
    /\ counter[t] > 0
    /\ counter' = [counter EXCEPT ![t] = @ - 1]
    /\ UNCHANGED <<sched, chan, acq, running, pc>>

(* sc_event::notify and the other calls that enter the kernel and return.   *)
EnterNotify(t) ==
    /\ pc[t] = "user"
    /\ Acquire(t, "notify")
    /\ UNCHANGED <<counter, chan, acq, running>>

LeaveNotify(t) ==
    /\ pc[t] = "notify"
    /\ Release(t, "user")
    /\ UNCHANGED <<counter, chan, acq, running>>

-----------------------------------------------------------------------------
(* Scheduling: sc_simcontext::oooschedule, sc_cor_pkg_pthread::go and wait  *)

(* oooschedule called by t with the process set r left in the running       *)
(* queue: any set d of processes that sleep (or t itself) is dispatched and *)
(* signalled; if the running queue is empty afterwards the root thread is   *)
(* signalled instead.  Signalling a thread that waits moves it to "woken".  *)
Dispatchable(t) == {p \in Process : pc[p] = "asleep" /\ p \notin running}

(* Faulty: go() is left out for the processes that were dispatched.         *)
SignalledRootOnly(t, r, d) == IF r \cup d = {} /\ t # Root THEN {Root} ELSE {}

Signalled(t, r, d) ==
    (d \ {t}) \cup (IF r \cup d = {} /\ t # Root THEN {Root} ELSE {})

Woken(S) == [u \in Thread |->
                IF u \in S /\ pc[u] = "asleep" THEN "woken" ELSE pc[u]]

(* wait(): the kernel lock is taken while the channel locks are still held. *)
EnterWait(p) ==
    /\ pc[p] = "user"
    /\ Acquire(p, "wait")
    /\ UNCHANGED <<counter, chan, acq, running>>

(* unlock_all_channels: every mutex is released, the stack remembers them.  *)
UnlockAll(p) ==
    /\ pc[p] = "wait"
    /\ chan' = [c \in Channel |-> IF chan[c] = p THEN Free ELSE chan[c]]
    /\ pc' = [pc EXCEPT ![p] = "suspend"]
    /\ UNCHANGED <<sched, counter, acq, running>>

(* suspend_me when it calls oooschedule: if the scheduler picked p itself   *)
(* it keeps the lock and goes on, otherwise pthread_cond_wait gives the     *)
(* lock up and puts p to sleep in one step.  aux_boundary, whose caller      *)
(* stays in the running queue, is the case that p is picked.                *)
SuspendAndSchedule(p) ==
    /\ pc[p] = "suspend"
    /\ \E d \in SUBSET (Dispatchable(p) \cup {p}) :
        /\ running' = (running \ {p}) \cup d
        /\ LET w == Woken(Signalled(p, running \ {p}, d))
           IN IF p \in d
              THEN /\ pc' = [w EXCEPT ![p] = "resume"]
                   /\ sched' = sched
              ELSE /\ pc' = [w EXCEPT ![p] = "asleep"]
                   /\ sched' = Free
    /\ UNCHANGED <<counter, chan, acq>>

(* suspend_me when another thread has a kernel request pending              *)
(* (num_kernel_requests > 1): no scheduling, that thread will do it.  It is *)
(* a thread of the running queue (KernelRequests.tla).                      *)
SuspendOnly(p) ==
    /\ pc[p] = "suspend"
    /\ running \ {p} # {}
    /\ running' = running \ {p}
    /\ sched' = Free
    /\ pc' = [pc EXCEPT ![p] = "asleep"]
    /\ UNCHANGED <<counter, chan, acq>>

(* The signalled thread returns from pthread_cond_wait with sched_mutex.    *)
WakeUp(t) ==
    /\ pc[t] = "woken"
    /\ Acquire(t, "resume")
    /\ UNCHANGED <<counter, chan, acq, running>>

(* The end of the sc_kernel_lock scope of wait(), or of simulate() for the  *)
(* root.                                                                    *)
LeaveWait(t) ==
    /\ pc[t] = "resume"
    /\ Release(t, IF t = Root THEN "user" ELSE "relock")
    /\ UNCHANGED <<counter, chan, acq, running>>

(* sc_start: simulate() takes the lock and calls oooschedule, which puts    *)
(* the root to sleep if it dispatched anything.                             *)
SimulateEnter ==
    /\ pc[Root] = "user"
    /\ Acquire(Root, "suspend")
    /\ UNCHANGED <<counter, chan, acq, running>>

SimulateSchedule ==
    /\ pc[Root] = "suspend"
    /\ \E d \in SUBSET Dispatchable(Root) :
        /\ running' = running \cup d
        /\ LET w == Woken(Signalled(Root, running, d))
           IN IF running' = {}
              THEN /\ pc' = [w EXCEPT ![Root] = "resume"]
                   /\ sched' = sched
              ELSE /\ pc' = [w EXCEPT ![Root] = "asleep"]
                   /\ sched' = Free
    /\ UNCHANGED <<counter, chan, acq>>

(* sc_thread_cor_fn after the body of the thread returned: leave the        *)
(* running queue, schedule the others, release the lock and end.            *)
EnterExit(p) ==
    /\ pc[p] = "user"
    /\ acq[p] = <<>>
    /\ Acquire(p, "exit")
    /\ UNCHANGED <<counter, chan, acq, running>>

ExitSchedule(p) ==
    /\ pc[p] = "exit"
    /\ p \in running
    /\ \E d \in SUBSET Dispatchable(p) :
        /\ running' = (running \ {p}) \cup d
        /\ pc' = Woken(Signalled(p, running \ {p}, d))
    /\ UNCHANGED <<sched, counter, chan, acq>>

Exit(p) ==
    /\ pc[p] = "exit"
    /\ p \notin running
    /\ Release(p, "dead")
    /\ UNCHANGED <<counter, chan, acq, running>>

-----------------------------------------------------------------------------
(* Channel locks: sc_acq_chnl_lock_queue                                    *)

Last(s) == s[Len(s)]
Butlast(s) == SubSeq(s, 1, Len(s) - 1)

(* lock_and_push of a lock that is not the one on top: it is taken (the     *)
(* thread blocks until it is free) and pushed.  Channels are nested outside *)
(* in, the rule stated above sc_thread_process::wait.                       *)
LockAndPush(p, c) ==
    /\ pc[p] = "user"
    /\ \A i \in 1..Len(acq[p]) : Rank[acq[p][i].lock] < Rank[c]
    /\ chan[c] = Free
    /\ chan' = [chan EXCEPT ![c] = p]
    /\ acq' = [acq EXCEPT ![p] = Append(@, [lock |-> c, count |-> 1])]
    /\ UNCHANGED <<sched, counter, running, pc>>

(* lock_and_push of the lock on top: only counted.                          *)
LockAgain(p) ==
    /\ pc[p] = "user"
    /\ acq[p] # <<>>
    /\ Last(acq[p]).count < MaxRepeat
    /\ acq' = [acq EXCEPT ![p][Len(acq[p])].count = @ + 1]
    /\ UNCHANGED <<sched, counter, chan, running, pc>>

PopAndUnlock(p) ==
    /\ pc[p] = "user"
    /\ acq[p] # <<>>
    /\ IF Last(acq[p]).count = 1
       THEN /\ acq' = [acq EXCEPT ![p] = Butlast(@)]
            /\ chan' = [chan EXCEPT ![Last(acq[p]).lock] = Free]
       ELSE /\ acq' = [acq EXCEPT ![p][Len(acq[p])].count = @ - 1]
            /\ UNCHANGED chan
    /\ UNCHANGED <<sched, counter, running, pc>>

(* lock_all, one mutex at a time from the outermost: the next one is the    *)
(* first of the stack that p does not own.                                  *)
Missing(p) == {i \in 1..Len(acq[p]) : chan[acq[p][i].lock] # p}

LockAllStep(p) ==
    /\ pc[p] = "relock"
    /\ \E i \in Missing(p) :
        /\ \A j \in Missing(p) : i <= j
        /\ chan[acq[p][i].lock] = Free
        /\ chan' = [chan EXCEPT ![acq[p][i].lock] = p]
    /\ UNCHANGED <<sched, counter, acq, running, pc>>

(* Faulty: wait() returns before it has all its channels back.              *)
LockAllSkipped(p) ==
    /\ pc[p] = "relock"
    /\ pc' = [pc EXCEPT ![p] = "user"]
    /\ UNCHANGED <<sched, counter, chan, acq, running>>

LockAllDone(p) ==
    /\ pc[p] = "relock"
    /\ Missing(p) = {}
    /\ pc' = [pc EXCEPT ![p] = "user"]
    /\ UNCHANGED <<sched, counter, chan, acq, running>>

-----------------------------------------------------------------------------
KernelStep(t) ==
    \/ NestedLock(t)
    \/ NestedUnlock(t)
    \/ EnterNotify(t)
    \/ LeaveNotify(t)
    \/ WakeUp(t)
    \/ LeaveWait(t)

ProcessStep(p) ==
    \/ EnterWait(p)
    \/ UnlockAll(p)
    \/ SuspendAndSchedule(p)
    \/ SuspendOnly(p)
    \/ EnterExit(p)
    \/ ExitSchedule(p)
    \/ Exit(p)

ChannelStep(p) ==
    \/ \E c \in Channel : LockAndPush(p, c)
    \/ LockAgain(p)
    \/ PopAndUnlock(p)
    \/ LockAllStep(p)
    \/ LockAllDone(p)

Next ==
    \/ \E t \in Thread : KernelStep(t)
    \/ \E p \in Process : ProcessStep(p)
    \/ \E p \in Process : ChannelStep(p)
    \/ SimulateEnter
    \/ SimulateSchedule

Spec == Init /\ [][Next]_vars

-----------------------------------------------------------------------------
(* Only the owner of sched_mutex executes kernel code, and an owner is      *)
(* always executing kernel code: pthread_cond_wait and the nested locks     *)
(* never leave the mutex with a thread that has gone back to user code or   *)
(* to sleep (the asserts on is_locked_and_owner and is_not_owner).          *)
KernelExclusion ==
    /\ \A t \in Thread : pc[t] \in Inside => sched = t
    /\ sched # Free => pc[sched] \in Inside

(* m_counter is balanced: outside the kernel, and whenever a thread gives   *)
(* the lock up in pthread_cond_wait, no nested acquisition is outstanding.  *)
CounterBalanced ==
    \A t \in Thread : counter[t] > 0 => sched = t /\ pc[t] \in {"notify", "resume"}

(* No wake-up is lost: a process the scheduler put in the running queue is  *)
(* never left waiting for a signal, and a process outside the queue runs    *)
(* neither user nor kernel code except to end.                              *)
NoLostWakeup ==
    \A p \in Process :
        /\ p \in running => pc[p] \notin {"asleep", "dead"}
        /\ p \notin running => pc[p] \in {"asleep", "exit", "dead"}

(* Somebody can always go on: when every simulation process sleeps or has   *)
(* ended, the root thread has been signalled or is running.                 *)
SomebodyAwake == \E t \in Thread : pc[t] \notin {"asleep", "dead"}

(* While sc_main runs outside sc_start no simulation process runs: that is  *)
(* what lets channel methods skip the channel lock in the root thread.      *)
RootAlone ==
    pc[Root] = "user" => \A p \in Process : pc[p] \in {"asleep", "exit", "dead"}

(* A suspended process holds no channel mutex, though its stack still names *)
(* them: a process that sleeps inside a channel method blocks nobody.       *)
SleepersHoldNoChannel ==
    \A p \in Process : pc[p] \in {"suspend", "asleep", "woken", "resume"} =>
        \A c \in Channel : chan[c] # p

InStack(p, c) == \E i \in 1..Len(acq[p]) : acq[p][i].lock = c

(* Two processes never execute user code inside the same channel, although  *)
(* both may have it on their stacks because one of them sleeps in it.       *)
ChannelExclusion ==
    \A p, q \in Process : \A c \in Channel :
        /\ pc[p] = "user" /\ InStack(p, c)
        /\ pc[q] = "user" /\ InStack(q, c)
        => p = q

(* What a process holds is what its stack says: a mutex it owns is on the   *)
(* stack, and in user code it owns all of the stack.                        *)
StackMatchesMutexes ==
    \A p \in Process :
        /\ \A c \in Channel : chan[c] = p => InStack(p, c)
        /\ pc[p] \in {"user", "notify", "wait"} =>
              \A i \in 1..Len(acq[p]) : chan[acq[p][i].lock] = p

(* The kernel lock does its work: kernel code runs alone, the nesting count *)
(* is balanced, no dispatched process sleeps on, somebody can always go on  *)
(* and sc_main runs alone (sc_kernel_lock, sc_cor_pkg_pthread).             *)
LockSafety ==
    /\ TypeOK
    /\ KernelExclusion
    /\ CounterBalanced
    /\ NoLostWakeup
    /\ SomebodyAwake
    /\ RootAlone

(* The channel locks do theirs: sleepers block nobody, two processes never  *)
(* execute inside one channel, and the stacks agree with the mutexes        *)
(* (sc_acq_chnl_lock_queue).                                                *)
ChannelSafety ==
    /\ SleepersHoldNoChannel
    /\ ChannelExclusion
    /\ StackMatchesMutexes
=============================================================================
