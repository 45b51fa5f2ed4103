# A TLA+ verification of the myRISC SystemC simulator

myRISC is a SystemC library (`src/sysc`) whose simulation kernel runs processes
in parallel.  A process that waits hands the processor to a scheduler that is
executed by whichever thread is the last to enter the kernel; in the default,
*out-of-order* mode every process has its own simulated time and runs ahead of
the others whenever the tables emitted by the RISC compiler say that nobody can
tell the difference.  Much of SystemC (ports, elaboration, reports, data types)
is inherited and was written for one thread; the parallel kernel is new.  These
modules are about the kernel first, then about what processes share.

- [The system](#the-system): components, state, operations, interactions
- [Plan](#plan): what is done and what is left
- [The modules](#the-modules): how they correspond to the code
- [The runs](#the-runs): what each shows, bounds, fairness
- [Where the code and its comments disagree](#where-the-code-and-its-comments-disagree)
- [The proofs](#the-proofs)
- [What is not modelled](#what-is-not-modelled)

`tlc -config X.cfg M` repeats a run, `tlapm M.tla` a proof.  `PROJECT.json` names
for every definition the source lines it stands for, for every component what
is modelled of it, and under `hazards` what can go wrong at which line and which
property would notice.

## The system

### Threads and locks

| Component | State | Operations | What makes it correct |
|---|---|---|---|
| Kernel lock (`sc_simcontext.cpp:410`, `sc_cor_pthread.cpp`) | one mutex `sched_mutex` with an owner, `m_counter` of nested acquisitions per coroutine | `sc_kernel_lock` constructor and destructor, from every call into the kernel | kernel code runs only in the owner; the count is balanced on every path, also across a suspension |
| Coroutines (`sc_cor_pthread.cpp`) | a POSIX thread and a condition variable per process; `create_mutex`, `create_condition` | `create`, `go` (signal), `wait` (sleep on the own condition variable, which gives the lock up), end of the thread function | no signal is lost, not even the first; somebody is always awake; `sc_main` runs alone |
| Channel locks (`sc_prim_channel.h`, `sc_process.cpp:832`) | a mutex per channel, and the stack `m_acq_chnl_lock_queue` of each process with a repeat count per entry | `lock_and_push`, `pop_and_unlock`, `unlock_all_channels` before a suspension, `lock_all_channels` after it | one process at a time is inside a channel, none sleeps with a channel mutex, and after `wait()` all of the stack is owned again |
| Requests and invokers (`sc_thread_process.h:308`, `sc_simcontext.cpp:224`) | `num_kernel_requests`, `running_invokers`, `running_methods`, a `method_queue` per invoker | announce, suspend and schedule, suspend and leave the scheduling to another, `aux_boundary`, the epilogue of an invoker, `halt()`, the end of a thread | a scheduling pass that is left to somebody else is made; the simulation never freezes |

Processes reach the lock through `wait()`, `notify()`, `sc_start()` and the ends
of thread functions.  Methods have no coroutine: an *invoker* thread runs the
list of methods the scheduler gave it.  The hard part is interleaving: the
announcement is made outside the lock, the channel mutexes are taken back
outside the lock, and the method list of an invoker is walked outside the lock.

### Scheduling

| Component | State | Operations | What makes it correct |
|---|---|---|---|
| Timestamps (`sc_process.h:934`) | a time and a delta count, (-1,-1) for never | comparison, addition | a linear order with "never" last, preserved by addition |
| Out-of-order scheduler (`sc_simcontext.cpp:1656-2025`) | ready, running, waiting and timed processes with a timestamp and a segment each; `possible_wakeup_time`, `PWT_defining_proc`; `new_waiting_proc` | trigger timed waits, deliver notifications, dispatch, put back conflicting processes, pause at the end of `sc_start`, clean up | every process takes the notifications it would take in time order; conflicting segments run one at a time and in time order; `sc_start` returns only when nothing can run |
| Prediction (`sc_simcontext.cpp:2040-2613`) | as above, a heap of changed processes | `predict_wakeup_time_by_events`, `..._by_running_ready_threads`, `..._by_waiting_threads`, `..._create_defining_tree` | the incremental result is what a computation from nothing would give, in whatever order the heap yields |
| Dependency sets (`sc_simcontext.cpp:1521`) | per process and segment, who may notify it, whom it may notify, whose data clash with its own | brought up to date when a thread suspends, a method ends or a process becomes runnable | they miss nobody |
| Ready queue (`sc_runnable_int.h`) | two linked lists through one pointer per process | push to either end, pop, remove | a runnable process is on one list, once |
| Events (`sc_event.cpp`) | `m_notify_timestamp_set`, the static and dynamic lists, `m_notify_type`, the delta set | `notify`, `notify(t)`, `cancel`, AND and OR lists | a notification is forgotten only when nobody can take it any more, and nobody passes one by that is in force (that what is cancelled stays cancelled is false, see below) |
| Synchronous mode (`_SYSC_SYNC_PAR_SIM`) | the same queues, global time | a delta cycle at a time; update phase when everything sleeps | the delta cycle semantics of SystemC |
| Process control (`sc_thread_process.cpp`, `sc_reset.cpp`) | disabled and ready-to-run bits, throw status, counts of active resets | enable, disable, `sync_reset_on`, reset signals | a disabled process loses only what it should; a reset lasts as long as one of its causes |
| Process objects (`sc_process.cpp`, `sc_process_handle.h`) | a reference count | copy and drop a handle, end of the process | an object in use exists, and one nobody uses does not |
| Fork and join (`sc_spawn.h`, `sc_join.cpp`) | counter of running children, monitor queue per thread | spawn, register, join | the joiner wakes when the last child ends |
| Timed events (`sc_pq.cpp`) | a binary heap | insert, extract_top | the top is the least, nothing is lost |

Interactions.  `sc_simcontext::simulate` calls `oooschedule` as the root thread
and sleeps; every later call comes from a process or an invoker on its way to
sleep, with the kernel lock held, and ends in signalling what was dispatched or,
if nothing runs, the root thread.  An event is notified under the lock by a
running process and delivered by the next `oooschedule` call.  Any object derived
from `sc_prim_channel` switches the whole simulation to the synchronous mode
(`sc_prim_channel.cpp:63`): out-of-order programs communicate by events, shared
data, user channels with a mutex of their own, `sc_mutex` and `sc_semaphore`.

### Channels, the main program, and what processes share

| Component | State | What makes it correct |
|---|---|---|
| Primitive channels (`sc_prim_channel.cpp`) | update list, asynchronous update queue behind a host mutex | each requested update happens once, in the update phase, none is lost between swap and append |
| Signals and buffers (`sc_signal.cpp`) | current and new value, writer, change stamp | readers see the old value until the update; the writer policy accepts the writers it names |
| Resolved signals (`sc_signal_resolved.cpp`, `sc_signal_rv.h`) | two vectors, of drivers and of their values | the vectors agree; the value is the resolution of all of them |
| Fifo (`sc_fifo.h`) | ring buffer, readable and free counts, reads and writes of this delta | no item lost, duplicated or reordered; a blocked side is woken |
| Mutex, semaphore (`sc_mutex.cpp`, `sc_semaphore.cpp`) | owner or value, one event | mutual exclusion with a wake-up for a waiter after each release |
| `sc_start`, `sc_stop`, `sc_pause`, `sc_status` (`sc_simcontext.cpp:4985-5260`) | duration, time, status, forced and prepared flags | the end is announced once and time never goes back for `sc_main`; it stays in its period as long as nobody disturbs a `sc_stop` |
| Elaboration (`sc_simcontext.cpp:4443`, `sc_port.cpp`, `sc_module_registry.cpp`) | four registries, each with its own mark of what is done | every object gets every callback once, in the order of the phases |
| Ports (`sc_port.cpp`, `sc_port.h`) | lists of bindings, replaced by interfaces; sensitivity that waits for them | a port reaches what its parents reach, whatever was bound first |
| Reports (`sc_report_handler.cpp`) | rules, limits and counters by severity, type and both; two masks | the most specific rule decides, every report counts once |
| Free lists, pools, temporaries (`scfx_rep.cpp:418`, `sc_mempool.cpp`, `sc_temporary.h`) | lists of cells, an index that wraps | nothing that is used is handed out again (the first is locked; of the others this holds for calls that do not overlap) |
| Fixed-point numbers (`scfx_rep.cpp`, `scfx_utils.h`) | words, sign, cached indices | rounding and overflow as the modes say, wherever the words lie |
| Integers of any width (`sc_signed.cpp`, `sc_unsigned.cpp`, `sc_nbutils.cpp`) | width, sign, digits of a magnitude | the value is what arithmetic says, cut to the width where a variable is assigned |
| Names, objects, tracing, bit and logic vectors, QuickThreads, Boost | | sequential, vendored, or output only |

## Plan

Ordered by what the rest depends on.  Done:

1. KernelLock, KernelRequests - lock, coroutines, channel locks, who schedules;
   proved, the latter for programs without `halt()`.
2. Timestamp, OoOSchedule - the out-of-order scheduler with lists of events,
   timeouts, static sensitivity, disabled processes, notifications by `sc_main`
   and the synchronous mode, which implements DeltaCycle; proved for every program
   with sound tables: its types, what disabled processes keep, that no data race
   occurs, that conflicting segments run and that events are taken in the order of
   simulated time; and for plain programs that nobody is left behind when sc_main
   continues.
3. What OoOSchedule takes for granted: PredictionHeap, DependencySets (proved),
   RunnableLists (which implement ReadyQueue; proved), PriorityQueue (which implements
   TimedQueue), EventCancel (proved).
4. Channels: UpdatePhase (which implements SignalSpec; proved), Fifo (which implements
   BoundedQueue; proved), SimMutex, SimSemaphore (both proved), ResolvedSignal.
5. Processes: CorCreate, ProcessReset, Join, ProcessLife (all proved, except that
   the counts of ProcessLife are exact).
6. The main program: SimStatus (proved), Elaboration, PortBinding, ReportHandler.
7. Shared storage and values: FreeList, MemPool, Temporaries, FixedPoint, BigInteger.

Left, in this order:

1. Theorems: StoppedIsQuiet beyond plain programs (methods that
   share data, AND lists, more than one period).
2. UpdatePhase composed with OoOSchedule in the synchronous mode, instead of with a
   scheduler that dispatches any set of processes.
3. Addition and multiplication of fixed-point numbers; logic vectors.

## The modules

The modules below share no variables.  `KernelRequests` and `OoOSchedule` are each one
level above the one before: what is a sequence of lock operations in `KernelLock`
is one step in `KernelRequests`, and the scheduling that is "any set of processes" in
both of those is what `OoOSchedule` determines.  The others look at one part of the
system while the rest is reduced to what that part sees of it.  What a module
assumes of another is a property there: the kernel is exclusive and a signalled
thread does run (LockSafety), a deferred scheduling pass is made (DeferredIsDone),
the prediction loop comes to the least times (QueuesRight), the dependency sets miss
nobody (TablesComplete).

### KernelLock

State: `sched` is the owner of `sched_mutex`, `counter` is `m_counter`, `chan` the
owners of the channel mutexes, `acq` the lock stacks, `running` is
`m_curr_proc_queue`, and `pc` where each thread is.

| Action | Code |
|---|---|
| EnterNotify, LeaveNotify, NestedLock, NestedUnlock | `sc_kernel_lock` around `notify()` and the other calls that return; a lock taken inside a lock only counts |
| EnterWait, UnlockAll | `wait()`: kernel lock first, then the channel locks are given up |
| SuspendAndSchedule, SuspendOnly | `suspend_me()` with and without `oooschedule`; `pthread_cond_wait` releases the mutex and sleeps in one step |
| WakeUp, LeaveWait | the return from `pthread_cond_wait` |
| LockAllStep, LockAllDone | `lock_all_channels()`, one mutex at a time, outside the kernel |
| LockAndPush, LockAgain, PopAndUnlock | a channel method begins and returns |
| SimulateEnter, SimulateSchedule | `sc_start()` |
| EnterExit, ExitSchedule, Exit | the end of a thread function |

Assumed: condition variables have no spurious wake-ups (the code waits without a
predicate), and channels are nested from the outside in, the rule stated in the
comment above `sc_thread_process::wait`; without it the channel mutexes can
deadlock as any pair of locks can.

### KernelRequests

State: `requests` is `num_kernel_requests`, `running`, `runningInvokers`,
`runningMethods` and `queue` are the lists of the same names, `pending` is what the
scheduler could dispatch, `pc` where each coroutine is.  `owed` is not in the code:
it says that the last suspension left the scheduling to others.

A kernel section is one step, except that `Request`, the announcement made before
the lock is taken, is a step of its own.  `Suspend`, `SuspendInvoker`, `End` and `Halt`
are the four ways to leave the kernel; `Boundary` is `aux_boundary`, which
schedules without an announcement and goes on running; `Schedule` dispatches any set of pending
processes that do not belong to a busy invoker.  `Next` is a program
without `halt()`, which suspends without an announcement; `HaltNext` adds it.

### Timestamp, OoOSchedule, DeltaCycle

`Timestamp` has the comparison and addition of `sc_timestamp` (adding a positive
time drops the delta count).  `OoOSchedule` has the program as a constant:
processes walk through segments, the code between two waits; a segment may
notify events and ends in one wait.  `Predict` and `Hazard` are the tables that the
RISC compiler emits (`sc_simcontext` reads them, the compiler is not in this
repository); `MCOoOSchedule` computes them for the programs checked.  `TablesSound` says
what the scheduler relies on: a table promises of a segment no more than the segment
does, or than it promises, after the wait, of the next one.

| Variable | Code |
|---|---|
| `state`, `ts`, `seg` | `m_process_state`, `m_timestamp`, the segment ID |
| `waits`, `all`, `due` | the dynamic lists a process is in, AND_LIST, the deadline or `wake_up_time_for_event_list` |
| `disabled` | `ps_bit_disabled` |
| `notified` | `m_notify_timestamp_set` |
| `pwt`, `definer`, `newWaiting`, `changed` | `possible_wakeup_time`, `PWT_defining_proc`, `new_waiting_proc`, `mod_wakeup_proc` |
| `running`, `tried`, `duration`, `starts` | `running_invokers`, the conflict lists, `m_simulation_duration`, the calls of `sc_start` so far |
| `phase`, `byRoot` | where the call of `oooschedule` is, and whether the root thread made it |
| `todo` | what the running segment has not notified yet |
| `hist`, `last`, `latest` | not in the code, history for the properties: all notifications, the last wait of a process that an event ended, the last dispatch of a segment |

`Start` is `sc_start`.  One `oooschedule` call is `Timers`, then `Predictions`, `Relax`
until nothing changes and `Deliver`, again if events were delivered and nobody woke
up, then `DispatchMethod` and `DispatchThread` in turn, then `Finish`; `SkipDelivery`
replaces the middle while the limit `_SYSC_NUM_INVOKERS` is reached, and `Promote` is the
step of the synchronous mode to the next delta cycle.  In between calls running
processes do `Notify`, `Suspend`, `EndMethods`, `Disable` and `Enable`, and `sc_main` does
`NotifyByMain` between two `sc_start` (not before the first one: `prepare_to_simulate`
triggers and drops the delta events that are there when it initializes the processes,
`sc_simcontext.cpp:4885`; such notifications are not modelled).  The constants `Sync`, `Static`, `MainEvents`, `Controlled`,
`RunTime` and `MaxStarts` say which of this a program has.  Abstractions:

- ready processes are popped in any order (the code keeps a queue, in the order
  in which scheduling calls and lists of waiting processes happened to append them;
  RunnableLists is about that queue);
- whoever suspends while something else runs may leave the scheduling to it; that
  it is made up for is KernelRequests;
- the relaxation takes all changed processes in a step and looks at all pairs.
  PredictionHeap shows that the loop of the code, whose `push_heap` has no comparator,
  comes to the same result, DependencySets that the sets it walks miss nobody;
- a wait for one event is an OR list of one; at equal predicted times the definer
  is one at the smallest prediction distance;
- prediction mode (the default) and SC_RUN_TO_TIME only.

`DeltaCycle` is simulation in delta cycles: `Begin` runs a process of the current
cycle, a new cycle begins when the old one is over and at the earliest time at
which something is to be done.  `Cycles` in OoOSchedule is the refinement mapping.

### What the scheduler uses

| Module | Code | Actions |
|---|---|---|
| PredictionHeap | `predict_wakeup_time_by_waiting_threads` with the vector, `make_heap`, `pop_heap` and the `push_heap` without comparator | `Visit` takes the front of the heap and makes earlier whom it can notify |
| DependencySets | `update_dependency_set`, the parts of `prepare_to_simulate`, `method_invoker` and `push_runnable_*` that change the sets | `Suspend` (a thread enters a segment's wait), `Return` (a method), `PushRunnable`; `Late` are processes with `dont_initialize` |
| EventCancel | `sc_event::notify`, `cancel`, delivery and `clean_up_old_event_notifications` for one event | `Notify`, `Cancel`, `Wait`, `WaitTime`, `Schedule`.  History: `inForce` are the notifications that no cancel has reached, `took` what each process took last, and what it skipped |
| RunnableLists, ReadyQueue | `sc_runnable`: lists in a pointer per process that is null when not queued and another value at the end | `Prepare`, `Trigger`, `Conflict`, `Disable`, `Reset`, `EarlyReset` are the callers of push and remove, `Dispatch` pops; ReadyQueue is two sequences |
| PriorityQueue, TimedQueue | `sc_ppq_base`: array from index 1, growth by half, repair after an extraction | `insert`, `extract_top`; TimedQueue is a set of entries of which a least one is taken |

### Channels

`ChannelScheduler` is the synchronous scheduler as one blocking channel sees it:
processes of a cycle run until each has suspended, what was notified wakes those
that wait, and others come back from other waits.  Fifo, SimMutex and SimSemaphore
extend it.

| Module | Code | Actions |
|---|---|---|
| UpdatePhase, SignalSpec | `sc_signal::write` and `update` with the writer policies, `request_update`, `async_request_update`, `perform_update`, with the channel mutexes and that of the registry, a step for each access to the shared list | `Call`, `WriteStep`, `Suspend`, `UpdateStep` (the last process to suspend updates), `AsyncRequest` (a thread of the host).  SignalSpec: `Write`, `Sleep`, `Update`, `Wake` |
| Fifo, BoundedQueue | `read`, `write`, `nb_read`, `nb_write`, `update`, the ring buffer with its five counters | `Call` (Read, Write, NbRead, NbWrite), `Suspend`, `Update`, `Schedule`.  BoundedQueue: `Put`, `Take`, `NextCycle` |
| SimMutex, SimSemaphore | `lock`, `trylock`, `unlock`; `wait`, `trywait`, `post` | `Call`, `Suspend`, `Schedule`; every woken process looks again |
| ResolvedSignal | `write` with the search in `m_proc_vec` and the two `push_back`, each in its accesses; `update` with the resolution table | `Write`, `ReadSize`, `StoreProc`, `StoreVal`, `RequestUpdate`, `Suspend`, `Update`; `Parallel` says whether two writes overlap |

### Processes

| Module | Code | Actions |
|---|---|---|
| CorCreate | `sc_cor_pkg_pthread::create`, the entry of the new thread, `go`, and the kernel lock around them | `CreateStep`, `EnterKernel`, `LeaveKernel`, `go`, `ChildStep`; `By` names who creates whom, `Spurious` allows wake-ups without a signal |
| ProcessReset | `reset_changed`, `reset_process`, `semantics()`, the throw in the tail of `suspend_me`, what a thread does about it | `Write`, `WriteEarly`, `Update`, `Start`; `Wait`, `Trigger`, `Resume`, `Unwound`, `Begin`, `Enter`, `Ends`; `Check` and `reset_process` are the two halves of `sync_reset_on` and `off`; `Careful` keeps these calls apart |
| Join | `add_process`, `wait`, `wait_clocked`, `disconnect_process` with `remove_monitor` on a vector that keeps its storage | `add_process`, `wait`, `Tick`, `Return`, `Trigger`, `disconnect_process`; with `Early` threads end before they are waited for |
| ProcessLife | `reference_increment` and `decrement` in a load and a store, `delete_process`, the end of a thread | `Wake`, `Wait`, `Ends`, `Sleep`; `Copy`, `Drop`, `Load`, `Store`, `Test`; `Holder` are those who have handles |

### The main program

| Module | Code | Actions |
|---|---|---|
| SimStatus | `sc_start`, `simulate`, `stop`, `pause`, an exception of a process, `get_status`, what `sc_time_stamp` shows; a pass of the scheduler through the ready threads, in its accesses to the duration and the time | `sc_start`, `MainStops`; `Take`, `ReadTime`, `WriteTime`, `Decide` or `PutBack`, `EndPass` are the pass (`pass` says where it is), in any order of the threads; `Begin`, `WaitTime`, `WaitDelta`, `WaitEvent`, `Notify`, `Finish`, `Throw`, `sc_pause`; `CheckStop`, `CutDuration`, `SetTime`, `AddDelta`, `SetForced` are the steps of one `sc_stop`, which may come between those of a pass and of each other; `Return`.  With `Alone`, `sc_stop` is called only while no pass is under way and no other process has been issued or runs |
| Elaboration | `elaborate`, `end`, and `construction_done`, `elaboration_done` ... of the four registries | `Enter` a registry, `Callback` of one object, which may create and delete others (`Creators`, `Deleters`), `Stop` |
| PortBinding | `bind`, `insert_parent`, `complete_binding`, `make_sensitive`, `elaboration_done` | `Bind`, `make_sensitive`, `Complete`, `Expand` a port into its interfaces, `Finish`, `elaboration_done`; `Late` says who creates processes in callbacks |
| ReportHandler | `report` and `execute`, `add_msg_type`, the setters of rules, limits and masks, `initialize` | `Start`, `Add`, `Link`, `Load`, `Store` are the accesses of one report, `SetRule`, `Mask`, `Initialize`; `Serial` keeps two reports apart |

### Storage and values

| Module | Code | Actions |
|---|---|---|
| FreeList | `scfx_rep::operator new` and `delete`, with the local lock | `New`, `Check`, `Take`, `Advance`, `Link`; `Delete`, `Put` |
| MemPool | `sc_allocator::allocate`, `release` | `Allocate` and one action for each access; `Overlap` |
| Temporaries | `sc_vpool::allocate`, the selections that use it | `Select`, `Advance`, `Initialize`, `Use`, `Evaluated`; `Overlap` |
| FixedPoint | `scfx_rep::quantization`, `overflow`, `q_incr`, shifts, `get_bit`, `set`, `clear` on words of `WordBits` bits | an initial state is one assignment, with its flags; `Shift`, `Set`, `Clear` |
| BigInteger | operators of `sc_signed` and `sc_unsigned` and the routines on vectors of digits below them (`vec_add`, `vec_mul`, `vec_div_large` ...) with digits of `DigitBits` bits | a statement of the program: `Compute`, `Continue`, `Unary`, `Select` return a temporary, `Assign`, `Update`, `Shift`, `Bits` change the variable |

A constant such as `Overlap`, `Parallel`, `Serial`, `Careful` or `Alone` marks an operation that
the code does not protect.  The passing runs show what holds when calls do not
overlap; the other value shows what happens when they do, in the table
[below](#where-the-code-and-its-comments-disagree).

SimStatus is about threads: methods are not compared with the end of the period
(`Overdue` [below](#where-the-code-and-its-comments-disagree)).  A timestamp is read and
written at once, although it has two words.  `Alone` is a condition on programs: with one
simulation CPU and without methods every process runs alone, and otherwise a process that
stops the simulation has to be one with which no other is allowed to run.

## The runs

Components that do not interact are checked side by side: the state of
`MCStructures`, `MCProcesses`, `MCProgress` and `MCOoOPrograms` has a variable
`part`, which says which instance a behaviour is about, and `v1`, `v2` ... are the variables of
that one (the component about which there are theorems is extended, and has its own).
`Kept...` and `Unused...` hold the rest still.  A property of such a run is a conjunction
of `part = "x" => P` over the components; each `P` is explained where it is defined.

| Run | States | Shows | Bounds |
|---|---|---|---|
| `kernel_lock` | 76561 | LockSafety: kernel exclusion, no lost wake-up, `sc_main` alone, somebody awake.  ChannelSafety: channel exclusion, none held asleep, stacks, counters and mutexes agree | three interchangeable processes and the root, two nested channels, two nested kernel locks, two nested calls into a channel |
| `kernel_requests` | 12668 | RequestsSafety: the counter counts, whoever defers has an heir, no freeze, the queues say who is awake.  QueueStable: nobody changes a list that an invoker walks.  DeferredIsDone: a deferred pass is made | three threads, three methods, two invokers |
| `ooo_programs` | 68726 | NoDataRace, TakenInOrder, RunsInOrder, PredictionExact, StoppedIsQuiet, ForgottenIsStale of one program, the same over several programs and calls of `sc_start` (OrderKept, QuietWhenStopped, BegunInOrder), DeltaCycle implemented in the synchronous mode (CyclesKept), and Progress | seven programs of three or four processes; periods of 4 or 5; up to three calls of `sc_start` |
| `structures` | 878974 | TablesComplete of the dependency sets, TimedQueue implemented by the heap (QueueImplemented), nothing handed out twice or lost (StorageRight: scfx_rep nodes with two overlapping calls; the memory pool and the temporaries, which have no lock, one call at a time), SignalRight, ArithmeticRight of fixed-point numbers and integers; of the main program PortsRight, ElaborationRight, StatusRight, StatusSteps, ReportsRight | two threads and two methods with up to three segments; five timed notifications, the array grows three times; two processes at every pool; fixed-point words of two bits, up to four words, every rounding and overflow mode; integers of up to three digits of four bits and of ten bits, statements of up to two operators; three ports in a chain, five bindings; two objects of each kind; two processes and three calls of `sc_start`, once with stops by a process that runs alone (StatusRight, StatusSteps) and once (*stops*) with stops by any process at any time (RightUntilStop, EndOnce and TimeMonotone only); two reports and up to two settings |
| `processes` | 1479947 | the ready queue (QueuesRight, ListsImplemented), what is notified, cancelled and notified again (NotificationsRight: nothing in force is lost or passed by), create, reset, join and handles (ThreadsRight, StepsRight), mutex, semaphore and a fifo with two readers and two writers (LocksRight, StepsRight), UpdateRight, and SignalSpec implemented (EvaluateUpdate) | two, three or, at the fifo, four processes at every channel, four in the ready queue and in the heap, four joins on three threads, three coroutines |
| `progress` | 22701 | FifoSafe: no value is dropped, no blocked side forgotten.  BoundedFifo: BoundedQueue is implemented.  ChannelsProgress: blocking calls end.  ThreadsProgress: `create` returns, what is dispatched starts, joins return.  SimulationProgress: writes arrive, the prediction loop and the elaboration end | two processes at every component; a reader and two writers at the fifo of FifoSafe |

The parts of `ooo_programs`: *mixed*, three threads and a method with an AND list,
out of order; *alone*, the same at a limit of one, which is exceeded within an
iteration; *cyclic*, the synchronous mode with notifications by `sc_main`; *outlived*, the same
program out of order, with threads that are paused at the end of a call; *disabled*, with a
thread that is disabled and enabled at any moment; *shared*, three threads that share data
at a limit of two, under fairness; *plain*, three threads and a method in one period, with a
notification that is due after its end, which is a program as the theorem on StoppedIsQuiet
assumes it.

Bounds.  The hazards of the lock and request protocols are between two parties
and a third that is asleep (the one signalled), which the processes and a root
provide; a third process can overtake both.  For the scheduler, a wrong delivery needs
one process ahead, one behind and one waiting; the programs have that and a
fourth, whose prediction depends on another prediction.  A monitor queue is spoilt
by a signal that moves its last element, which needs three entries; a linked list by a
removal from its middle, which needs three as well; the array of the heap has to grow
once while it is full and once after extractions.  A carry that leaves a word and one
that leaves the array both occur with two-bit words.  The digits of an integer
are cut into halves for products and into bytes for quotients: with four bits a byte is one
bit, with ten bits it is three, and guesses are then corrected.  The theorems below remove these bounds for
the safety properties of the locks, the requests, the dependency sets, the update phase and
the fifo, and for three of those of the scheduler.

Symmetry is used only in `kernel_lock`, whose processes are interchangeable.  The deadlock
check is off where an out-of-order program ends; parts that come to an end in the
other modules (a join that has returned, an elaboration that is over) have a
stuttering step `Stopped` instead, so that a deadlock of any other part is found.

Fairness.

- `KernelRequests`: weak fairness of Request, Suspend and SuspendInvoker of
  each coroutine.  It says that a process reaches its next wait (SystemC has no
  preemption; a process that never waits stops any simulator) and that a thread
  which waits for a mutex that is released again and again gets it.  `End`,
  `Boundary`, `Notify` and `Start` have none: nobody has to notify or to end, and `sc_main`
  need not call `sc_start`.
- `OoOSchedule` (part *shared*): weak fairness of the steps of a scheduling call (its
  caller is running code) and of each thread's Suspend; none for Notify (a segment *may*
  notify) and Start.
- `MCProgress` groups the fair actions of its instances, so that of one group and one
  process each instance has one action, and fairness of the group is fairness of that
  action: *Proceeds*, *Suspends* and *Wakes* are strongly fair per process, *Steps*,
  *UpdateSteps*, *Triggers*, *Ticks* and, per thread, *Dispatches* and *Leaves* weakly, as are
  *Schedules* and *Updates* of the scheduler.  Strong fairness is needed where a process competes
  for a mutex or is disabled by each other process's turn: it says that the host
  schedules every thread and that the simulated program goes on calling its side of a
  channel and lets go of a mutex.  Nobody has to call `lock()`, to post, or to end.

## Where the code and its comments disagree

Six runs expect a violation; the comments contradicted are quoted in `PROJECT.json`.

| Run | What happens |
|---|---|
| `halt_freeze` | A clocked thread that calls `halt()` suspends without the `num_kernel_requests++` of every `wait()`.  The counter goes to -1, `suspend_me` schedules only at 1, and nobody ever does: `sc_start` does not return. |
| `ooo_limit` | One iteration of the dispatch loop issues a method and a thread without looking at the limit in between.  When one of them calls the scheduler the limit is still reached, so nothing is delivered, but the clean-up still runs and deletes a notification that a waiting process was never offered. |
| `ooo_static` | A process with `dont_initialize` starts in the wait state with an infinite predicted wake-up time that no pass recomputes: it takes the first notification in real time although an earlier one in simulated time follows. |
| `ooo_and_list` | A process that got one event of an AND list keeps a predicted time that is already past and blocks the only ready process: `sc_start` returns with a process that could run. |
| `ooo_paused` | At the end of `sc_start` the clean-up does not count paused processes; it deletes a notification for after the end that its waiter could not take yet. |
| `integer_or` | The operands of operator\| are combined in two's complement of the wider of the two, and a `uint64` counts 64 bits, with no room for a sign: `sc_biguint<8>(1) \| 0x8000000000000000` is negative, where the comment says "u \| v => sgn = +". |

Each of the first five needs a particular program.  The passing parts have AND lists, a limit that is
exceeded and a pause as well, but not the combination that does the harm: the process
of *mixed* with an AND list touches no shared data after it, and ForgottenIsStale is
checked for *mixed* only.

The constants of the other modules reach more such cases.  They are not in the list of runs;
each can be repeated with an instance like the one in the MC module and the constant
changed as said, and TLC then refutes the property in the third column.  The programs
are defined in `MCOoOSchedule` (and take a cfg like `MCOoOLimit.cfg`).

| Module | Constant | Refuted | What the code does |
|---|---|---|---|
| OoOSchedule | `Program <- Timing` | TakenInOrder | every pending timed event is triggered by the next call of the scheduler, so a timeout beats an earlier notification (`sc_simcontext.cpp:1680`) |
| OoOSchedule | `Program <- Overdue` | NothingBeyond | methods are not compared with the end of the period (`sc_simcontext.cpp:1848`) |
| OoOSchedule | `Program <- Dying` | PredictionExact | a thread that has ended is predicted to be woken, and its last segment to notify others, who are then predicted too early (`sc_thread_process.cpp:167`, `sc_simcontext.cpp:2417`) |
| OoOSchedule | `Program <- Disabling`, `Controlled = {"b"}` | CallEnds | a delivery to a disabled process counts as one, and the loop of deliveries finds it again for ever (`sc_simcontext.cpp:2851`) |
| OoOSchedule | the same | NoneLeftReady | a disabled process whose timer expires stays at its old timestamp and blocks others (`sc_thread_process.cpp:1096`) |
| EventCancel | | TakenNotCancelled | `cancel` leaves the timestamps; the next `notify` lists them again (`sc_event.cpp:126`) |
| EventCancel | | StillListed | a process that is ahead cancels and takes the event out of the list, although a notification for an earlier time is in force and a process behind waits for it (`sc_event.cpp:131`) |
| PredictionHeap | | FirstIsEarliest | the heap is pushed to by address; the result is right, at the price of visits (`sc_simcontext.cpp:2464`) |
| DependencySets | a thread in `Late` | DependentComplete | a thread that still waits for the first time is not told of methods that wait (`sc_simcontext.cpp:4821`) |
| RunnableLists | a process that is not lazy in `Early` | QueuedOnce | an asynchronous reset before `sc_start` queues a process that is queued again without a look (`sc_simcontext.cpp:4876`) |
| UpdatePhase | an `External` thread, `MaxAsync > 0` | AsyncServed | the update phase locks the registry mutex that it holds (`sc_prim_channel.cpp:184`) |
| UpdatePhase | | EventIsFresh | nobody increments the change stamp: `event()` stays true (`sc_signal.h:298`) |
| UpdatePhase | `Policy` "many" | NoDeltaConflict | a write of the current value is not recorded and withdraws another's (`sc_writer_policy.h:96`) |
| ResolvedSignal | `Parallel = TRUE` | DriversKnown | two first writes mix up the two vectors (`sc_signal_resolved.cpp:104`) |
| CorCreate | `By` another coroutine | CreateReturns | the creator waits for the new thread while it owns the mutex which that thread takes first (`sc_spawn.h:128`) |
| CorCreate | `Spurious = TRUE` | NoLostStart | `pthread_cond_wait` is not repeated (`sc_cor_pthread.cpp:254`) |
| ProcessReset | `Careful = FALSE` | CountExact, NoReturnInReset | two calls of `sync_reset_on` test and set, or one overwrites the throw status of a running process (`sc_process.cpp:536`, `sc_process.h:1191`) |
| Join | `Early = TRUE` | JoinReturns, QueueEmptied | a thread that has ended, or ends before `wait()`, is waited for (`sc_join.cpp:83`) |
| Join | a thread twice in `Adds` | CountExact | all entries of the join are removed, one is counted (`sc_thread_process.h:900`) |
| ProcessLife | processes in `Holder` | CountExact, InUseExist, ListedExist, Collected | counts are plain integers, an object may be deleted while its thread runs, stays in `m_all_proc`, and what is put aside is never collected (`sc_process.h:1149`, `sc_process.cpp:196`, `sc_simcontext.cpp:5332`, `sc_process.cpp:206`) |
| SimStatus | `Alone = FALSE` | TimeWithinPeriod, NotBehind, StopHolds | one call of `sc_stop` is enough: a scheduling pass has compared a thread with the end of the period and writes its later timestamp into the time (`sc_simcontext.cpp:1884-1887`) after `stop` has assigned both (`sc_simcontext.cpp:5201`), or issues the thread before the end moves (1896); then the assertion at `sc_simcontext.cpp:6452` fails, or a thread runs beyond the stop.  Two calls can also leave the time of one with the duration of the other |
| SimStatus | | RunningIsRunning | after the first period the status says paused (`sc_simcontext.cpp:2024`) |
| SimStatus | "pause" in `Calls` | PauseHolds | nobody reads `m_paused` (`sc_simcontext.h:1250`) |
| SimStatus | "main stop" in `Calls` | NoCrash | `sc_stop` by `sc_main` asks for the timestamp of no process (`sc_simcontext.cpp:5200`) |
| Elaboration | "port" in `Creators` | CalledOnce | ports and exports count what their callbacks create as done (`sc_port.cpp:678`) |
| Elaboration | `Deleters` not empty | Elaborated | a registry that shrank is never done (`sc_prim_channel.cpp:340`) |
| PortBinding | `Late = "modules"` or `"ports"` | SensitivityExact | event finders are ignored, or lists are filled that nobody reads any more (`sc_port.h:591`, `sc_port.cpp:379`) |
| PortBinding | a negative `MaxSize` | ErrorJustified | only 0 means no maximum (`sc_port.cpp:171`) |
| PortBinding | | CountReached | a parent counts as one interface (`sc_port.cpp:215`) |
| ReportHandler | `Serial = FALSE` | CountsExact | counters are incremented without a lock (`sc_report_handler.cpp:229`) |
| ReportHandler | `MayReset` with `Predefined` types | CountsExact | the counters of predefined types are not reset (`sc_report_handler.cpp:337`) |
| ReportHandler | | FatalStops | the limit of SC_FATAL is not 1 (`sc_report_handler.cpp:683`) |
| MemPool | `Overlap = TRUE` | CellUsedOnce | no mutex (`sc_mempool.cpp:123`) |
| Temporaries | `Overlap = TRUE` | MeansWhatWasSelected | a static vector without a mutex (`sc_temporary.h:190`) |
| FixedPoint | a source whose words are all ones above the rounded one | CastAlwaysRight | a carry through further words is lost when it leaves the array (`scfx_rep.h:771`) |
| BigInteger | | ShiftExact | a temporary may have no room for its sign, such as minus the least number of a width or a sum with a `uint64`; a shift to the left of it takes its highest bit for the sign (`sc_nbcommon.inc:1732`) |
| BigInteger | | ZeroMinus | `v -= u` with `v` zero casts the `uint64` to `int64` before the negation (`sc_nbcommon.inc:623`) |

## The proofs

| Module | Theorems | Argument |
|---|---|---|
| `KernelLockProof` | LockSafety and ChannelSafety, with every invariant they consist of, for any processes, channels and nesting | `LockInv`: exclusion, balanced count, and a correspondence of the running queue with the places of the threads (`RunningPlaces`) and of the root with the running queue being empty (`RootPlaces`).  Neither NoLostWakeup nor RootAlone is inductive without these: that the root is signalled follows only from the emptiness of the queue.  Then, on top of it, `ChannelInv`: stacks are ordered by rank, so no channel is on one twice, and a mutex is owned by a process exactly where its stack and place say. |
| `KernelRequestsProof` | RequestsSafety, its conjuncts, and QueueStable, for any threads, methods and invokers, if nobody halts | `RequestsInv`: the announced coroutines are finitely many and counted; queues hold only methods of their invoker; what is pending is not running; whoever defers leaves an heir.  `ScheduleEffect` and `DeferEffect` say once what a scheduling call and a deferral do, `ThreadLeaves` and `InvokerLeaves` what remains of the queues. |
| `OoOScheduleProof`, first part | timestamps are linearly ordered, addition is monotone, a set of timestamps has an earliest; TypeOK of OoOSchedule for every program and any tables; a disabled process that waits for events goes on waiting | the earliest exists because the order is well-founded: the least time, then the least delta among those.  The rest per action; the substance of the types is that a woken or timed process always gets a finite timestamp: `Takes` compares with `Before`, which is false for "never". |
| `OoOScheduleProof`, second part | NoDataRace and RunsInOrder for every program with sound tables, any limit and any number of periods, in both modes; TakenInOrder for one period | see below. |
| `OoOScheduleProof`, third part | StoppedIsQuiet for one period of every plain program with sound and tight tables; for the same programs, what is forgotten of the period is stale, and TakenInOrder holds in the period without a condition on what is forgotten | see below. |
| `DependencySetsProof`, first part | TablesComplete and its three parts, for any processes and tables, if no thread is late | every thread has checked the segment it is in; that `DependentComplete` is preserved by a method's return needs that a waiting thread has entered the method into its set when it suspended, which fails exactly for late threads. |
| `DependencySetsProof`, second part | QueuedOnce, RunnableIsQueued and that the linked lists implement ReadyQueue (ListsAreQueue), for any finite set of processes, if an asynchronous reset before the start reaches only processes with `dont_initialize` | `ListsInv`: the pointers represent two sequences (`Encodes`), and who is still to be queued by `prepare_to_simulate()` is in neither.  The refinement reads the sequences off the pointers, so `ChainIs` shows that following them for as many steps as there are processes gives back any sequence they represent; each operation is then shown to lead from one representation to another (`PushBackStep` to `PopStep`).  What can go wrong there is the removal: the predecessor that is found must be the one in the same list, and the tail must follow when the last process goes (`DropFirst`, `DropLater`). |
| `ChannelProof`, first part | types, nothing dropped, FifoSafe, and that the ring buffer implements BoundedQueue, for any size, readers, writers and values | `IInv`: the write index is the read index plus what is in the ring, modulo the size, and the counters of the cycle add up.  The refinement maps the queue to the cells from the read index on.  For the wake-ups, `Requested`: what was read or written in this cycle has made the channel ask for its update, which will notify. |
| `UpdatePhaseProof` | WritersExclude, UpdateRight (types, ListExact, NoLostWrite, ChangersAlone, OneWriter) and that UpdatePhase implements SignalSpec (EvaluateUpdate), for any processes, channels, buffers, policies, values and requests from outside | `UpdateInvariant`: where everybody can be relative to the update phase (`PlacesOK`), which mutexes a process owns there and what is on its stack (`LocksOK`), and that every channel on the list has a rank, counted from its end (`ListOK`); the channel that is being entered is in hand, not on the list.  ListExact speaks of following the pointers: `FollowedList` shows that the ranks determine what is met, and that the channels suffice for it.  At `list_end` no channel is requested, so by NoLostWrite the new values are the current ones: `WalkEnds`, the step of the refinement that is not obvious. |
| `ChannelProof`, second part | SimMutex and SimSemaphore: exclusion, or no more calls passed than there were units; nobody waits beside a free mutex or a unit unless a notification is on its way; for any number of processes | the properties are inductive together, for the semaphore with the equation of its counter: each call is one critical section of the channel, and a delivery wakes all who wait. |
| `KernelLockProof`, second part | CorCreate: Dormant, NoLostStart, Exclusive, for any coroutines and whoever creates each of them, if `pthread_cond_wait` returns only after a signal | `CreationInv`.  Exclusive says who owns the mutexes, and that is inductive only together with who creates whom: never two threads are in `create()` (`OneCreator`), because sc_main creates before it ever enters the kernel (`AfterMain`) and a process inside its kernel lock; so the signal of the new thread wakes its own creator (`HandOver`), which cannot return before it, and the new thread has the scheduler mutex before the creator gets `create_mutex`. |
| `KernelLockProof`, third part | ProcessLife: InUseExist and NothingForgotten (LivesSafe), for any processes and handles, if only `sc_main` copies and drops handles | `LifeInvariant`: whoever counts does so alone (`CountsAlone`), since `sc_main` counts while no process is under way and a process only the end of its own reference, in the kernel; so what it has loaded is still the count when it stores (`CountRight`), and an object that is brought to zero is neither in use by a handle nor by its thread. |
| `ChannelProof`, third part | Join: JoinedHaveEnded, CountExact and QueueEmptied (JoinsSafe), for any threads, joins and registrations | `JoinInvariant`: a queue holds, once each, the joins that have registered its thread.  The loop of `disconnect_process` takes elements out of the vector it runs over: `LoopRight` says what it has done after k of them, `BodyStep` that one more is signalled although the last element is moved into a place that may have been passed already.  That the recursive function of the model exists for every length is `LoopRuns`, by the least length for which it would not. |
| `KernelRequestsProof`, last part | SimStatus, for any processes, durations and bounds, in both stop modes.  Whatever passes and calls of `sc_stop` do between the steps of each other: EndOnce, TimeMonotone and RightUntilStop (TimeWithinPeriod and NotBehind until somebody calls it).  If every caller of `sc_stop` runs alone: TimeWithinPeriod, NotBehind and StopHolds throughout | `StatusInv`: what can still run is not behind the time that sc_main has seen (`Grown`); the end of the period is behind all that run in it and not behind what is paused (`PeriodRight`); where processes can be during a pass (`Places`).  Whatever is mixed up, the duration and the time that `stop` and a pass write are timestamps of processes that were not behind: that is `Grown`, and TimeMonotone with it.  The rest of `Grown` and PeriodRight are claimed only while it is `Calm`: nobody has called `sc_stop`, or its callers run alone.  `CallRight` says how far that one call has come, and that everything paused is later than its caller, which is why the shorter period still ends before the paused processes. |
| `EventCancel` | types, ListedHasType, NothingLost, TakenEarliest and NotForgotten, in any program, also if it notifies a cancelled event again | `SinceLeast`: a set of times has a least one, by the well-founded order.  `Forgets`: a sleeper that is not past what the clean-up deletes would take an earlier notification, or somebody awake is behind that one, and then what is deleted is not older than him.  So what is in force leaves the timestamps only when every clock, and clocks only grow (`ClocksGrow`), is past it; and whoever takes one has chosen among all that are in force for him (`Inductive`). |
| `ProcessReset` | CountExact, NoReturnInReset and NoResetWithoutCause, for any processes, signals and resets, if the calls of `sync_reset_on` and `sync_reset_off` are careful | The counters are changed by the numbers of resets that rise and fall: `CountChange` is the arithmetic of cardinalities that makes them exact again.  `ThrowRight`: the throw status agrees with the causes wherever the process runs or waits, and `ComputedRight`, that what `semantics()` has read is still so when it is assigned.  `CallRight`: what a call has read of `m_sticky_reset` holds until it writes, which only careful calls guarantee. |

**Why running ahead is safe** (`OoOScheduleProof`, second part).  `has_no_conflicts` looks once, when a
process is dispatched, at two tables and at the predicted wake-up times; while the
process runs the others go on, and nobody looks again.  NoDataRace alone says nothing
of those others, so it is far from inductive.  `OrderInvariant` has two layers.

- *Predictions.*  `Predicted`: no waiting process is woken up before its `pwt`, by an event
  that has been notified or by any process that goes on from where it is, through the
  table.  That is true only after a prediction pass; before it, what is left of it is
  `KeptSound`, which excepts the processes that have begun to wait since (`newWaiting`), and
  while the pass propagates times, those whose own time has just changed.
  `PredictionsSound` is the step that matters: the processes outside the defining tree keep
  their old times, and these are still true because whatever defined them has not
  begun to wait (`DefiningTree` is stated as a least closed set for this proof).
- *Certificates.*  A dispatch at time t is justified by a function L, the time from
  which each process counts, such that L bounds all that each process will ever do
  (`Bounds`) and nobody who is before t touches the data before t (`HazardsAfter`).
  `DispatchSafe`: the predictions are such a function.  Afterwards the predictions change,
  but the *existence* of L is preserved by everything: by wake-ups (`Unhurried`), by
  notifications (`SafeNotify`: the table had them) and by the end of a segment (`SafeEnd`: L
  moves on by what the tables count).  So a certificate given once holds for ever, and
  nobody dispatched later clashes with who holds one.

RunsInOrder keeps the certificate of the last run of every segment after the process has
left it.  TakenInOrder uses the same functions with the other table: when a process
takes a notification, nobody can notify the event for an earlier time any more (`Silent`),
and what was forgotten is older than everything that still counts (`ForgottenOld`).

**Why nobody is left behind** (`OoOScheduleProof`, third part).  `sc_main` continues when a
dispatch finds nothing to run.  Who is ready then would have had to be put back because of
somebody else, and who waits has to wait for nothing: that needs that predictions are not too
*early* either, of which the two layers above say nothing.  `QuietInvariant` adds three more.

- *Reasons.*  `Grounded`: a predicted time is "never", or that of a notification, or the
  process' own timestamp, or the one that its `definer` gives it through the table.
  `Founded` says so at any time, except of what the next prediction pass recomputes;
  `Offered`, that when the deliveries are over everything is grounded and nobody could take
  an event.  `PredictionsGrounded`: the processes that the pass leaves alone keep their
  reason because the defining tree is closed (`TreeClosed`).
- *Certainty.*  A process that has just been woken up is not expected before its own
  timestamp (`ReadyRight`).  It took its notification at a time b because nobody could
  notify an earlier one; `TakenSure` remembers the function L of that moment, and L is a
  bound for every prediction made until the process is dispatched (`SureBound`).
- *Causes.*  `Cause`: whoever is expected at a time is expected, in the end, because of a
  process that does not wait and is earlier.  Reasons lead from one process to an earlier one,
  as tight tables add more than nothing, so the least of all predicted times, which exists
  because times are well-founded, has a reason that is not another prediction
  (`LeastReason`); and that one is earlier than all the others, too.

So the earliest process that is ready has nothing before it: it cannot have been put back
(`Blocked`, `NobodyBefore`), and when `sc_main` continues nobody is ready and everybody is
expected after the end.  The other half is that no notification for the period is
missing: `ForgottenDue`, by the same lemma, as `clean_up_old_event_notifications` looks at
nobody that waits, but whoever could still take what it deletes is expected later than
somebody it does look at.  This is also why ForgottenIsStale holds within the period
(ForgottenInPeriodIsStale), and with it TakenInOrder without having to assume it.

The hypotheses are those without which the code does not have the properties, the
contract of the compiler, or (`PlainUse`) how far the argument goes:

| Hypothesis | Theorems | Why |
|---|---|---|
| `TablesSound` | all | the contract between compiler and scheduler; TLC evaluates it for each of the seven programs of `ooo_programs` |
| `DOMAIN Static = {}` | all | a process that waits from the start has no predicted time (`ooo_static`) |
| `MainEvents = {}` | RunsInOrder, TakenInOrder | what `sc_main` notifies between two periods is in no table, and processes have run past the end of the last one |
| `TimesAlone` | TakenInOrder | a timeout beats an earlier notification (`Timing` in the table above) |
| `MaxStarts <= 1`, ForgottenIsStale | TakenInOrder | the clean-up deletes what somebody waits for after a pause (`ooo_paused`) and at the limit (`ooo_limit`); ForgottenIsStale is an action property that TLC checks for *mixed* |
| `TablesTight` | StoppedIsQuiet and the two theorems with it | the rest of the contract: whoever is woken wakes up later than what notifies it, and the table has no entry for a process that waits for a time only or has ended, as no event wakes it; the row of a dead process is read on (`Dying` in the table above) |
| `PlainUse` | the same | one period, out of order, below the limit, no AND lists, nobody disabled: after a pause, a notification by `sc_main` or a dispatch beyond the limit there are predicted times that nothing justifies any more.  Methods run the same segment again and touch no shared data, since one is paused at the end of the period only if it could be put back |

The program *mixed* satisfies those of NoDataRace, RunsInOrder and TakenInOrder, *plain* those
of StoppedIsQuiet, *alone*, *disabled* and *shared* those of RunsInOrder, *cyclic* and *outlived* those of NoDataRace: that theorem covers AND lists, timeouts,
disabled processes, pauses, any limit and the synchronous mode.  StoppedIsQuiet is checked
beyond `PlainUse` for *mixed*, *alone*, *cyclic*, *outlived* and *shared*: the first by its
name, the others in QuietWhenStopped.

Assumptions. `KernelLockAssumption`: the root is not a process, the constants have their
types. `KernelRequestsAssumption`: finitely many threads, methods and invokers, disjoint.
`OoOScheduleAssumption`: the program and the tables have their types, and the data conflicts
are symmetric and in the table. `FifoAssumption`: the size is positive.
`DependencySetsAssumption`: threads and methods are different and the tables are relations
between segments. `ListAssumption`: the end mark, the null pointer and the head of the push
list are different and none of the processes, of which at least one is initialized.
`UpdatePhaseAssumption`: finitely many channels, and the null pointer, `list_end`, the
registry and sc_main are none of the channels and processes. `MutexAssumption` and
`SemaphoreAssumption`: there is one event, and "no owner" is not a process.
`CorCreateAssumption`: sc_main is none of the coroutines and each of them has one creator.
`EventCancelAssumption` and `StatusAssumption`: the bounds are numbers. `TargetAssumption`:
finitely many entries of resets, of the right types. The theorems on KernelRequests are
about `Spec`, in which no thread calls `halt()`, those on DependencySets assume that no
thread is in `Late`, the one on CorCreate `~Spurious`, those
on ProcessReset `Careful`, StopsHold on SimStatus `Alone`, those on RunnableLists
`EarlyIsLazy`, that on Join `JoinsOnce` (nobody joins a thread twice, and threads end after
`wait()` has begun), that on ProcessLife `MainHolds`; the instances of the passing runs satisfy
all of these, and the theorems are false without (`halt_freeze`, and the table above).

Only model-checked: liveness (DeferredIsDone, Progress and the run `progress`), which the
prover does not reach; that the incremental prediction is exact (PredictionExact,
QueuesRight), which holds for the seven programs but not for every one (`Dying` in the table
above) and is an induction over the computation of a fixpoint; StoppedIsQuiet of programs
that are not plain; CountExact of ProcessLife, whose sum is a fold (the invariant above says the
same with the handles of `sc_main` only); ForgottenIsStale of notifications that are due after the end of the
period (false after a pause, `ooo_paused`); that the synchronous mode implements
DeltaCycle (CyclesKept), for the same reason; and the properties of all modules that are not
in this table.

## What is not modelled

- **`sc_process_table::remove`** is never called; **kill, throw_it, suspend, resume** and the
  constructor of **`sc_event_queue`** stop the program in this version (`assert(0)`); the old
  **crunch and cycle** are compiled out.
- **`sc_clock`** notifies its first edge from the elaboration, where there is no current
  process to take a timestamp from; its later edges are timed notifications as any other.
- **The mode without prediction** and the yield of the former scheduler, which the default
  build does not use; the abort of coroutines at the end of the program.
- **`sc_time`** conversion and resolution; **names, attributes, the object tree** and the stack of modules
  under construction; **tracing**, the text and the log file of **reports**: sequential,
  and no property here depends on them.
- **Bit and logic vectors, integers of up to 64 bits, arithmetic of fixed-point numbers,
  conversion of numbers to and from strings, concatenations and packed representations**: by far
  the largest part of the sources by lines, inherited unchanged, sequential functions of their
  arguments for which tests against reference values are the better tool.  What
  processes share below them (free lists, pools, temporaries) is modelled, and so are
  rounding, overflow, single bits and the arithmetic of long integers, where words and
  carries interact.  Of the latter two calls are left out that are undefined in C++: the
  negation of the least `int64`, and `x -= 2^63` for an `x` of zero.
- **QuickThreads, fibers, Boost, the host mutex**: alternatives for other platforms,
  vendored headers, and a wrapper of a POSIX mutex.

For these reasons the definitions stand for a small share of all lines of the
repository: most of the lines are in what this list names, generated mask tables
and vendored headers included.
