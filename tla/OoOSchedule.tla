----------------------------- MODULE OoOSchedule -----------------------------
(* The out-of-order scheduler.  Every process has its own timestamp and runs *)
(* ahead of the others when that cannot be observed: oooschedule delivers an *)
(* event to a waiting process only if no other process can still notify it  *)
(* earlier (the predicted wake-up time, PWT), and dispatches a ready process *)
(* only if no earlier process can still touch the data it uses.             *)
(*                                                                          *)
(* The simulated program is a constant: processes walk through segments,    *)
(* the code between two waits, and each segment may notify some events and  *)
(* ends in one wait.  What the compiler of the simulator knows about it is  *)
(* in the tables Predict and Hazard.  One oooschedule call is a sequence of *)
(* steps (phase says which), during which the caller has the kernel lock.   *)
EXTENDS Timestamp

CONSTANTS
    Thread, Method, Event,
    Invoker, InvokerOf,     \* the invoker threads, method_to_invoker_map
    NumInvokers,            \* _SYSC_NUM_INVOKERS, the limit on what runs at once
    Segment,
    First,                  \* the first segment of each process
    Static,                 \* m_sensitivity_events of the dont_initialize processes
    WaitOf,                 \* the wait at the end of a segment: kind, events, time
    NextOf,                 \* the segment that follows it
    MayNotify,              \* <<event, delay>> pairs a segment may notify
    Clash,                  \* pairs of segments that touch the same data
    Predict,                \* prediction table: <<from, to>> -> earliest wake-up
    Hazard,                 \* combined data conflict table: <<from, to>> -> earliest touch
    RunTime, MaxStarts,     \* duration of a sc_start, number of calls of it
    MainEvents,             \* events that sc_main notifies between two calls, and nobody else
    Controlled,             \* the processes that sc_main or others disable and enable
    Sync                    \* _SYSC_SYNC_PAR_SIM: the synchronous mode, in delta cycles

Process == Thread \cup Method
None == "none"      \* definer of a wake-up time that comes from an event

ASSUME OoOScheduleAssumption ==
    /\ IsFiniteSet(Process) /\ Thread \cap Method = {} /\ None \notin Process
    /\ InvokerOf \in [Method -> Invoker]
    /\ First \in [Process -> Segment] /\ NextOf \in [Segment -> Segment]
    /\ DOMAIN Static \subseteq Process
    /\ \A p \in DOMAIN Static : Static[p] \subseteq Event
    /\ RunTime \in Nat /\ MaxStarts \in Nat
    /\ MainEvents \subseteq Event /\ Controlled \subseteq Process /\ Sync \in BOOLEAN
    /\ \A s \in Segment :
        /\ WaitOf[s].kind \in {"OR", "AND", "TIME", "END"}
        /\ WaitOf[s].events \subseteq Event /\ WaitOf[s].time \in Nat
        /\ MayNotify[s] \subseteq Event \X Nat
    /\ \A s1, s2 \in Segment :
        /\ Predict[<<s1, s2>>] \in AnyTimestamp /\ Hazard[<<s1, s2>>] \in AnyTimestamp
        /\ <<s1, s2>> \in Clash => <<s2, s1>> \in Clash /\ Hazard[<<s1, s2>>] = <<0, 0>>

VARIABLES
    state,      \* m_process_state: ready 1, run 0, wait 2, timed 3, dead 4, paused 5, queued 32
    ts,         \* m_timestamp
    seg,        \* the segment a process runs, or will run when it is resumed
    waits,      \* the events in whose dynamic lists a process is
    all,        \* m_trigger_type is AND_LIST
    due,        \* deadline of a timed wait, or wake_up_time_for_event_list
    disabled,   \* ps_bit_disabled of m_state
    todo,       \* what the running segment has not notified yet
    notified,   \* m_notify_timestamp_set of each event
    pwt,        \* possible_wakeup_time
    definer,    \* PWT_defining_proc
    newWaiting, \* new_waiting_proc
    changed,    \* mod_wakeup_proc
    running,    \* running_invokers
    phase,      \* where oooschedule is
    byRoot,     \* the root thread called it, from simulate
    tried,      \* conflict_methods and conflict_threads
    duration,   \* m_simulation_duration
    starts,     \* calls of sc_start so far
    hist,       \* history: every notification of each event
    last,       \* history: the last wait of each process that an event ended
    latest      \* history: the latest dispatch of each segment

program == <<ts, seg, waits, all, due, disabled, todo>>
prediction == <<pwt, definer, newWaiting, changed>>
control == <<running, tried, duration, starts>>
history == <<hist, last, latest>>
vars == <<state, program, notified, prediction, phase, byRoot, control, history>>

TypeOK ==
    /\ state \in [Process -> {"ready", "run", "wait", "timed", "dead", "paused", "queued"}]
    /\ ts \in [Process -> FiniteTimestamp]
    /\ seg \in [Process -> Segment]
    /\ waits \in [Process -> SUBSET Event]
    /\ all \in [Process -> BOOLEAN]
    /\ due \in [Process -> FiniteTimestamp]
    /\ disabled \subseteq Controlled
    /\ todo \in [Process -> SUBSET (Event \X Nat)]
    /\ \A p \in Process : todo[p] \subseteq MayNotify[seg[p]]
    /\ notified \in [Event -> SUBSET FiniteTimestamp]
    /\ pwt \in [Process -> AnyTimestamp]
    /\ definer \in [Process -> Process \cup {None}]
    /\ newWaiting \subseteq Process /\ changed \subseteq Process
    /\ running \subseteq Invoker
    /\ phase \in {"idle", "timers", "predict", "relax", "deliver", "promote", "dispatch", "thread", "stopped"}
    /\ byRoot \in BOOLEAN
    /\ tried \subseteq Process
    /\ duration \in FiniteTimestamp /\ starts \in 0..MaxStarts

In(s) == {p \in Process : state[p] = s}

(* Before the first sc_start.  The processes with a static sensitivity and  *)
(* dont_initialize wait for it, the others are ready.                       *)
Init ==
    LET asleep == DOMAIN Static
    IN  /\ state = [p \in Process |-> IF p \in asleep THEN "wait" ELSE "ready"]
        /\ ts = [p \in Process |-> <<0, 0>>]
        /\ seg = First
        /\ waits = [p \in Process |-> IF p \in asleep THEN Static[p] ELSE {}]
        /\ all = [p \in Process |-> FALSE]
        /\ due = [p \in Process |-> <<0, 0>>]
        /\ disabled = {}
        /\ todo = [p \in Process |-> {}]
        /\ notified = [e \in Event |-> {}]
        /\ pwt = [p \in Process |-> Infinite]
        /\ definer = [p \in Process |-> None]
        /\ newWaiting = {}
        /\ changed = {}
        /\ running = {}
        /\ phase = "stopped"
        /\ byRoot = FALSE
        /\ tried = {}
        /\ duration = <<0, 0>>
        /\ starts = 0
        /\ hist = [e \in Event |-> {}]
        /\ last = [p \in Process |-> {}]
        /\ latest = [s \in Segment |-> <<0, 0>>]

-----------------------------------------------------------------------------
(* The tables                                                               *)

(* A table counts 0:1 for a wait that an event ends.                        *)
Advance(wait) ==
    CASE wait.kind = "END" -> Infinite
      [] wait.kind = "TIME" /\ wait.time > 0 -> <<wait.time, 0>>
      [] OTHER -> Delta

(* What the scheduler relies on: a table never promises more than the       *)
(* segment itself can do or than the segments that follow it, and the       *)
(* prediction table has every notification of an event that ends the wait   *)
(* before a segment.                                                        *)
TablesSound ==
    \A s, t \in Segment :
        /\ \A table \in {Predict, Hazard} :
              ~Before(Plus(Advance(WaitOf[s]), table[<<NextOf[s], t>>]), table[<<s, t>>])
        /\ \A u \in Segment : \A n \in MayNotify[s] :
              NextOf[u] = t /\ n[1] \in WaitOf[u].events =>
                  ~Before(Plus(<<n[2], 0>>, Delta), Predict[<<s, t>>])

(* And what keeps the predictions from being too early: a notification takes*)
(* time to wake somebody up, none ends a wait for a time, and a process that*)
(* has ended, whose row the scheduler goes on reading, causes nothing.      *)
TablesTight ==
    \A s, t \in Segment :
        /\ Before(<<0, 0>>, Predict[<<s, t>>])
        /\ WaitOf[s].kind = "TIME" => Predict[<<t, NextOf[s]>>] = Infinite
        /\ WaitOf[s].kind = "END" => Predict[<<NextOf[s], t>>] = Infinite

(* One sc_start of a program that runs out of order and never reaches the   *)
(* limit, in which processes wait for one of several events or for a time,  *)
(* nobody is disabled or asleep from the start, and a method is one segment *)
(* that runs again and again and touches no shared data.                    *)
PlainUse ==
    /\ ~Sync /\ Controlled = {} /\ MainEvents = {} /\ MaxStarts <= 1 /\ DOMAIN Static = {}
    /\ IsFiniteSet(Invoker) /\ NumInvokers \in Nat
    /\ Cardinality(Thread) + Cardinality(Invoker) < NumInvokers
    /\ \A s \in Segment : WaitOf[s].kind # "AND"
    /\ \A m \in Method : /\ NextOf[First[m]] = First[m]
                         /\ \A s \in Segment : Hazard[<<s, First[m]>>] = Infinite

-----------------------------------------------------------------------------
(* Predicted wake-up times                                                  *)

(* get_earliest_time_after_certain_time                                     *)
NextNotification(e, t) == Earliest({x \in notified[e] : ~Before(x, t)})

(* The earliest notification p can take, and the events that have it        *)
(* (predict_wakeup_time_by_events).                                         *)
EventTime(p) == Earliest({NextNotification(e, ts[p]) : e \in waits[p]})
EventsAt(p) == {e \in waits[p] : Same(NextNotification(e, ts[p]), EventTime(p))}
ByEvent(p) == IF state[p] = "wait" THEN Plus(EventTime(p), Delta) ELSE Infinite

(* The time from which q counts in a prediction, for the wake-up times w,   *)
(* and the earliest time at which p can then wake up because of q.          *)
Source(q, w) == IF state[q] = "wait" THEN w[q] ELSE ts[q]
Via(q, t, p) == Plus(t, Predict[<<seg[q], seg[p]>>])

(* Faulty: only the processes that have entered a wait themselves.          *)
DefiningTreeRoots == newWaiting

(* The processes whose wake-up time is stale: those that have just entered  *)
(* a wait and, transitively, those whose time was defined by one of them    *)
(* (predict_wakeup_create_defining_tree).                                   *)
DefiningTree ==
    LET Closed(T) == newWaiting \subseteq T /\ \A p \in Process : definer[p] \in T => p \in T
    IN  {p \in Process : \A T \in SUBSET Process : Closed(T) => p \in T}

(* The defining process is the one at the smallest prediction distance      *)
(* among those that give the same time (min_PWT_distance).                  *)
Definer(Q, p) ==
    CHOOSE q \in Q : \A r \in Q : ~Before(Predict[<<seg[r], seg[p]>>], Predict[<<seg[q], seg[p]>>])

-----------------------------------------------------------------------------
(* What a running process does                                              *)

(* sc_event::notify: p may notify n[1] with delay n[2], at most once each   *)
(* time it runs its segment.                                                *)
Notify(p, n) ==
    LET t == Plus(ts[p], <<n[2], 0>>)
    IN  /\ phase = "idle" /\ state[p] = "run" /\ n \in todo[p]
        /\ todo' = [todo EXCEPT ![p] = @ \ {n}]
        /\ notified' = [notified EXCEPT ![n[1]] = @ \cup {t}]
        /\ hist' = [hist EXCEPT ![n[1]] = @ \cup {t}]
        /\ UNCHANGED <<state, ts, seg, waits, all, due, disabled, prediction, phase, byRoot, control, last, latest>>

(* notify by sc_main, which is not a process: the notification is for the   *)
(* end of the period that has been simulated.  Before the first period,     *)
(* where prepare_to_simulate() would take it back, nothing is notified here.*)
NotifyByMain(e) ==
    /\ phase = "stopped" /\ starts > 0
    /\ notified' = [notified EXCEPT ![e] = @ \cup {duration}]
    /\ hist' = [hist EXCEPT ![e] = @ \cup {duration}]
    /\ UNCHANGED <<state, program, prediction, phase, byRoot, control, last, latest>>

(* disable() and enable() are called by sc_main between two periods or by a *)
(* process that runs, without the kernel lock: also while another one is in *)
(* the scheduler and has not dispatched anything yet.                       *)
MayControl ==
    \/ phase = "stopped" /\ starts > 0
    \/ phase \in {"idle", "timers", "predict", "relax", "deliver"} /\ In("run") # {}

(* disable_process: "attempt to disable a thread with timeout wait" is an   *)
(* error that leaves the process alone.                                     *)
Disable(p) ==
    /\ MayControl /\ p \notin disabled
    /\ state[p] # "timed" \/ due[p] = <<0, 0>>
    /\ disabled' = disabled \cup {p}
    /\ UNCHANGED <<state, ts, seg, waits, all, due, todo, notified, prediction, phase, byRoot, control,
                   history>>

Enable(p) ==
    /\ MayControl /\ p \in disabled
    /\ disabled' = disabled \ {p}
    /\ UNCHANGED <<state, ts, seg, waits, all, due, todo, notified, prediction, phase, byRoot, control,
                   history>>

(* The processes P reach the end of their segments: each sets the segment   *)
(* that comes next, registers what it waits for and leaves the running      *)
(* queue.                                                                   *)
EndSegment(P) ==
    LET w == [p \in P |-> WaitOf[seg[p]]]
        On(p) == p \in P
    IN  /\ state' = [p \in Process |-> IF ~On(p) THEN state[p]
                        ELSE CASE w[p].kind = "TIME" -> "timed"
                               [] w[p].kind = "END" -> "dead"
                               [] OTHER -> "wait"]
        /\ seg' = [p \in Process |-> IF On(p) THEN NextOf[seg[p]] ELSE seg[p]]
        /\ waits' = [p \in Process |-> IF On(p) THEN w[p].events ELSE waits[p]]
        /\ all' = [p \in Process |-> IF On(p) THEN w[p].kind = "AND" ELSE all[p]]
        /\ due' = [p \in Process |->
                      IF ~On(p) THEN due[p]
                      ELSE IF w[p].kind # "TIME" THEN <<0, 0>>
                      ELSE Plus(ts[p], IF w[p].time = 0 THEN Delta ELSE <<w[p].time, 0>>)]
        /\ todo' = [p \in Process |-> IF On(p) THEN {} ELSE todo[p]]
        /\ newWaiting' = newWaiting \cup P
        /\ UNCHANGED <<ts, disabled, notified, pwt, definer, changed, byRoot, tried, duration, starts, history>>

(* wait() of a thread, or its end.  It leaves the scheduling to another     *)
(* thread that is about to wait, if there is one (KernelRequests.tla).      *)
Suspend(t) ==
    /\ phase = "idle" /\ t \in Thread /\ state[t] = "run"
    /\ EndSegment({t})
    /\ UNCHANGED running
    /\ phase' \in {"timers"} \cup IF In("run") # {t} /\ WaitOf[seg[t]].kind # "END"
                                  THEN {"idle"} ELSE {}

(* The methods an invoker was given.                                        *)
QueueOf(i) == {m \in Method : state[m] = "run" /\ InvokerOf[m] = i}

(* The epilogue of method_invoker.  Only the last invoker that runs may     *)
(* call the scheduler.                                                      *)
EndMethods(i) ==
    /\ phase = "idle" /\ i \in running
    /\ EndSegment(QueueOf(i))
    /\ running' = running \ {i}
    /\ phase' \in (IF running = {i} THEN {"timers"} ELSE {})
                  \cup (IF In("run") # QueueOf(i) THEN {"idle"} ELSE {})

-----------------------------------------------------------------------------
(* oooschedule                                                              *)

(* push_runnable_thread and push_runnable_method reset PWT_defining_proc.   *)
Undefined(P) == [p \in Process |-> IF p \in P THEN None ELSE definer[p]]

(* A process that wakes up is ready, or waits for its delta cycle.          *)
Woken == IF Sync THEN "queued" ELSE "ready"
MadeReady(P) == IF Sync THEN definer ELSE Undefined(P)

(* The pending timed notifications are all triggered at once: a process     *)
(* that waits for a time, also if it waits for events as well, wakes up at  *)
(* its deadline, and a disabled one loses both waits without waking up.     *)
Timers ==
    LET expired == {p \in In("timed") : due[p] # <<0, 0>>}
        woken == expired \ disabled
    IN  /\ phase = "timers" /\ phase' = "predict"
        /\ state' = [p \in Process |-> IF p \in woken THEN Woken ELSE state[p]]
        /\ ts' = [p \in Process |-> IF p \in woken THEN due[p] ELSE ts[p]]
        /\ waits' = [p \in Process |-> IF p \in expired THEN {} ELSE waits[p]]
        /\ due' = [p \in Process |-> IF p \in expired \cap disabled THEN <<0, 0>> ELSE due[p]]
        /\ definer' = MadeReady(woken)
        /\ last' = [p \in Process |-> IF p \in woken /\ waits[p] # {}
                                      THEN waits[p] \X {<<ts[p], due[p]>>} ELSE last[p]]
        /\ UNCHANGED <<seg, all, disabled, todo, notified, pwt, newWaiting, changed, byRoot, control,
                       hist, latest>>

(* m_curr_proc_queue.size() - running_methods + running_invokers.size()     *)
Load == Cardinality({t \in Thread : state[t] = "run"}) + Cardinality(running)
Full == Load >= NumInvokers

(* Where the call goes after the deliveries.                                *)
Delivered == IF Sync THEN "promote" ELSE "dispatch"

(* check_and_deliver_events returns at once while the limit on what runs is *)
(* reached.                                                                 *)
SkipDelivery ==
    /\ phase = "predict" /\ Full /\ phase' = Delivered
    /\ UNCHANGED <<state, program, notified, prediction, byRoot, control, history>>

(* The first part of a pass: the stale times are forgotten, every waiting   *)
(* process looks at the notified events and the stale ones also at all the  *)
(* processes that can notify them (predict_wakeup_time_by_events,           *)
(* predict_wakeup_time_by_running_ready_threads).                           *)
Predictions ==
    /\ phase = "predict" /\ ~Full
    /\ \E tree \in {DefiningTree} :
       LET old(p) == IF p \in tree THEN Infinite ELSE pwt[p]
       IN \E w \in {[p \in Process |-> Earliest({old(p), ByEvent(p)})]} :
          LET via(p) == IF p \in tree THEN {q \in Process : state[q] # "dead"} ELSE {}
              at(q, p) == Via(q, Source(q, w), p)
          IN \E best \in {[p \in Process |-> Earliest({w[p]} \cup {at(q, p) : q \in via(p)})]} :
             LET by(p) == {q \in via(p) : Same(at(q, p), best[p])}
             IN  /\ pwt' = best
                 /\ definer' = [p \in Process |->
                       IF by(p) # {} THEN Definer(by(p), p)
                       ELSE IF p \in tree \/ Same(ByEvent(p), w[p]) THEN None
                       ELSE definer[p]]
                 /\ changed' = {p \in Process : best[p] # old(p)}
    /\ newWaiting' = {}
    /\ phase' = "relax"
    /\ UNCHANGED <<state, program, notified, byRoot, control, history>>

(* The second part: what has become earlier makes the waiting processes it  *)
(* can notify earlier, until nothing changes.  The order in which the heap  *)
(* yields the changed processes does not matter; here a step takes them all.*)
Relax ==
    LET via(p) == IF state[p] = "wait" THEN changed ELSE {}
        at(q, p) == Via(q, pwt[q], p)
    IN  /\ phase = "relax"
        /\ \E w \in {[p \in Process |-> Earliest({pwt[p]} \cup {at(q, p) : q \in via(p)})]} :
           LET lower == {p \in Process : w[p] # pwt[p]}
           IN  /\ pwt' = w
               /\ definer' = [p \in Process |->
                     IF p \in lower THEN Definer({q \in via(p) : at(q, p) = w[p]}, p) ELSE definer[p]]
               /\ changed' = lower
               /\ phase' = IF lower = {} THEN "deliver" ELSE "relax"
        /\ UNCHANGED <<state, program, notified, newWaiting, byRoot, control, history>>

(* History: the wait of p took for each event of E the notification at      *)
(* EventTime(p), so there must not be one between the two timestamps.       *)
Used(p, E) == (IF due[p] = <<0, 0>> THEN {} ELSE last[p]) \cup (E \X {<<ts[p], EventTime(p)>>})

(* Faulty: whatever has been notified, or nothing yet, is taken.            *)
TakesEarly(p) == state[p] = "wait" /\ EventTime(p) # Infinite
TakesAny(p) == state[p] = "wait"

(* An event is safe to take if nobody can notify p earlier.                 *)
Takes(p) == state[p] = "wait" /\ Before(EventTime(p), pwt[p])

(* Faulty: also when no event was delivered.                                *)
AgainAlways(taker, woken) == woken = {}

(* check_and_deliver_events asks for another pass if events were delivered  *)
(* and nobody woke up.                                                      *)
Again(taker, woken) == taker # {} /\ woken = {}

(* Faulty: a disabled process takes its events like any other.              *)
DeliverableAll(P) == P

(* The delivery to a disabled process returns at once.                      *)
Deliverable(P) == P \ disabled

(* The last part: a process gets the events of its earliest notification if *)
(* that is earlier than its predicted wake-up, and is ready one delta later;*)
(* an AND list waits until it has got them all.  A disabled process ignores *)
(* what it gets and leaves it where it is.                                  *)
Deliver ==
    LET taker == {p \in Process : Takes(p)}
        takes == Deliverable(taker)
        rest(p) == IF all[p] THEN waits[p] \ EventsAt(p) ELSE {}
        woken == {p \in takes : rest(p) = {}}
        at(p) == Later(due[p], Plus(EventTime(p), Delta))
    IN  /\ phase = "deliver"
        /\ phase' = IF Again(taker, woken) THEN "predict" ELSE Delivered
        /\ state' = [p \in Process |-> IF p \in woken THEN Woken ELSE state[p]]
        /\ ts' = [p \in Process |-> IF p \in woken THEN at(p) ELSE ts[p]]
        /\ waits' = [p \in Process |-> IF p \in takes THEN rest(p) ELSE waits[p]]
        /\ due' = [p \in Process |-> IF p \in takes THEN at(p) ELSE due[p]]
        /\ definer' = MadeReady(woken)
        /\ newWaiting' = taker
        /\ last' = [p \in Process |->
                      IF p \notin takes THEN last[p]
                      ELSE Used(p, IF all[p] THEN EventsAt(p) ELSE waits[p])]
        /\ UNCHANGED <<seg, all, disabled, todo, notified, pwt, changed, byRoot, control, hist, latest>>

(* Faulty: the next delta cycle does not wait for what still runs.          *)
CycleIsReady == In("ready") = {}

(* The synchronous mode: when nobody is ready or runs, all the processes    *)
(* with the earliest timestamp become ready together.                       *)
(* Faulty: the queue is compared with everybody's timestamp, not its own.   *)
NextCycleNone == {p \in In("queued") : \A q \in Process : ~Before(ts[q], ts[p])}

CycleIsOver == In("ready") = {} /\ In("run") = {}
NextCycle == {p \in In("queued") : \A q \in In("queued") : ~Before(ts[q], ts[p])}

Promote ==
    LET awoken == IF CycleIsOver THEN NextCycle ELSE {}
    IN  /\ phase = "promote" /\ phase' = "dispatch"
        /\ state' = [p \in Process |-> IF p \in awoken THEN "ready" ELSE state[p]]
        /\ definer' = Undefined(awoken)
        /\ UNCHANGED <<program, notified, pwt, newWaiting, changed, byRoot, control, history>>

(* Faulty: what runs is ignored, or what waits and may wake up earlier is.  *)
ConcurrentNotRun(q, p) ==
    CASE state[q] = "wait" -> Before(pwt[q], ts[p])
      [] state[q] \in {"dead", "run"} -> FALSE
      [] OTHER -> Before(ts[q], ts[p])

ConcurrentNotWait(q, p) ==
    state[q] \notin {"wait", "dead"} /\
        (Before(ts[q], ts[p]) \/ (state[q] = "run" /\ Same(ts[q], ts[p])))

(* The processes q whose segment, or a later one, may touch what p is about *)
(* to touch, at a time that is not after p's (has_no_conflicts and          *)
(* conflict_between_two_segs).                                              *)
Concurrent(q, p) ==
    CASE state[q] = "wait" -> Before(pwt[q], ts[p])
      [] state[q] = "dead" -> FALSE
      [] OTHER -> Before(ts[q], ts[p]) \/ (state[q] = "run" /\ Same(ts[q], ts[p]))

HasNoConflicts(p) ==
    \A q \in Process \ {p} : Concurrent(q, p) =>
        ~NotAfter(Plus(Source(q, pwt), Hazard[<<seg[q], seg[p]>>]), ts[p])

(* Not popped yet in this call.                                             *)
Poppable(P) == {p \in P \cap In("ready") : p \notin tried}

(* ready_invokers: given methods in this call, signalled at its end.        *)
ReadyInvokers == {InvokerOf[m] : m \in Method \cap In("run")} \ running

(* The head of the dispatch loop.                                           *)
Continue ==
    /\ Poppable(Process) # {}
    /\ ~Full \/ ReadyInvokers # {}

(* p starts to run, in the timestamp order that the history records.        *)
Run(p) ==
    /\ state' = [state EXCEPT ![p] = "run"]
    /\ todo' = [todo EXCEPT ![p] = MayNotify[seg[p]]]
    /\ latest' = [latest EXCEPT ![seg[p]] = ts[p]]
    /\ UNCHANGED tried

PutBack(p) ==
    /\ tried' = tried \cup {p}
    /\ UNCHANGED <<state, todo, latest>>

(* The first half of an iteration: a method, if there is one.               *)
DispatchMethod ==
    /\ phase = "dispatch" /\ Continue
    /\ phase' = "thread"
    /\ IF Poppable(Method) = {} THEN UNCHANGED <<state, todo, latest, tried>>
       ELSE \E m \in Poppable(Method) :
            IF HasNoConflicts(m) /\ InvokerOf[m] \notin running THEN Run(m) ELSE PutBack(m)
    /\ UNCHANGED <<ts, seg, waits, all, due, disabled, notified, prediction, byRoot, running, duration, starts,
                   hist, last>>

(* A thread that has reached the end of this sc_start is paused.            *)
Pause(t) ==
    /\ state' = [state EXCEPT ![t] = "paused"]
    /\ UNCHANGED <<todo, latest, tried>>

IsOver(t) == ~Before(ts[t], duration)

(* The second half: a thread, if there is one; the limit is not looked at   *)
(* again in between.                                                        *)
DispatchThread ==
    /\ phase = "thread"
    /\ phase' = "dispatch"
    /\ IF Poppable(Thread) = {} THEN UNCHANGED <<state, todo, latest, tried>>
       ELSE \E t \in Poppable(Thread) :
            IF IsOver(t) THEN Pause(t)
            ELSE IF HasNoConflicts(t) THEN Run(t) ELSE PutBack(t)
    /\ UNCHANGED <<ts, seg, waits, all, due, disabled, notified, prediction, byRoot, running, duration, starts,
                   hist, last>>

(* Faulty: the processes in the running queue are ignored.                  *)
OldestReady == Earliest({ts[p] : p \in In("ready") \cup In("timed")
                                      \cup {p \in In("wait") : all[p]}})

(* clean_up_old_event_notifications: what is older than every process that  *)
(* runs, is ready or waits for a list of events is forgotten.               *)
Oldest == Earliest({ts[p] : p \in In("run") \cup In("ready") \cup In("timed") \cup In("queued")
                                 \cup {p \in In("wait") : all[p]}})
Kept == [e \in Event |-> {x \in notified[e] : ~Before(x, Oldest)}]

(* Faulty: the conflicting processes are not put back.                      *)
FinishNotBack ==
    /\ phase = "dispatch" /\ ~Continue
    /\ running' = running \cup ReadyInvokers
    /\ notified' = IF byRoot /\ In("run") # {} THEN notified ELSE Kept
    /\ phase' = IF In("run") = {} THEN "stopped" ELSE "idle"
    /\ byRoot' = FALSE
    /\ UNCHANGED <<state, program, prediction, tried, duration, starts, history>>

(* The end of the call: the invokers are signalled, the conflicting         *)
(* processes are ready again, and sc_main continues if nothing runs.  The   *)
(* root thread itself sleeps while something runs and only then cleans up.  *)
Finish ==
    /\ phase = "dispatch" /\ ~Continue
    /\ running' = running \cup ReadyInvokers
    /\ tried' = {}
    /\ notified' = IF byRoot /\ In("run") # {} THEN notified ELSE Kept
    /\ phase' = IF In("run") = {} THEN "stopped" ELSE "idle"
    /\ byRoot' = FALSE
    /\ definer' = Undefined(tried)
    /\ UNCHANGED <<state, program, pwt, newWaiting, changed, duration, starts, history>>

(* sc_start(RunTime): the paused threads wake up.                           *)
Start ==
    /\ phase = "stopped" /\ starts < MaxStarts
    /\ phase' = "timers"
    /\ byRoot' = TRUE
    /\ starts' = starts + 1
    /\ duration' = Plus(duration, <<RunTime, 0>>)
    /\ state' = [p \in Process |-> IF state[p] = "paused" THEN Woken ELSE state[p]]
    /\ definer' = MadeReady(In("paused"))
    /\ UNCHANGED <<program, notified, pwt, newWaiting, changed, running, tried, history>>

-----------------------------------------------------------------------------
Next ==
    \/ \E p \in Process : \E n \in todo[p] : Notify(p, n)
    \/ \E t \in Thread : Suspend(t)
    \/ \E i \in Invoker : EndMethods(i)
    \/ \E e \in MainEvents : NotifyByMain(e)
    \/ \E p \in Controlled : Disable(p) \/ Enable(p)
    \/ Timers \/ SkipDelivery \/ Predictions \/ Relax \/ Deliver \/ Promote
    \/ DispatchMethod \/ DispatchThread \/ Finish
    \/ Start

(* A caller goes through its oooschedule call, a running process reaches    *)
(* its next wait (SystemC has no preemption), and sc_main may stop calling  *)
(* sc_start.                                                                *)
Fairness ==
    /\ WF_vars(Timers \/ SkipDelivery \/ Predictions \/ Relax \/ Deliver \/ Promote
               \/ DispatchMethod \/ DispatchThread \/ Finish)
    /\ \A t \in Thread : WF_vars(Suspend(t))
    /\ \A i \in Invoker : WF_vars(EndMethods(i))

Spec == Init /\ [][Next]_vars
FairSpec == Spec /\ Fairness

-----------------------------------------------------------------------------
(* Simulation in timestamp order: whatever runs ahead, the notification     *)
(* that a process took for an event is the first one at or after the time   *)
(* it started to wait; no earlier one comes to light when a process that is *)
(* behind in simulated time catches up.                                     *)
TakenInOrder ==
    \A p \in Process : \A r \in last[p] : \A x \in hist[r[1]] :
        Before(x, r[2][1]) \/ ~Before(x, r[2][2])

(* Two processes never run segments that touch the same data at once.       *)
NoDataRace ==
    \A p, q \in In("run") : p # q => <<seg[p], seg[q]>> \notin Clash

(* Segments that touch the same data run in the order of their timestamps.  *)
BeginsInOrder ==
    \A p \in Process : state[p] # "run" /\ state'[p] = "run" =>
        \A s \in Segment : <<s, seg[p]>> \in Clash => ~Before(ts[p], latest[s])
RunsInOrder == [][BeginsInOrder]_vars

(* The prediction from nothing: the least times with which every waiting    *)
(* process is at or before its events and all that can still notify it.     *)
FullPrediction ==
    LET round[n \in 0..Cardinality(Process)] ==
            IF n = 0 THEN [p \in Process |-> ByEvent(p)]
            ELSE LET w == round[n - 1]
                     next == [p \in Process |-> Earliest({ByEvent(p)} \cup
                               {Via(q, Source(q, w), p) : q \in Process \ In("dead")})]
                 IN  IF next = w THEN w ELSE next
    IN  round[Cardinality(Process)]

(* The incremental prediction, which recomputes only the defining tree of   *)
(* the processes that entered a wait, is the prediction from nothing.       *)
PredictionExact ==
    phase = "deliver" =>
        LET full == FullPrediction
        IN  \A p \in In("wait") : pwt[p] = full[p]

(* A process that waits while it is disabled goes on waiting: nothing that  *)
(* is notified, in whatever order, reaches it before it is enabled.         *)
KeepsDisabled ==
    \A p \in disabled : state[p] = "wait" => state'[p] = "wait" /\ waits'[p] = waits[p]
DisabledStays == [][KeepsDisabled]_vars

(* Nobody who could run is left when sc_main continues, except when the     *)
(* period is over ("when no running or ready thread, resume the sc_main").  *)
NoneLeftReady == phase = "stopped" /\ starts > 0 => In("ready") = {}

(* sc_main continues only when no process is ready and none that waits has  *)
(* been notified before the end of the simulated period ("when no running   *)
(* or ready thread, resume the sc_main").                                   *)
StoppedIsQuiet ==
    phase = "stopped" /\ starts > 0 =>
        /\ In("ready") = {} /\ In("timed") = {}
        /\ \A p \in In("queued") : ~Before(ts[p], duration)
        /\ \A p \in In("wait") : \A e \in waits[p] : \A x \in hist[e] :
               Before(x, ts[p]) \/ ~Before(x, duration)

(* A notification is forgotten only when it "will not take effect any more":*)
(* no process waits for the event since before it.                          *)
ForgetsStale ==
    \A e \in Event : \A x \in notified[e] \ notified'[e] :
        \A p \in In("wait") : e \in waits[p] => Before(x, ts[p])
ForgottenIsStale == [][ForgetsStale]_vars

(* What sc_start is asked to simulate ("duration = amount of time to        *)
(* simulate") ends it: nothing is dispatched that belongs to a later time.  *)
BeginsInPeriod ==
    \A p \in Process : state[p] # "run" /\ state'[p] = "run" => Before(ts[p], duration)
NothingBeyond == [][BeginsInPeriod]_vars

(* The synchronous mode is a sequence of delta cycles (DeltaCycle).         *)
Pending(p) ==
    CASE state[p] \in {"ready", "queued", "paused"} -> ts[p]
      [] state[p] = "timed" -> due[p]
      [] OTHER -> Infinite
Now == CHOOSE t \in {latest[s] : s \in Segment} : \A s \in Segment : ~Before(t, latest[s])

Cycles == INSTANCE DeltaCycle
            WITH now <- Now, agenda <- [p \in Process |-> Pending(p)], awake <- In("run")
RunsInCycles == Cycles!Spec

(* A process that is in the scheduler comes out of it: it has the kernel    *)
(* lock, so everybody else waits for it.                                    *)
CallEnds == phase = "timers" ~> phase \in {"idle", "stopped"}

(* Once sc_start has been called a process that is ready runs, or is paused *)
(* at the end of the period: a conflict puts it back only for a while.      *)
ReadyRuns ==
    \A p \in Process : starts > 0 /\ state[p] = "ready" ~> state[p] \in {"run", "paused"}
=============================================================================
