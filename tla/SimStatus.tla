------------------------------ MODULE SimStatus ------------------------------
(* The simulation as sc_main sees it: sc_start() with a duration, as often   *)
(* as it likes, sc_pause() and sc_stop() by the processes, an exception that *)
(* one of them does not catch, and what sc_get_status() and sc_time_stamp()  *)
(* say meanwhile.  The processes are threads; those that run are in user     *)
(* code without the lock of the scheduler, whose passes through the ready    *)
(* queue are divided into the accesses to what sc_stop(), which takes no     *)
(* lock either, writes.  Which of the ready processes a pass takes, how many *)
(* run at once, and when an event reaches those who wait, is left open.      *)
EXTENDS Timestamp

CONSTANTS
    Process,
    Durations,     \* the arguments of sc_start(), 0 for SC_ZERO_TIME
    MaxTime,       \* sc_max_time(); the processes stop waiting there
    MaxDelta,      \* bound of the delta counts
    MaxStarts,     \* bound of the calls of sc_start()
    Calls,         \* what processes and sc_main may call
    FinishDelta,   \* stop_mode is SC_STOP_FINISH_DELTA
    Alone          \* sc_stop() is only called by a process that runs alone

(* What is assumed of the constants; the model-checking modules assume it.  *)
StatusAssumption ==
    /\ Durations \subseteq Nat
    /\ {MaxTime, MaxDelta, MaxStarts} \subseteq Nat
    /\ Calls \subseteq {"stop", "pause", "throw", "main stop"}
    /\ {FinishDelta, Alone} \subseteq BOOLEAN

VARIABLES
    at,          \* who has the control: "main", the "kernel", or nobody after a "crash"
    status,      \* m_simulation_status
    control,     \* m_in_simulator_control
    prepared,    \* m_ready_to_simulate, and m_start_of_simulation_called
    forced,      \* m_forced_stop
    paused,      \* m_paused
    error,       \* m_error is set
    policy,      \* m_starvation_policy
    duration,    \* m_simulation_duration
    time,        \* m_simulation_time
    state,       \* m_process_state
    ts,          \* m_timestamp
    call,        \* what a process does next in sc_stop()
    pass,        \* what the pass through the ready queue does next, if one is under way
    latest,      \* the time that the pass is about to write
    starts,      \* calls of sc_start so far
    ends,        \* history: how often the end_of_simulation callbacks ran
    stopped,     \* history: the timestamp of the process that stopped the simulation
    shown        \* history: what sc_time_stamp() returned last to sc_main

flags == <<status, control, prepared, forced, paused, error, policy>>
processes == <<state, ts, call>>
scheduler == <<pass, latest>>
history == <<starts, ends, stopped, shown>>
vars == <<at, flags, duration, time, processes, scheduler, history>>

Init ==
    /\ at = "main"
    /\ status = "ELABORATION"
    /\ control = FALSE
    /\ prepared = FALSE
    /\ forced = FALSE /\ paused = FALSE /\ error = FALSE
    /\ policy = "exit"
    /\ duration = <<0, 0>> /\ time = <<0, 0>>
    /\ state = [p \in Process |-> "ready"]
    /\ ts = [p \in Process |-> <<0, 0>>]
    /\ call = [p \in Process |-> "none"]
    /\ pass = "closed" /\ latest = <<0, 0>>
    /\ starts = 0 /\ ends = 0
    /\ stopped = Infinite
    /\ shown = <<0, 0>>

get_status == IF status # "RUNNING" THEN status
              ELSE IF control THEN "RUNNING" ELSE "PAUSED"

sim_status == IF error THEN "ERROR" ELSE IF forced THEN "USER_STOP" ELSE "OK"

-----------------------------------------------------------------------------
(* m_simulation_duration, a point in time in spite of its name.             *)
End(d) == IF d = 0 THEN <<time[1], time[2] + 1>> ELSE <<time[1] + d, 0>>

(* sc_start() after an error or after sc_stop().                            *)
Refuse(d) ==
    /\ sim_status # "OK"
    /\ duration' = End(d)
    /\ UNCHANGED <<at, status, control, prepared, forced, paused, error, time, processes,
                   scheduler, ends, stopped, shown>>

(* simulate() elaborates and initializes; then it finds that the time would *)
(* overflow and throws a report.                                            *)
Overflow(d) ==
    /\ sim_status = "OK"
    /\ d > MaxTime - time[1]
    /\ duration' = End(d)
    /\ prepared' = TRUE
    /\ status' = IF prepared THEN status ELSE "RUNNING"
    /\ control' = FALSE
    /\ UNCHANGED <<at, forced, paused, error, time, processes, scheduler, ends, stopped,
                   shown>>

(* m_paused_processes go back to the ready queue.                           *)
Resumed(p) == IF state[p] = "paused" THEN "ready" ELSE state[p]

(* simulate() calls the scheduler, with its lock.                           *)
Simulate(d) ==
    /\ sim_status = "OK"
    /\ d <= MaxTime - time[1]
    /\ duration' = End(d)
    /\ prepared' = TRUE
    /\ status' = IF prepared THEN status ELSE "RUNNING"
    /\ state' = [p \in Process |-> Resumed(p)]
    /\ paused' = FALSE
    /\ control' = TRUE
    /\ at' = "kernel"
    /\ pass' = "open"
    /\ UNCHANGED <<forced, error, time, ts, call, latest, ends, stopped, shown>>

sc_start(d, p) ==
    /\ at = "main"
    /\ policy' = p
    /\ starts < MaxStarts
    /\ starts' = starts + 1
    /\ Refuse(d) \/ Overflow(d) \/ Simulate(d)

(* stop() called by sc_main, where get_curr_proc() is a null pointer.       *)
MainStops ==
    /\ "main stop" \in Calls
    /\ at = "main"
    /\ ~forced
    /\ at' = "crash"
    /\ UNCHANGED <<flags, duration, time, processes, scheduler, history>>

-----------------------------------------------------------------------------
(* A mistake: the time of a process that has to wait counts as well.        *)
Anyone(p) == TRUE

(* A pass takes p from the ready queue and looks first whether p is in the  *)
(* period: only then it may move the time of the simulation.                *)
InPeriod(p) == NotAfter(ts[p], duration)

Take(p) ==
    /\ pass = "open"
    /\ state[p] = "ready"
    /\ state' = [state EXCEPT ![p] = "taken"]
    /\ pass' = IF InPeriod(p) THEN "read" ELSE "decide"
    /\ UNCHANGED <<at, flags, duration, time, ts, call, latest, history>>

(* The time of the simulation becomes that of the latest process.           *)
ReadTime(p) ==
    /\ pass = "read" /\ state[p] = "taken"
    /\ latest' = Later(time, ts[p])
    /\ pass' = "write"
    /\ UNCHANGED <<at, flags, duration, time, processes, history>>

WriteTime(p) ==
    /\ pass = "write" /\ state[p] = "taken"
    /\ time' = latest
    /\ pass' = "decide"
    /\ UNCHANGED <<at, flags, duration, processes, latest, history>>

(* p is issued, or left for the next period.                                *)
Decide(p) ==
    /\ pass = "decide" /\ state[p] = "taken"
    /\ state' = [state EXCEPT ![p] = IF NotAfter(duration, ts[p]) THEN "paused" ELSE "issued"]
    /\ pass' = "open"
    /\ UNCHANGED <<at, flags, duration, time, ts, call, latest, history>>

(* p cannot run beside those that do, and goes back to the ready queue.     *)
PutBack(p) ==
    /\ pass = "decide" /\ state[p] = "taken"
    /\ Before(ts[p], duration)
    /\ \E q \in Process : state[q] \in {"issued", "run"}
    /\ state' = [state EXCEPT ![p] = "ready"]
    /\ pass' = "open"
    /\ UNCHANGED <<at, flags, duration, time, ts, call, latest, history>>

(* Whoever ends a pass leaves the lock to others only if somebody runs.     *)
EndPass ==
    /\ pass = "open"
    /\ \E p \in Process : state[p] \in {"issued", "run"}
    /\ pass' = "closed"
    /\ UNCHANGED <<at, flags, duration, time, processes, latest, history>>

(* An issued process gets the lock, releases it and is in user code.        *)
Begin(p) ==
    /\ pass = "closed"
    /\ state[p] = "issued"
    /\ state' = [state EXCEPT ![p] = "run"]
    /\ UNCHANGED <<at, flags, duration, time, ts, call, scheduler, history>>

Runs(p) == state[p] = "run" /\ call[p] = "none"

(* p gets the lock and makes a pass.                                        *)
Suspend(p, s, t) ==
    /\ Runs(p)
    /\ pass = "closed"
    /\ pass' = "open"
    /\ state' = [state EXCEPT ![p] = s]
    /\ ts' = [ts EXCEPT ![p] = t]
    /\ UNCHANGED <<at, flags, duration, time, call, latest, history>>

(* wait(time), wait(SC_ZERO_TIME), wait(event), and the end of the process. *)
WaitTime(p) == ts[p][1] < MaxTime /\ Suspend(p, "ready", Plus(ts[p], <<1, 0>>))
WaitDelta(p) == ts[p][2] < MaxDelta /\ Suspend(p, "ready", Plus(ts[p], Delta))
WaitEvent(p) == Suspend(p, "wait", ts[p])
Finish(p) == Suspend(p, "done", ts[p])

(* p notifies the event that q waits for, with the lock.                    *)
Notify(p, q) ==
    /\ Runs(p)
    /\ pass = "closed"
    /\ state[q] = "wait"
    /\ LET t == Later(ts[p], ts[q]) IN
          /\ t[2] < MaxDelta
          /\ ts' = [ts EXCEPT ![q] = Plus(t, Delta)]
    /\ state' = [state EXCEPT ![q] = "ready"]
    /\ UNCHANGED <<at, flags, duration, time, call, scheduler, history>>

(* An exception ends the process; set_error() remembers it, and nothing in  *)
(* oooschedule() looks at it.                                               *)
Throw(p) ==
    /\ "throw" \in Calls
    /\ Runs(p)
    /\ pass = "closed"
    /\ pass' = "open"
    /\ error' = TRUE
    /\ state' = [state EXCEPT ![p] = "done"]
    /\ UNCHANGED <<at, status, control, prepared, forced, paused, policy, duration, time,
                   ts, call, latest, history>>

(* sc_pause() sets a flag that only the former scheduler, crunch(), reads.  *)
sc_pause(p) ==
    /\ "pause" \in Calls
    /\ Runs(p)
    /\ paused' = TRUE
    /\ UNCHANGED <<at, status, control, prepared, forced, error, policy, duration, time,
                   processes, scheduler, history>>

(* No other process runs or is about to, and no pass is under way.  With    *)
(* one simulation CPU, and no methods, every process runs alone.            *)
RunsAlone(p) == pass = "closed" /\ \A q \in Process \ {p} : state[q] \notin {"issued", "run"}

(* stop(), step by step and without a lock: nothing at all if it was called *)
(* before ...                                                               *)
CheckStop(p) ==
    /\ "stop" \in Calls
    /\ Runs(p)
    /\ Alone => RunsAlone(p)
    /\ ~forced
    /\ call' = [call EXCEPT ![p] = "duration"]
    /\ stopped' = IF stopped = Infinite THEN ts[p] ELSE stopped
    /\ UNCHANGED <<at, flags, duration, time, state, ts, scheduler, starts, ends, shown>>

(* A mistake: the period is not cut short.                                  *)
KeepDuration(p) ==
    /\ call[p] = "duration"
    /\ call' = [call EXCEPT ![p] = "time"]
    /\ UNCHANGED <<at, flags, duration, time, state, ts, scheduler, history>>

CutDuration(p) ==
    /\ call[p] = "duration"
    /\ duration' = ts[p]
    /\ call' = [call EXCEPT ![p] = "time"]
    /\ UNCHANGED <<at, flags, time, state, ts, scheduler, history>>

(* The time is a copy of the duration, which may be another's by now.       *)
SetTime(p) ==
    /\ call[p] = "time"
    /\ time' = duration
    /\ call' = [call EXCEPT ![p] = "delta"]
    /\ UNCHANGED <<at, flags, duration, state, ts, scheduler, history>>

AddDelta(p) ==
    /\ call[p] = "delta"
    /\ duration' = IF FinishDelta THEN <<duration[1], duration[2] + 1>> ELSE duration
    /\ call' = [call EXCEPT ![p] = "flag"]
    /\ UNCHANGED <<at, flags, time, state, ts, scheduler, history>>

SetForced(p) ==
    /\ call[p] = "flag"
    /\ forced' = TRUE
    /\ call' = [call EXCEPT ![p] = "none"]
    /\ UNCHANGED <<at, status, control, prepared, paused, error, policy, duration, time,
                   state, ts, scheduler, history>>

-----------------------------------------------------------------------------
Quiet == \A p \in Process : state[p] \in {"wait", "paused", "done"}

(* do_sc_stop_action() after the last process, if sc_stop() was called.     *)
StopAction ==
    IF forced
    THEN /\ ends' = ends + 1
         /\ prepared' = FALSE
         /\ status' = "STOPPED"
         /\ control' = FALSE
    ELSE UNCHANGED <<ends, prepared>> /\ status' = "PAUSED" /\ control' = FALSE

(* The last process resumes the root thread, and sc_start() returns.        *)
Return ==
    /\ pass = "open"
    /\ Quiet
    /\ StopAction
    /\ time' = IF policy = "exit" THEN time ELSE duration
    /\ shown' = time'
    /\ at' = "main"
    /\ pass' = "closed"
    /\ UNCHANGED <<forced, paused, error, policy, duration, processes, latest, starts,
                   stopped>>

Next ==
    \/ \E d \in Durations, p \in {"exit", "run to time"} : sc_start(d, p)
    \/ MainStops
    \/ \E p \in Process :
          \/ Take(p) \/ ReadTime(p) \/ WriteTime(p) \/ Decide(p) \/ PutBack(p)
          \/ Begin(p)
          \/ WaitTime(p) \/ WaitDelta(p) \/ WaitEvent(p) \/ Finish(p)
          \/ Throw(p) \/ sc_pause(p)
          \/ CheckStop(p) \/ CutDuration(p) \/ SetTime(p) \/ AddDelta(p) \/ SetForced(p)
    \/ \E p, q \in Process : Notify(p, q)
    \/ EndPass
    \/ Return

Spec == Init /\ [][Next]_vars

-----------------------------------------------------------------------------
TypeOK ==
    /\ at \in {"main", "kernel", "crash"}
    /\ status \in {"ELABORATION", "RUNNING", "PAUSED", "STOPPED"}
    /\ {control, prepared, forced, paused, error} \subseteq BOOLEAN
    /\ policy \in {"exit", "run to time"}
    /\ {duration, time, latest, shown} \subseteq FiniteTimestamp
    /\ at = "kernel" => duration[1] <= MaxTime
    /\ state \in [Process -> {"ready", "taken", "issued", "run", "wait", "paused", "done"}]
    /\ ts \in [Process -> FiniteTimestamp]
    /\ call \in [Process -> {"none", "duration", "time", "delta", "flag"}]
    /\ pass \in {"closed", "open", "read", "write", "decide"}
    /\ starts \in 0 .. MaxStarts
    /\ ends \in Nat
    /\ stopped \in AnyTimestamp

(* The assertion at the end of sc_start(): the time that was reached is not *)
(* after the end of the period, also if that was cut short by sc_stop() of  *)
(* a process that is behind those that have run (sc_simcontext.cpp:6452).    *)
TimeWithinPeriod == at = "kernel" /\ Quiet => ~Before(duration, time)

(* When sc_start() returns, every process that is not waiting for an event  *)
(* is among the paused ones, at or after the time that sc_main sees.        *)
NotBehind ==
    at = "main" /\ status \in {"PAUSED", "STOPPED"} =>
        \A p \in Process : state[p] \notin {"wait", "done"} =>
            state[p] = "paused" /\ ~Before(ts[p], shown)

(* However many processes run and pass through the ready queue meanwhile,   *)
(* both hold as long as none of them has called sc_stop().                  *)
RightUntilStop == stopped = Infinite => TimeWithinPeriod /\ NotBehind

(* The end of the simulation is announced once, when the sc_start() returns *)
(* in which it was stopped, and never again, however many processes stop it *)
(* at once.                                                                 *)
EndOnce ==
    /\ ends <= 1
    /\ at = "main" => (ends = 1 <=> forced) /\ (forced <=> get_status = "STOPPED")

(* After sc_stop() only processes begin to run that are not later than the  *)
(* one that called it.                                                      *)
StopStep ==
    \A p \in Process :
        forced /\ state[p] = "issued" /\ state'[p] = "run" => NotAfter(ts[p], stopped)
StopHolds == [][StopStep]_vars

(* sc_main sees the simulated time grow, whatever ends the periods.         *)
TimeStep == ~Before(shown', shown)
TimeMonotone == [][TimeStep]_vars

(* A process that asks while it runs is told that the simulation runs.      *)
RunningIsRunning == at = "kernel" => get_status = "RUNNING"

(* After sc_pause() no process begins to run at a later simulated time      *)
(* before sc_start() is called again.                                       *)
PauseHolds ==
    [][\A p \in Process :
          paused /\ state[p] = "ready" /\ state'[p] = "taken" => ts[p][1] <= time[1]]_vars

(* sc_stop() may be called outside of the simulation as well.               *)
NoCrash == at # "crash"
=============================================================================
