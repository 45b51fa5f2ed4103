----------------------------- MODULE DeltaCycle ------------------------------
(* Simulation in delta cycles, as SystemC defines it: time goes forward from *)
(* one timestamp to the next one at which something is to be done, and only  *)
(* when everything that was to be done at the last one is done.              *)
EXTENDS Timestamp

CONSTANTS Process

VARIABLES
    now,        \* the timestamp of the delta cycle
    agenda,     \* when each process is to run next, or Infinite
    awake       \* the processes that run

cycle == <<now, agenda, awake>>

Init ==
    /\ now = <<0, 0>>
    /\ agenda \in [Process -> {now, Infinite}]
    /\ awake = {}

(* A process that has got something to do is not asked again, and nobody    *)
(* asks for the current cycle or an earlier one.                            *)
Scheduled ==
    /\ DOMAIN agenda' = Process
    /\ \A p \in Process : agenda'[p] # agenda[p] =>
          agenda[p] = Infinite /\ agenda'[p] \in FiniteTimestamp /\ Before(now, agenda'[p])

(* p starts to run, in this cycle or as the first one of the next cycle.    *)
Begin(p) ==
    /\ agenda[p] # Infinite
    /\ \A q \in Process : ~Before(agenda[q], agenda[p])
    /\ agenda[p] = now \/ awake = {}
    /\ now' = agenda[p]
    /\ agenda' = [agenda EXCEPT ![p] = Infinite]
    /\ awake' = awake \cup {p}

(* Processes stop to run, or events that have been notified wake some up.   *)
Suspend ==
    /\ awake' \subseteq awake
    /\ Scheduled
    /\ UNCHANGED now

Next == Suspend \/ \E p \in Process : Begin(p)

Spec == Init /\ [][Next]_cycle
=============================================================================
