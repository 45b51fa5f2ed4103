-------------------------- MODULE ChannelScheduler --------------------------
(* The scheduler of the synchronous mode as a blocking channel sees it.  The *)
(* processes of a delta cycle run in parallel until each of them waits: for  *)
(* an event of the channel, or for something else.  The last one to suspend  *)
(* executes the update phase, then the notifications of the cycle are        *)
(* delivered and the next cycle starts with the processes they wake.  When   *)
(* nothing is left to run sc_start returns, and sc_main calls it again.      *)
EXTENDS FiniteSets, Naturals

CONSTANTS Process, Event

VARIABLES
    notified,  \* the events of the channel with a delta notification
    waiting,   \* who waits on which event of the channel
    phase,     \* "evaluate", "update", "deliver" or "main"
    running    \* m_curr_proc_queue and m_runnable

scheduler == <<notified, waiting, phase, running>>

SchedulerTypeOK ==
    /\ notified \subseteq Event
    /\ waiting \in [Event -> SUBSET Process]
    /\ phase \in {"evaluate", "update", "deliver", "main"}
    /\ running \subseteq Process

SchedulerInit ==
    /\ notified = {}
    /\ waiting = [e \in Event |-> {}]
    /\ phase = "evaluate"
    /\ running = Process

Runs(p) == phase = "evaluate" /\ p \in running
Blocked(p) == \E e \in Event : p \in waiting[e]

(* sc_core::wait(event): p is registered at the event and about to suspend; *)
(* it still runs.                                                           *)
Join(p, e) ==
    /\ waiting' = [waiting EXCEPT ![e] = @ \cup {p}]
    /\ UNCHANGED <<notified, phase, running>>

(* The call passes, and notifies the events E.                              *)
Pass(E) ==
    /\ notified' = notified \cup E
    /\ UNCHANGED <<waiting, phase, running>>

(* p waits; a process that is not blocked waits for something else than     *)
(* this channel.                                                            *)
SuspendProcess(p) ==
    /\ Runs(p)
    /\ running' = running \ {p}
    /\ phase' = IF running' = {} THEN "update" ELSE phase
    /\ UNCHANGED <<notified, waiting>>

(* perform_update; the channel notifies E in it.                            *)
UpdatePhase(E) ==
    /\ phase = "update"
    /\ phase' = "deliver"
    /\ notified' = notified \cup E
    /\ UNCHANGED <<waiting, running>>

Woken == {p \in Process : \E e \in notified : p \in waiting[e]}
Others == {p \in Process : ~Blocked(p)}

(* The delta notifications, and other events that wake some of the others.  *)
DeliverEvents(others) ==
    /\ phase = "deliver"
    /\ running' = Woken \cup others
    /\ running' # {}
    /\ waiting' = [e \in Event |-> IF e \in notified THEN {} ELSE waiting[e]]
    /\ notified' = {}
    /\ phase' = "evaluate"

(* Nothing to run.                                                          *)
Starve ==
    /\ phase = "deliver" /\ Woken = {}
    /\ phase' = "main"
    /\ UNCHANGED <<notified, waiting, running>>

Restart ==
    /\ phase = "main"
    /\ phase' = "deliver"
    /\ UNCHANGED <<notified, waiting, running>>

SomeDelivery == \E others \in SUBSET Others : DeliverEvents(others)
DeliveryTo(p) == \E others \in SUBSET Others : p \in others /\ DeliverEvents(others)
=============================================================================
