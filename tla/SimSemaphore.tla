---------------------------- MODULE SimSemaphore ----------------------------
(* sc_semaphore: a counter and an event.  wait() loops like lock() of        *)
(* sc_mutex; any process may post, also without having waited.               *)
EXTENDS Integers, ChannelScheduler

CONSTANTS
    Initial,   \* init_value_
    MaxPosts   \* bound on the calls of post()

(* What is assumed of the constants; the model-checking modules assume it.  *)
SemaphoreAssumption ==
    /\ Event = {"free"}
    /\ Initial \in Nat /\ MaxPosts \in Nat

VARIABLES
    value,   \* m_value
    at,      \* "user", or "wait" in the loop of wait()
    passed,  \* history: the calls of wait() and trywait() that have returned 0
    posts    \* history: the calls of post()

vars == <<value, at, passed, posts, scheduler>>

Init ==
    /\ value = Initial
    /\ at = [p \in Process |-> "user"]
    /\ passed = 0 /\ posts = 0
    /\ SchedulerInit

in_use == value <= 0

TakeAlways(p) ==
    /\ value' = value - 1
    /\ passed' = passed + 1
    /\ at' = [at EXCEPT ![p] = "user"]
    /\ Pass({})
    /\ UNCHANGED posts

Take(p) == ~in_use /\ TakeAlways(p)

WaitFree(p) ==
    /\ in_use
    /\ Join(p, "free")
    /\ at' = [at EXCEPT ![p] = "wait"]
    /\ UNCHANGED <<value, passed, posts>>

(* A mistake: woken by a post, a process takes the unit for granted.        *)
WaitOnce(p) ==
    \/ at[p] = "user" /\ (WaitFree(p) \/ Take(p))
    \/ at[p] = "wait" /\ ~Blocked(p) /\ TakeAlways(p)

wait(p) ==
    /\ at[p] = "user" \/ (at[p] = "wait" /\ ~Blocked(p))
    /\ WaitFree(p) \/ Take(p)

(* Returns -1, and changes nothing, if there is no unit.                    *)
trywait(p) == at[p] = "user" /\ Take(p)

post(p) ==
    /\ at[p] = "user" /\ posts < MaxPosts
    /\ value' = value + 1
    /\ posts' = posts + 1
    /\ Pass({"free"})
    /\ UNCHANGED <<at, passed>>

Call(p) == Runs(p) /\ (wait(p) \/ trywait(p) \/ post(p))

Suspend(p) ==
    /\ at[p] = "user" \/ Blocked(p)
    /\ SuspendProcess(p)
    /\ UNCHANGED <<value, at, passed, posts>>

Schedule ==
    /\ UpdatePhase({}) \/ SomeDelivery \/ Starve \/ Restart
    /\ UNCHANGED <<value, at, passed, posts>>

Next ==
    \/ \E p \in Process : Call(p) \/ Suspend(p)
    \/ Schedule

Spec == Init /\ [][Next]_vars

(* The pool executes every process and the scheduler; nobody is obliged to  *)
(* call wait() or post().                                                   *)
Fairness ==
    /\ WF_vars(Schedule)
    /\ \A p \in Process :
          /\ SF_vars(at[p] = "wait" /\ Runs(p) /\ wait(p))
          /\ SF_vars(Suspend(p))
          /\ SF_vars(Schedule /\ DeliveryTo(p))

FairSpec == Spec /\ Fairness

-----------------------------------------------------------------------------
TypeOK ==
    /\ SchedulerTypeOK
    /\ value \in Nat
    /\ at \in [Process -> {"user", "wait"}]
    /\ passed \in Nat /\ posts \in Nat

(* However many processes one post() wakes, no more calls pass than there   *)
(* were units: the loop in wait() tests again (sc_semaphore.cpp:91).        *)
NeverOversold == passed <= Initial + posts

(* Nobody sleeps beside a unit: those who wait, also those who joined the   *)
(* event after the post, are about to be woken.                             *)
NoLostWakeup == ~in_use /\ waiting["free"] # {} => "free" \in notified

(* With a fair scheduler a unit for which somebody waits is taken.          *)
UnitIsTaken == waiting["free"] # {} /\ ~in_use ~> in_use \/ waiting["free"] = {}
=============================================================================
