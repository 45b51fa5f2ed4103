----------------------------- MODULE EventCancel -----------------------------
(* One event: what notify, cancel, the delivery and the clean-up do with its *)
(* set of timestamps and with the list of notified events.  Times count      *)
(* delta cycles.  The scheduler is reduced to what decides about the event:  *)
(* a notification may be taken when no process is behind it (the whole       *)
(* condition is in OoOSchedule).                                             *)
EXTENDS Naturals, FiniteSets, WellFoundedInduction, TLAPS

CONSTANTS
    Process,
    MaxTime,    \* bound of the processes' clocks
    MaxDelay    \* bound of the delays of notify(t)

(* What is assumed of the constants; the model-checking modules assume it.  *)
EventCancelAssumption == MaxTime \in Nat /\ MaxDelay \in Nat

VARIABLES
    clock,      \* m_timestamp
    waiting,    \* the processes in m_threads_dynamic and m_methods_dynamic
    stamps,     \* m_notify_timestamp_set
    listed,     \* the event is in m_delta_events
    type,       \* m_notify_type
    inForce,    \* history: the notifications that have not been cancelled
    took        \* history: the last notification each process took, whether it was in force,
                \* and those in force that it skipped

sets == <<stamps, listed, type>>
vars == <<clock, waiting, sets, inForce, took>>

Init ==
    /\ clock = [p \in Process |-> 0]
    /\ waiting = {}
    /\ stamps = {} /\ listed = FALSE /\ type = "NONE"
    /\ inForce = {}
    /\ took = <<>>

Least(S) == CHOOSE x \in S : \A y \in S : x <= y

-----------------------------------------------------------------------------
(* notify(t); a notification that is already there stays.                   *)
Notify(p, d) ==
    LET x == clock[p] + d
    IN  /\ p \notin waiting /\ x < MaxTime
        /\ stamps' = stamps \cup {x}
        /\ listed' = TRUE
        /\ type' = "DELTA"
        /\ inForce' = inForce \cup {x}
        /\ UNCHANGED <<clock, waiting, took>>

(* Faulty: the event stays in the list.                                     *)
CancelType(p) ==
    /\ p \notin waiting /\ type = "DELTA"
    /\ type' = "NONE"
    /\ inForce' = {x \in inForce : x < clock[p]}
    /\ UNCHANGED <<clock, waiting, stamps, listed, took>>

(* cancel() takes the event out of the list and leaves its timestamps.      *)
Cancel(p) ==
    /\ p \notin waiting /\ type = "DELTA"
    /\ type' = "NONE"
    /\ listed' = FALSE
    /\ inForce' = {x \in inForce : x < clock[p]}
    /\ UNCHANGED <<clock, waiting, stamps, took>>

(* A process waits for the event, or for a time.                            *)
Wait(p) ==
    /\ p \notin waiting
    /\ waiting' = waiting \cup {p}
    /\ UNCHANGED <<clock, sets, inForce, took>>

WaitTime(p) ==
    /\ p \notin waiting /\ clock[p] < MaxTime
    /\ clock' = [clock EXCEPT ![p] = @ + 1]
    /\ UNCHANGED <<waiting, sets, inForce, took>>

(* Faulty: what is due at the time of the process itself counts as past.    *)
SinceAfter(p) == {x \in stamps : x > clock[p]}

(* get_earliest_time_after_certain_time, and whether it is safe.            *)
Since(p) == {x \in stamps : x >= clock[p]}

Takes(p) ==
    /\ p \in waiting /\ listed /\ Since(p) # {}
    /\ \A q \in Process \ waiting : clock[q] >= Least(Since(p))

(* Faulty: off by one.                                                      *)
OldOrNow(time, asleep) ==
    IF asleep = Process THEN stamps
    ELSE {x \in stamps : x <= Least({time[q] : q \in Process \ asleep})}

(* What is older than every process that does not wait.                     *)
Old(time, asleep) ==
    IF asleep = Process THEN stamps
    ELSE {x \in stamps : x < Least({time[q] : q \in Process \ asleep})}

(* One oooschedule call: the deliveries, then the clean-up of the listed    *)
(* events.                                                                  *)
Schedule ==
    LET taker == {p \in Process : Takes(p)}
        time == [p \in Process |-> IF p \in taker THEN Least(Since(p)) + 1 ELSE clock[p]]
        rest == stamps \ Old(time, waiting \ taker)
    IN  /\ clock' = time
        /\ waiting' = waiting \ taker
        /\ took' = [p \in DOMAIN took \cup taker |->
                      IF p \in taker
                      THEN [valid |-> Least(Since(p)) \in inForce,
                            skipped |-> {y \in inForce : clock[p] <= y /\ y < Least(Since(p))}]
                      ELSE took[p]]
        /\ stamps' = IF listed THEN rest ELSE stamps
        /\ listed' = (listed /\ rest # {})
        /\ UNCHANGED <<type, inForce>>

Next ==
    \/ \E p \in Process :
         \/ \E d \in 0 .. MaxDelay : Notify(p, d)
         \/ Cancel(p) \/ Wait(p) \/ WaitTime(p)
    \/ Schedule

Spec == Init /\ [][Next]_vars

-----------------------------------------------------------------------------
TypeOK ==
    /\ clock \in [Process -> 0 .. MaxTime]
    /\ waiting \subseteq Process
    /\ stamps \subseteq 0 .. MaxTime /\ inForce \subseteq 0 .. MaxTime
    /\ listed \in BOOLEAN
    /\ type \in {"NONE", "DELTA"}
    /\ DOMAIN took \subseteq Process

(* What is delivered has a type: deliver_event_at_time asserts that it is   *)
(* not NONE ("wrong type").                                                 *)
ListedHasType == listed => type = "DELTA" /\ stamps # {}

(* Nobody takes a later notification while an earlier one from its own time *)
(* on is in force: whatever was delivered, cleaned up, cancelled and        *)
(* notified again while it waited, or before, and in whichever order the    *)
(* processes got there.                                                     *)
TakenEarliest == \A p \in DOMAIN took : took[p].skipped = {}

(* A notification in force is in the set of timestamps until every process  *)
(* has got past it; cancel leaves those before its own time in force.       *)
NothingLost == \A x \in inForce : x \in stamps \/ \A p \in Process : x < clock[p]

(* A process that waits for a notification in force is told of it: the event*)
(* is listed for delivery.                                                  *)
StillListed == \A p \in waiting : (\E x \in inForce : x >= clock[p]) => listed

(* "cancel a delta or timed notification": nobody is woken by a             *)
(* notification that had been cancelled.                                    *)
TakenNotCancelled == \A p \in DOMAIN took : took[p].valid

(* A notification is forgotten only when every process has got past it,     *)
(* those that wait and those that may still come to wait.                   *)
ForgetsPassed == \A x \in stamps \ stamps' : \A p \in Process : x < clock'[p]
NotForgotten == [][ForgetsPassed]_vars
-----------------------------------------------------------------------------
(* Every set of times that is not empty has a least one, which Least finds. *)
NatLess == OpToRel(<, Nat)

LeastOk == \A S \in SUBSET Nat : S # {} => Least(S) \in S /\ \A y \in S : Least(S) <= y

LEMMA LeastIsLeast == LeastOk
<1> SUFFICES ASSUME NEW S \in SUBSET Nat, S # {}
    PROVE  Least(S) \in S /\ \A y \in S : Least(S) <= y
  BY DEF LeastOk
<1>1. IsWellFoundedOn(NatLess, Nat)
  BY NatLessThanWellFounded DEF NatLess
<1>2. PICK x \in S : \A y \in S : <<y, x>> \notin NatLess
  BY <1>1, WFMin, Zenon
<1>3. \A m, n \in Nat : m < n => <<m, n>> \in NatLess
  BY Zenon DEF NatLess, OpToRel
<1>4. \A y \in S : ~(y < x)
  BY <1>2, <1>3, Zenon
<1>5. \A y \in S : x <= y
  BY <1>4
<1> QED BY <1>5 DEF Least

(* What the theorems need of the types.                                     *)
Bounded == \A x \in stamps : x < MaxTime

Types ==
    /\ clock \in [Process -> Nat]
    /\ \A p \in Process : clock[p] <= MaxTime
    /\ waiting \subseteq Process
    /\ \A x \in stamps : x \in Nat
    /\ \A x \in inForce : x \in Nat /\ x < MaxTime
    /\ listed \in BOOLEAN
    /\ type \in {"NONE", "DELTA"}
    /\ DOMAIN took \subseteq Process

Base == Types /\ Bounded /\ ListedHasType
(* The inductive invariant: ForgetsPassed needs only its first part.        *)
IInv == Base /\ NothingLost /\ TakenEarliest

(* Types and Bounded are the type invariant in the provers' terms.          *)
LEMMA TypesCorrect == ASSUME EventCancelAssumption, Types, Bounded PROVE TypeOK
<1>1. clock \in [Process -> 0 .. MaxTime]
  BY DEF Types, EventCancelAssumption
<1>2. stamps \subseteq 0 .. MaxTime /\ inForce \subseteq 0 .. MaxTime
  BY DEF Types, EventCancelAssumption, Bounded
<1> QED BY <1>1, <1>2 DEF Types, TypeOK

(* The initial states satisfy the invariant.                                *)
LEMMA InitIInv == EventCancelAssumption /\ Init => IInv
<1> SUFFICES ASSUME EventCancelAssumption, Init PROVE IInv
  OBVIOUS
<1>1. DOMAIN took = {}
  BY DEF Init
<1>2. TakenEarliest /\ NothingLost
  BY <1>1 DEF Init, TakenEarliest, NothingLost
<1>3. clock \in [Process -> Nat] /\ \A p \in Process : clock[p] <= MaxTime
  BY DEF Init, EventCancelAssumption
<1>4. Types
  BY <1>1, <1>3 DEF Init, Types
<1>5. Bounded /\ ListedHasType
  BY DEF Init, Bounded, ListedHasType
<1> QED BY <1>2, <1>4, <1>5 DEF IInv, Base

(* The notification that a waiting process takes is the earliest from its   *)
(* own time on.                                                             *)
LEMMA SinceLeast ==
  ASSUME EventCancelAssumption, Types, Bounded, NEW p \in Process, Since(p) # {}
  PROVE  /\ Least(Since(p)) \in stamps /\ Least(Since(p)) >= clock[p]
         /\ Least(Since(p)) \in Nat /\ Least(Since(p)) < MaxTime
         /\ \A y \in stamps : y >= clock[p] => Least(Since(p)) <= y
<1>1. Since(p) \in SUBSET Nat
  BY DEF Since, Types, EventCancelAssumption
<1>2. Least(Since(p)) \in Since(p) /\ \A y \in Since(p) : Least(Since(p)) <= y
  BY <1>1, LeastIsLeast DEF LeastOk
<1> QED BY <1>2, SMT DEF Since, Types, Bounded, EventCancelAssumption

(* Every step preserves the types.                                          *)
LEMMA BaseInductive ==
  ASSUME EventCancelAssumption, Base, Next
  PROVE  Base'
<1> USE DEF Base, Types, Bounded, ListedHasType, EventCancelAssumption
<1>1. ASSUME NEW p \in Process, NEW d \in 0 .. MaxDelay, Notify(p, d) PROVE Base'
  BY <1>1, SMT DEF Notify
<1>2. ASSUME NEW p \in Process, Cancel(p) PROVE Base'
  <2>1. inForce' \subseteq inForce
    BY <1>2 DEF Cancel
  <2>2. \A x \in inForce' : x \in Nat /\ x < MaxTime
    BY <2>1
  <2>3. /\ UNCHANGED <<clock, waiting, stamps, took>>
        /\ type' = "NONE" /\ ~listed' /\ listed' \in BOOLEAN
    BY <1>2 DEF Cancel
  <2> QED BY <2>2, <2>3
<1>3. ASSUME NEW p \in Process, Wait(p) \/ WaitTime(p) PROVE Base'
  BY <1>3, SMT DEF Wait, WaitTime, sets
<1>4. CASE Schedule
  <2> DEFINE taker == {p \in Process : Takes(p)}
             time == [p \in Process |-> IF p \in taker THEN Least(Since(p)) + 1 ELSE clock[p]]
             rest == stamps \ Old(time, waiting \ taker)
  <2>1. \A p \in taker : Least(Since(p)) \in Nat /\ Least(Since(p)) < MaxTime
    BY SinceLeast DEF Takes
  <2>2. time \in [Process -> Nat] /\ \A p \in Process : time[p] <= MaxTime
    BY <2>1
  <2>3. rest \subseteq stamps
    OBVIOUS
  <2>4. clock' = time /\ waiting' = waiting \ taker /\ DOMAIN took' = DOMAIN took \cup taker
    BY <1>4 DEF Schedule
  <2>5. stamps' = (IF listed THEN rest ELSE stamps) /\ listed' = (listed /\ rest # {})
    BY <1>4 DEF Schedule
  <2>6. UNCHANGED <<type, inForce>>
    BY <1>4 DEF Schedule
  <2> HIDE DEF time, rest
  <2>7. Types'
    BY <2>2, <2>3, <2>4, <2>5, <2>6
  <2> QED BY <2>3, <2>5, <2>6, <2>7
<1> QED BY <1>1, <1>2, <1>3, <1>4 DEF Next

(* The clean-up removes only what is behind every clock that Schedule leaves.*)
(* A sleeper that is not behind it would take an earlier one, or the least  *)
(* of those awake is behind that one.                                       *)
LEMMA Forgets ==
  ASSUME EventCancelAssumption, Base, Next
  PROVE  ForgetsPassed
<1> USE DEF ForgetsPassed
<1>1. CASE Schedule
  <2> DEFINE taker == {p \in Process : Takes(p)}
             time == [p \in Process |-> IF p \in taker THEN Least(Since(p)) + 1 ELSE clock[p]]
             asleep == waiting \ taker
             Clocks == {time[q] : q \in Process \ asleep}
  <2> SUFFICES ASSUME NEW x \in stamps, x \notin stamps', NEW p \in Process PROVE x < time[p]
    BY <1>1 DEF Schedule
  <2>1. listed /\ x \in Old(time, asleep)
    BY <1>1 DEF Schedule
  <2>2. x \in Nat /\ clock \in [Process -> Nat] /\ waiting \subseteq Process
    BY DEF Base, Types, EventCancelAssumption
  <2>3. \A q \in taker :
          /\ Least(Since(q)) \in Nat /\ Least(Since(q)) >= clock[q]
          /\ \A y \in stamps : y >= clock[q] => Least(Since(q)) <= y
    BY SinceLeast DEF Takes, Base, Types, EventCancelAssumption
  <2>4. time \in [Process -> Nat]
    BY <2>2, <2>3
  <2>5. ASSUME NEW q \in Process \ asleep PROVE x < time[q]
    <3>1. Clocks \in SUBSET Nat /\ time[q] \in Clocks
      BY <2>4, <2>5
    <3>2. asleep # Process
      BY <2>5
    <3>3. x < Least(Clocks)
      BY <2>1, <3>2 DEF Old
    <3>4. Least(Clocks) \in Nat /\ Least(Clocks) <= time[q]
      BY <3>1, LeastIsLeast DEF LeastOk
    <3> QED BY <2>2, <2>4, <3>3, <3>4
  <2>6. CASE p \notin asleep
    BY <2>5, <2>6
  <2>7. CASE p \in asleep
    <3>1. p \in waiting /\ ~Takes(p) /\ time[p] = clock[p]
      BY <2>7
    <3>2. SUFFICES ASSUME x >= clock[p] PROVE FALSE
      BY <2>2, <2>4, <3>1
    <3>3. x \in Since(p)
      BY <3>2 DEF Since
    <3>4. Least(Since(p)) <= x /\ Least(Since(p)) \in Nat
      BY <3>2, <3>3, SinceLeast DEF Base, Types, EventCancelAssumption
    <3>5. PICK q \in Process \ waiting : ~(clock[q] >= Least(Since(p)))
      BY <2>1, <3>1, <3>3 DEF Takes
    <3>6. q \notin asleep /\ time[q] = clock[q]
      BY <3>5 DEF Takes
    <3>7. x < time[q]
      BY <2>5, <3>6, <3>5
    <3> QED BY <2>2, <3>4, <3>5, <3>6, <3>7
  <2> QED BY <2>6, <2>7
<1>2. ASSUME NEW p \in Process, NEW d \in 0 .. MaxDelay, Notify(p, d) PROVE ForgetsPassed
  BY <1>2 DEF Notify
<1>3. ASSUME NEW p \in Process, Cancel(p) \/ Wait(p) \/ WaitTime(p) PROVE ForgetsPassed
  BY <1>3 DEF Cancel, Wait, WaitTime, sets
<1> QED BY <1>1, <1>2, <1>3 DEF Next

(* The clocks only grow.                                                    *)
LEMMA ClocksGrow ==
  ASSUME EventCancelAssumption, Base, Next
  PROVE  \A p \in Process : clock[p] \in Nat /\ clock'[p] \in Nat /\ clock[p] <= clock'[p]
<1> USE DEF Base, Types
<1>0. Base'
  BY BaseInductive
<1>1. CASE Schedule
  <2>1. \A p \in Process : Takes(p) => Least(Since(p)) \in Nat /\ Least(Since(p)) >= clock[p]
    BY SinceLeast DEF Takes
  <2> QED BY <1>0, <1>1, <2>1 DEF Schedule
<1>2. ASSUME NEW p \in Process, WaitTime(p) PROVE \A q \in Process : clock[q] <= clock'[q]
  BY <1>2 DEF WaitTime
<1>3. CASE UNCHANGED clock
  BY <1>0, <1>3
<1> QED BY <1>0, <1>1, <1>2, <1>3 DEF Next, Notify, Cancel, Wait

(* Every step preserves the rest: what is in force leaves the timestamps    *)
(* only when it is past for everybody, so that whoever takes a notification *)
(* has chosen among all that are in force and not past for him.             *)
LEMMA Inductive ==
  ASSUME EventCancelAssumption, IInv, Next
  PROVE  IInv'
<1>0. Base' /\ ForgetsPassed
  BY BaseInductive, Forgets DEF IInv
<1>1. \A p \in Process : clock[p] \in Nat /\ clock'[p] \in Nat /\ clock[p] <= clock'[p]
  BY ClocksGrow DEF IInv
<1>2. \A x \in inForce : x \in Nat
  BY DEF IInv, Base, Types
<1>3. \A x \in inForce' : x \in inForce \/ x \in stamps'
  BY DEF Next, Notify, Cancel, Wait, WaitTime, Schedule, sets
<1>4. NothingLost'
  <2> SUFFICES ASSUME NEW x \in inForce', x \notin stamps' PROVE \A p \in Process : x < clock'[p]
    BY DEF NothingLost
  <2>1. x \in inForce
    BY <1>3
  <2>2. CASE x \in stamps
    BY <1>0, <2>2 DEF ForgetsPassed
  <2>3. CASE x \notin stamps
    <3>1. \A p \in Process : x < clock[p]
      BY <2>1, <2>3 DEF IInv, NothingLost
    <3> QED BY <1>1, <1>2, <2>1, <3>1
  <2> QED BY <2>2, <2>3
<1>5. TakenEarliest'
  <2>1. CASE Schedule
    <3> DEFINE taker == {p \in Process : Takes(p)}
               skip(p) == {y \in inForce : clock[p] <= y /\ y < Least(Since(p))}
    <3>1. ASSUME NEW p \in taker, NEW y \in skip(p) PROVE FALSE
      <4>1. y \in Nat /\ clock[p] \in Nat /\ ~(y < clock[p])
        BY <1>1, <1>2, <3>1
      <4>2. y \in stamps
        BY <4>1 DEF IInv, NothingLost
      <4>3. Least(Since(p)) \in Nat /\ Least(Since(p)) <= y
        BY <4>1, <4>2, SinceLeast DEF Takes, IInv, Base
      <4> QED BY <3>1, <4>1, <4>3
    <3>2. \A p \in taker : skip(p) = {}
      BY <3>1
    <3>3. took' = [p \in DOMAIN took \cup taker |->
                     IF p \in taker THEN [valid |-> Least(Since(p)) \in inForce, skipped |-> skip(p)]
                     ELSE took[p]]
      BY <2>1 DEF Schedule
    <3> HIDE DEF taker, skip
    <3> QED BY <3>2, <3>3 DEF IInv, TakenEarliest
  <2>2. CASE UNCHANGED took
    BY <2>2 DEF IInv, TakenEarliest
  <2> QED BY <2>1, <2>2 DEF Next, Notify, Cancel, Wait, WaitTime
<1> QED BY <1>0, <1>4, <1>5 DEF IInv

(* For any number of processes, times and delays, in every program, also one*)
(* that notifies again what it has cancelled: what is delivered has a type  *)
(* and a time, a notification that is in force is kept until everybody has  *)
(* got past it, and nobody takes a later one before it.                     *)
THEOREM NotificationsHold ==
  ASSUME EventCancelAssumption
  PROVE  Spec => [](TypeOK /\ ListedHasType /\ NothingLost /\ TakenEarliest)
<1>1. IInv /\ UNCHANGED vars => IInv'
  BY DEF vars, sets, IInv, Base, Types, Bounded, ListedHasType, NothingLost, TakenEarliest
<1>2. IInv /\ [Next]_vars => IInv'
  BY <1>1, Inductive
<1>3. IInv => TypeOK /\ ListedHasType /\ NothingLost /\ TakenEarliest
  BY TypesCorrect DEF IInv, Base
<1> QED BY InitIInv, <1>2, <1>3, PTL DEF Spec

(* For any number of processes, times and delays, in every program: a       *)
(* notification is forgotten only when every process has got past it.       *)
THEOREM NotForgottenHolds ==
  ASSUME EventCancelAssumption
  PROVE  Spec => NotForgotten
<1>1. Base /\ UNCHANGED vars => Base'
  BY DEF vars, sets, Base, Types, Bounded, ListedHasType
<1>2. Base /\ [Next]_vars => Base'
  BY <1>1, BaseInductive
<1>3. Base /\ [Next]_vars => [ForgetsPassed]_vars
  BY Forgets
<1>4. Init => Base
  BY InitIInv DEF IInv
<1> QED BY <1>2, <1>3, <1>4, PTL DEF Spec, NotForgotten
=============================================================================
