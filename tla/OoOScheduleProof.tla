-------------------------- MODULE OoOScheduleProof --------------------------
(***************************************************************************)
(* Proofs about OoOSchedule for every program and every pair of tables.     *)
(*                                                                         *)
(* First the facts about timestamps the scheduler relies on: the order it   *)
(* compares them in is a strict linear order that sums respect, and the     *)
(* earliest of a set of timestamps exists and is what the scheduler takes   *)
(* it for.  Then the invariants of the scheduler that hold whatever the     *)
(* tables say; last, and longest, that an out-of-order simulation cannot be *)
(* told from one in timestamp order if the tables are sound.                *)
(***************************************************************************)
EXTENDS OoOSchedule, WellFoundedInduction, TLAPS, FiniteSetTheorems

(* operator < is a strict order on AnyTimestamp in which nothing is between *)
(* two timestamps that are not ordered, so that they are equal.             *)
THEOREM BeforeIsLinearOrder ==
    ASSUME NEW a \in AnyTimestamp, NEW b \in AnyTimestamp, NEW c \in AnyTimestamp
    PROVE  /\ ~Before(a, a)
           /\ Before(a, b) /\ Before(b, c) => Before(a, c)
           /\ Before(a, b) \/ Before(b, a) \/ a = b
BY DEF Before, AnyTimestamp, FiniteTimestamp, Infinite

(* operator <= is the negation of the converse except for infinity, which   *)
(* is not <= itself.                                                        *)
LEMMA NotAfterNotBefore ==
    ASSUME NEW a \in AnyTimestamp, NEW b \in AnyTimestamp
    PROVE  NotAfter(a, b) <=> a # Infinite /\ ~Before(b, a)
BY DEF NotAfter, Same, Before, AnyTimestamp, FiniteTimestamp, Infinite

(* A sum is a timestamp that is not before its first summand.               *)
LEMMA PlusType ==
    ASSUME NEW a \in AnyTimestamp, NEW b \in AnyTimestamp
    PROVE  /\ Plus(a, b) \in AnyTimestamp
           /\ ~Before(Plus(a, b), a)
           /\ a \in FiniteTimestamp /\ b \in FiniteTimestamp => Plus(a, b) \in FiniteTimestamp
BY DEF Plus, Before, AnyTimestamp, FiniteTimestamp, Infinite

(* Adding the same interval keeps the order, weakly.                        *)
THEOREM PlusMonotone ==
    ASSUME NEW a \in AnyTimestamp, NEW b \in AnyTimestamp, NEW d \in AnyTimestamp, ~Before(b, a)
    PROVE  ~Before(Plus(b, d), Plus(a, d))
BY DEF Plus, Before, AnyTimestamp, FiniteTimestamp, Infinite

(* a is not later than b.                                                   *)
AtMost(a, b) == ~Before(b, a)

(* It is a linear order, which the strict one extends.                      *)
LEMMA AtMostOrder ==
    ASSUME NEW a \in AnyTimestamp, NEW b \in AnyTimestamp, NEW c \in AnyTimestamp
    PROVE  /\ AtMost(a, a) /\ AtMost(a, Infinite) /\ AtMost(<<0, 0>>, a)
           /\ AtMost(a, b) /\ AtMost(b, c) => AtMost(a, c)
           /\ AtMost(a, b) /\ AtMost(b, a) => a = b
           /\ Before(a, b) => AtMost(a, b)
           /\ Before(a, b) /\ AtMost(b, c) => Before(a, c)
           /\ AtMost(a, b) /\ Before(b, c) => Before(a, c)
BY DEF AtMost, Before, AnyTimestamp, FiniteTimestamp, Infinite

(* Sums respect it in both summands.                                        *)
LEMMA PlusOrder ==
    ASSUME NEW a \in AnyTimestamp, NEW b \in AnyTimestamp, NEW d \in AnyTimestamp, AtMost(a, b)
    PROVE  AtMost(Plus(a, d), Plus(b, d)) /\ AtMost(Plus(d, a), Plus(d, b))
BY DEF AtMost, Plus, Before, AnyTimestamp, FiniteTimestamp, Infinite

(* A sum of three summands is earliest when the last two are added first,   *)
(* because the delta count of an interval that is not zero is dropped.      *)
LEMMA PlusParts ==
    ASSUME NEW a \in AnyTimestamp, NEW b \in AnyTimestamp, NEW c \in AnyTimestamp
    PROVE  /\ AtMost(Plus(a, Plus(b, c)), Plus(Plus(a, b), c))
           /\ AtMost(a, Plus(a, b))
           /\ Plus(a, <<0, 0>>) = a /\ Plus(Infinite, a) = Infinite /\ Plus(a, Infinite) = Infinite
BY DEF AtMost, Plus, Before, AnyTimestamp, FiniteTimestamp, Infinite

(* Nothing is between a timestamp and the next delta cycle.                 *)
LEMMA NextDelta ==
    ASSUME NEW a \in AnyTimestamp, NEW b \in AnyTimestamp, Before(a, Plus(b, Delta))
    PROVE  AtMost(a, b)
BY DEF AtMost, Plus, Delta, Before, AnyTimestamp, FiniteTimestamp, Infinite

(* The later of two timestamps is at or after both.                         *)
LEMMA LaterOrder ==
    ASSUME NEW a \in AnyTimestamp, NEW b \in AnyTimestamp
    PROVE  Later(a, b) \in {a, b} /\ AtMost(a, Later(a, b)) /\ AtMost(b, Later(a, b))
BY DEF Later, AtMost, Before, AnyTimestamp, FiniteTimestamp, Infinite

NatLess == OpToRel(<, Nat)

(* Every set of finite timestamps has a first one.                          *)
LEMMA FirstTimestamp ==
    ASSUME NEW S \in SUBSET FiniteTimestamp, S # {}
    PROVE  \E x \in S : \A y \in S : ~Before(y, x)
<1> DEFINE R == LexPairOrdering(NatLess, NatLess, Nat, Nat)
<1>1. IsWellFoundedOn(NatLess, Nat)
    BY NatLessThanWellFounded DEF NatLess
<1>2. IsWellFoundedOn(R, Nat \X Nat)
    BY <1>1, WFLexPairOrdering
<1>3. PICK x \in S : \A y \in S : <<y, x>> \notin R
  <2> HIDE DEF R
  <2> QED BY <1>2, WFMin DEF FiniteTimestamp
<1>4. ASSUME NEW y \in S, Before(y, x) PROVE <<y, x>> \in R
  <2>1. y \in Nat \X Nat /\ x \in Nat \X Nat
      BY DEF FiniteTimestamp
  <2>2. y[1] < x[1] \/ (y[1] = x[1] /\ y[2] < x[2])
      BY <1>4, <2>1 DEF Before, Infinite
  <2>3. \A m, n \in Nat : <<m, n>> \in NatLess <=> m < n
      BY DEF NatLess, OpToRel
  <2> QED BY <2>1, <2>2, <2>3 DEF LexPairOrdering
<1> QED BY <1>3, <1>4

(* Earliest, the loops that keep the smallest timestamp seen, returns a     *)
(* lower bound of its set that is in the set unless it is infinite.         *)
THEOREM EarliestIsLeast ==
    ASSUME NEW S \in SUBSET AnyTimestamp
    PROVE  /\ Earliest(S) \in AnyTimestamp
           /\ Earliest(S) # Infinite => Earliest(S) \in S
           /\ \A y \in S : ~Before(y, Earliest(S))
<1>1. CASE \A x \in S : x = Infinite
    BY <1>1 DEF Earliest, Before, AnyTimestamp
<1>2. CASE ~(\A x \in S : x = Infinite)
  <2> DEFINE F == S \cap FiniteTimestamp
  <2>1. F # {} /\ \A x \in F : x # Infinite
      BY <1>2 DEF AnyTimestamp, FiniteTimestamp, Infinite
  <2>2. PICK f \in F : \A y \in F : ~Before(y, f)
      BY <2>1, FirstTimestamp
  <2>3. f \in S /\ f # Infinite /\ \A y \in S : ~Before(y, f)
      BY <2>1, <2>2 DEF AnyTimestamp, Before
  <2>4. Earliest(S) = CHOOSE x \in S : x # Infinite /\ \A y \in S : ~Before(y, x)
      BY <1>2 DEF Earliest
  <2> QED BY <2>3, <2>4
<1> QED BY <1>1, <1>2

-----------------------------------------------------------------------------

(* The parts of TypeOK by what the actions change.                          *)
ProgramTypeOK ==
    /\ state \in [Process -> {"ready", "run", "wait", "timed", "dead", "paused", "queued"}]
    /\ ts \in [Process -> FiniteTimestamp]
    /\ seg \in [Process -> Segment]
    /\ waits \in [Process -> SUBSET Event]
    /\ all \in [Process -> BOOLEAN]
    /\ due \in [Process -> FiniteTimestamp]
    /\ disabled \subseteq Controlled

NotifyTypeOK ==
    /\ todo \in [Process -> SUBSET (Event \X Nat)]
    /\ \A p \in Process : todo[p] \subseteq MayNotify[seg[p]]
    /\ notified \in [Event -> SUBSET FiniteTimestamp]

PredictionTypeOK ==
    /\ pwt \in [Process -> AnyTimestamp]
    /\ definer \in [Process -> Process \cup {None}]
    /\ newWaiting \subseteq Process /\ changed \subseteq Process

ControlTypeOK ==
    /\ running \subseteq Invoker
    /\ phase \in {"idle", "timers", "predict", "relax", "deliver", "promote", "dispatch", "thread", "stopped"}
    /\ byRoot \in BOOLEAN
    /\ tried \subseteq Process
    /\ duration \in FiniteTimestamp /\ starts \in 0..MaxStarts

LEMMA TypeParts == TypeOK <=> ProgramTypeOK /\ NotifyTypeOK /\ PredictionTypeOK /\ ControlTypeOK
BY DEF TypeOK, ProgramTypeOK, NotifyTypeOK, PredictionTypeOK, ControlTypeOK

(* The sum with a whole number of time units is finite.                     *)
LEMMA DelayType ==
    ASSUME NEW t \in FiniteTimestamp, NEW n \in Nat
    PROVE  Plus(t, <<n, 0>>) \in FiniteTimestamp /\ Plus(t, Delta) \in FiniteTimestamp
<1>1. <<n, 0>> \in FiniteTimestamp /\ Delta \in FiniteTimestamp
    BY DEF FiniteTimestamp, Delta
<1>2. <<n, 0>> \in AnyTimestamp /\ Delta \in AnyTimestamp /\ t \in AnyTimestamp
    BY <1>1 DEF AnyTimestamp
<1> QED BY <1>1, <1>2, PlusType

(* The wake-up times that come from events are timestamps.                  *)
LEMMA EventTimeType ==
    ASSUME TypeOK, NEW p \in Process
    PROVE  EventTime(p) \in AnyTimestamp /\ ByEvent(p) \in AnyTimestamp
<1>1. \A e \in Event : NextNotification(e, ts[p]) \in AnyTimestamp
  <2> SUFFICES ASSUME NEW e \in Event PROVE NextNotification(e, ts[p]) \in AnyTimestamp
      OBVIOUS
  <2>1. {x \in notified[e] : ~Before(x, ts[p])} \in SUBSET AnyTimestamp
      BY DEF TypeOK, AnyTimestamp
  <2> QED BY <2>1, EarliestIsLeast DEF NextNotification
<1>2. {NextNotification(e, ts[p]) : e \in waits[p]} \in SUBSET AnyTimestamp
    BY <1>1 DEF TypeOK
<1>3. EventTime(p) \in AnyTimestamp
    BY <1>2, EarliestIsLeast DEF EventTime
<1>4. Delta \in AnyTimestamp /\ Infinite \in AnyTimestamp
    BY DEF Delta, AnyTimestamp, FiniteTimestamp
<1> QED BY <1>3, <1>4, PlusType DEF ByEvent

(* What a process can cause in another one is a timestamp.                  *)
LEMMA ViaType ==
    ASSUME TypeOK, OoOScheduleAssumption, NEW q \in Process, NEW p \in Process,
           NEW t \in AnyTimestamp
    PROVE  Via(q, t, p) \in AnyTimestamp
<1>1. Predict[<<seg[q], seg[p]>>] \in AnyTimestamp
    BY DEF TypeOK, OoOScheduleAssumption
<1> QED BY <1>1, PlusType DEF Via

(* A process in a non-empty set has the smallest prediction distance in it. *)
LEMMA DefinerType ==
    ASSUME TypeOK, OoOScheduleAssumption, NEW p \in Process, NEW Q \in SUBSET Process, Q # {}
    PROVE  Definer(Q, p) \in Q
<1> DEFINE at(q) == Predict[<<seg[q], seg[p]>>]
<1> DEFINE D == {at(q) : q \in Q}
<1>1. \A q \in Q : at(q) \in AnyTimestamp
    BY DEF TypeOK, OoOScheduleAssumption
<1>2. D \in SUBSET AnyTimestamp
    BY <1>1
<1>3. Earliest(D) \in AnyTimestamp /\ (Earliest(D) # Infinite => Earliest(D) \in D)
      /\ \A y \in D : ~Before(y, Earliest(D))
  <2> HIDE DEF D
  <2> QED BY <1>2, EarliestIsLeast
<1>4. CASE Earliest(D) # Infinite
  <2>1. PICK q \in Q : at(q) = Earliest(D)
      BY <1>3, <1>4
  <2>2. \A r \in Q : ~Before(at(r), at(q))
      BY <1>3, <2>1
  <2> QED BY <2>2 DEF Definer
<1>5. CASE Earliest(D) = Infinite
  <2>1. ASSUME NEW r \in Q PROVE at(r) = Infinite
    <3>1. at(r) \in D /\ ~Before(at(r), Infinite)
        BY <1>3, <1>5
    <3> HIDE DEF at, D
    <3> QED BY <3>1 DEF Before
  <2>2. PICK q \in Q : TRUE
      OBVIOUS
  <2>3. \A r \in Q : ~Before(at(r), at(q))
      BY <2>1 DEF Before
  <2> QED BY <2>3 DEF Definer
<1> QED BY <1>4, <1>5

LEMMA TypeInit == OoOScheduleAssumption /\ Init => TypeOK
<1> SUFFICES ASSUME OoOScheduleAssumption, Init PROVE TypeOK
    OBVIOUS
<1>1. <<0, 0>> \in FiniteTimestamp /\ Infinite \in AnyTimestamp
    BY DEF FiniteTimestamp, AnyTimestamp
<1>2. ProgramTypeOK
  <2>1. First \in [Process -> Segment] /\ \A p \in DOMAIN Static : Static[p] \subseteq Event
      BY DEF OoOScheduleAssumption
  <2> QED BY <1>1, <2>1 DEF Init, ProgramTypeOK
<1>3. NotifyTypeOK
    BY DEF Init, NotifyTypeOK
<1>4. PredictionTypeOK
    BY <1>1 DEF Init, PredictionTypeOK
<1>5. ControlTypeOK
  <2>1. 0 \in 0..MaxStarts
      BY DEF OoOScheduleAssumption
  <2>2. running \subseteq Invoker /\ byRoot \in BOOLEAN /\ tried \subseteq Process
      BY Zenon DEF Init
  <2>3. phase = "stopped" /\ duration = <<0, 0>> /\ starts = 0
      BY DEF Init
  <2> QED BY <1>1, <2>1, <2>2, <2>3 DEF ControlTypeOK
<1> QED BY <1>2, <1>3, <1>4, <1>5, TypeParts

(* The processes that leave the running queue.                              *)
LEMMA EndSegmentType ==
    ASSUME TypeOK, OoOScheduleAssumption, NEW P \in SUBSET Process, EndSegment(P)
    PROVE  /\ ProgramTypeOK' /\ NotifyTypeOK' /\ PredictionTypeOK'
           /\ UNCHANGED <<byRoot, tried, duration, starts>>
<1> DEFINE w == [p \in P |-> WaitOf[seg[p]]]
<1> DEFINE On(p) == p \in P
<1>0. \A p \in P : seg[p] \in Segment /\ w[p] = WaitOf[seg[p]]
    BY DEF TypeOK
<1>1. \A p \in P : w[p].events \in SUBSET Event /\ w[p].time \in Nat
    BY <1>0 DEF OoOScheduleAssumption
<1>2. state' = [p \in Process |-> IF ~On(p) THEN state[p]
                        ELSE CASE w[p].kind = "TIME" -> "timed"
                               [] w[p].kind = "END" -> "dead"
                               [] OTHER -> "wait"]
    BY DEF EndSegment
<1>3. seg' = [p \in Process |-> IF On(p) THEN NextOf[seg[p]] ELSE seg[p]]
    BY DEF EndSegment
<1>4. waits' = [p \in Process |-> IF On(p) THEN w[p].events ELSE waits[p]]
    BY DEF EndSegment
<1>5. all' = [p \in Process |-> IF On(p) THEN w[p].kind = "AND" ELSE all[p]]
    BY DEF EndSegment
<1>6. due' = [p \in Process |->
                IF ~On(p) THEN due[p]
                ELSE IF w[p].kind # "TIME" THEN <<0, 0>>
                ELSE Plus(ts[p], IF w[p].time = 0 THEN Delta ELSE <<w[p].time, 0>>)]
    BY DEF EndSegment
<1>7. todo' = [p \in Process |-> IF On(p) THEN {} ELSE todo[p]]
    BY DEF EndSegment
<1>8. newWaiting' = newWaiting \cup P
    BY DEF EndSegment
<1>9. UNCHANGED <<ts, disabled, notified, pwt, definer, changed, byRoot, tried, duration, starts>>
    BY DEF EndSegment
<1> HIDE DEF w, EndSegment
<1>10. state' \in [Process -> {"ready", "run", "wait", "timed", "dead", "paused", "queued"}]
    BY <1>2 DEF TypeOK
<1>11. seg' \in [Process -> Segment]
    BY <1>3 DEF TypeOK, OoOScheduleAssumption
<1>12. waits' \in [Process -> SUBSET Event]
    BY <1>1, <1>4 DEF TypeOK
<1>13. all' \in [Process -> BOOLEAN]
  <2>1. \A p \in P : (w[p].kind = "AND") \in BOOLEAN
      BY Zenon
  <2>2. \A p \in Process : all[p] \in BOOLEAN
      BY DEF TypeOK
  <2> QED BY <1>5, <2>1, <2>2, Zenon
<1>14. due' \in [Process -> FiniteTimestamp]
  <2>1. <<0, 0>> \in FiniteTimestamp
      BY DEF FiniteTimestamp
  <2>2. \A p \in P : Plus(ts[p], Delta) \in FiniteTimestamp
                     /\ Plus(ts[p], <<w[p].time, 0>>) \in FiniteTimestamp
      BY <1>1, DelayType DEF TypeOK
  <2> QED BY <1>6, <2>1, <2>2 DEF TypeOK
<1>15. todo' \in [Process -> SUBSET (Event \X Nat)]
    BY <1>7 DEF TypeOK
<1>16. \A p \in Process : todo'[p] \subseteq MayNotify[seg'[p]]
    BY <1>3, <1>7 DEF TypeOK
<1> QED BY <1>8, <1>9, <1>10, <1>11, <1>12, <1>13, <1>14, <1>15, <1>16
        DEF TypeOK, ProgramTypeOK, NotifyTypeOK, PredictionTypeOK

(* The definer of a process that was pushed to the ready queue.             *)
LEMMA UndefinedType ==
    ASSUME TypeOK, NEW P
    PROVE  Undefined(P) \in [Process -> Process \cup {None}]
BY DEF TypeOK, Undefined

(* A process that wakes up is in one of two states.                         *)
LEMMA WokenType ==
    ASSUME TypeOK, NEW P
    PROVE  /\ Woken \in {"ready", "queued"}
           /\ MadeReady(P) \in [Process -> Process \cup {None}]
BY UndefinedType DEF TypeOK, Woken, MadeReady

(* A prediction pass finds timestamps and processes.                        *)
LEMMA PredictionsType ==
    ASSUME TypeOK, OoOScheduleAssumption, Predictions
    PROVE  PredictionTypeOK'
<1>a. PICK tree \in {DefiningTree} :
       LET old(p) == IF p \in tree THEN Infinite ELSE pwt[p]
       IN \E w \in {[p \in Process |-> Earliest({old(p), ByEvent(p)})]} :
          LET via(p) == IF p \in tree THEN {q \in Process : state[q] # "dead"} ELSE {}
              at(q, p) == Via(q, Source(q, w), p)
          IN \E best \in {[p \in Process |-> Earliest({w[p]} \cup {at(q, p) : q \in via(p)})]} :
             LET by(p) == {q \in via(p) : Same(at(q, p), best[p])}
             IN  /\ pwt' = best
                 /\ definer' = [p \in Process |->
                       IF by(p) # {} THEN Definer(by(p), p)
                       ELSE IF p \in tree \/ Same(ByEvent(p), w[p]) THEN None
                       ELSE definer[p]]
                 /\ changed' = {p \in Process : best[p] # old(p)}
    BY DEF Predictions
<1> DEFINE old(p) == IF p \in tree THEN Infinite ELSE pwt[p]
<1> DEFINE via(p) == IF p \in tree THEN {q \in Process : state[q] # "dead"} ELSE {}
<1>b. PICK w \in {[p \in Process |-> Earliest({old(p), ByEvent(p)})]} :
          LET at(q, p) == Via(q, Source(q, w), p)
          IN \E best \in {[p \in Process |-> Earliest({w[p]} \cup {at(q, p) : q \in via(p)})]} :
             LET by(p) == {q \in via(p) : Same(at(q, p), best[p])}
             IN  /\ pwt' = best
                 /\ definer' = [p \in Process |->
                       IF by(p) # {} THEN Definer(by(p), p)
                       ELSE IF p \in tree \/ Same(ByEvent(p), w[p]) THEN None
                       ELSE definer[p]]
                 /\ changed' = {p \in Process : best[p] # old(p)}
    BY <1>a, Zenon
<1> DEFINE at(q, p) == Via(q, Source(q, w), p)
<1>c. PICK best \in {[p \in Process |-> Earliest({w[p]} \cup {at(q, p) : q \in via(p)})]} :
             LET by(p) == {q \in via(p) : Same(at(q, p), best[p])}
             IN  /\ pwt' = best
                 /\ definer' = [p \in Process |->
                       IF by(p) # {} THEN Definer(by(p), p)
                       ELSE IF p \in tree \/ Same(ByEvent(p), w[p]) THEN None
                       ELSE definer[p]]
                 /\ changed' = {p \in Process : best[p] # old(p)}
    BY <1>b, Zenon
<1> DEFINE by(p) == {q \in via(p) : Same(at(q, p), best[p])}
<1>1. /\ w = [p \in Process |-> Earliest({old(p), ByEvent(p)})]
      /\ best = [p \in Process |-> Earliest({w[p]} \cup {at(q, p) : q \in via(p)})]
    OBVIOUS
<1>2. pwt' = best /\ changed' \subseteq Process
    BY <1>c
<1>3. definer' = [p \in Process |->
                       IF by(p) # {} THEN Definer(by(p), p)
                       ELSE IF p \in tree \/ Same(ByEvent(p), w[p]) THEN None
                       ELSE definer[p]]
    BY <1>c, Zenon
<1>4. newWaiting' = {}
    BY DEF Predictions
<1>5. Infinite \in AnyTimestamp
    BY DEF AnyTimestamp
<1>6. w \in [Process -> AnyTimestamp]
  <2> SUFFICES ASSUME NEW p \in Process PROVE Earliest({old(p), ByEvent(p)}) \in AnyTimestamp
      BY <1>1
  <2>1. {old(p), ByEvent(p)} \in SUBSET AnyTimestamp
      BY <1>5, EventTimeType DEF TypeOK
  <2> QED BY <2>1, EarliestIsLeast
<1>7. \A q, p \in Process : at(q, p) \in AnyTimestamp
  <2> SUFFICES ASSUME NEW q \in Process, NEW p \in Process PROVE at(q, p) \in AnyTimestamp
      OBVIOUS
  <2>1. Source(q, w) \in AnyTimestamp
      BY <1>6 DEF Source, TypeOK, AnyTimestamp
  <2> QED BY <2>1, ViaType
<1>8. best \in [Process -> AnyTimestamp]
  <2> SUFFICES ASSUME NEW p \in Process
               PROVE  Earliest({w[p]} \cup {at(q, p) : q \in via(p)}) \in AnyTimestamp
      BY <1>1
  <2> HIDE DEF at
  <2>1. {w[p]} \cup {at(q, p) : q \in via(p)} \in SUBSET AnyTimestamp
      BY <1>6, <1>7
  <2> QED BY <2>1, EarliestIsLeast
<1>9. definer' \in [Process -> Process \cup {None}]
  <2>1. \A p \in Process : by(p) \in SUBSET Process
      OBVIOUS
  <2> HIDE DEF by
  <2>2. \A p \in Process : by(p) # {} => Definer(by(p), p) \in Process
      BY <2>1, DefinerType
  <2> QED BY <1>3, <2>2 DEF TypeOK
<1> QED BY <1>2, <1>4, <1>8, <1>9 DEF PredictionTypeOK

LEMMA RelaxType ==
    ASSUME TypeOK, OoOScheduleAssumption, Relax
    PROVE  PredictionTypeOK'
<1> DEFINE via(p) == IF state[p] = "wait" THEN changed ELSE {}
<1> DEFINE at(q, p) == Via(q, pwt[q], p)
<1>a. PICK w \in {[p \in Process |-> Earliest({pwt[p]} \cup {at(q, p) : q \in via(p)})]} :
           LET lower == {p \in Process : w[p] # pwt[p]}
           IN  /\ pwt' = w
               /\ definer' = [p \in Process |->
                     IF p \in lower THEN Definer({q \in via(p) : at(q, p) = w[p]}, p) ELSE definer[p]]
               /\ changed' = lower
               /\ phase' = IF lower = {} THEN "deliver" ELSE "relax"
    BY Zenon DEF Relax
<1> DEFINE lower == {p \in Process : w[p] # pwt[p]}
<1> DEFINE by(p) == {q \in via(p) : at(q, p) = w[p]}
<1>b. w = [p \in Process |-> Earliest({pwt[p]} \cup {at(q, p) : q \in via(p)})]
    OBVIOUS
<1>1. /\ pwt' = w /\ changed' = lower /\ newWaiting' = newWaiting
      /\ definer' = [p \in Process |-> IF p \in lower THEN Definer(by(p), p) ELSE definer[p]]
    BY <1>a, Zenon DEF Relax
<1>2. \A q, p \in Process : at(q, p) \in AnyTimestamp
    BY ViaType DEF TypeOK
<1>3. \A p \in Process : via(p) \subseteq Process
    BY DEF TypeOK
<1> HIDE DEF at, via
<1>4. ASSUME NEW p \in Process
      PROVE  /\ w[p] \in AnyTimestamp
             /\ p \in lower => by(p) # {}
  <2> DEFINE S == {pwt[p]} \cup {at(q, p) : q \in via(p)}
  <2>1. S \in SUBSET AnyTimestamp /\ pwt[p] \in S /\ pwt[p] \in AnyTimestamp
      BY <1>2, <1>3 DEF TypeOK
  <2>2. w[p] = Earliest(S)
      BY <1>b
  <2> HIDE DEF S
  <2>3. /\ w[p] \in AnyTimestamp /\ ~Before(pwt[p], w[p])
        /\ w[p] # Infinite => w[p] \in S
      BY <2>1, <2>2, EarliestIsLeast
  <2>4. w[p] = Infinite => pwt[p] = Infinite
      BY <2>1, <2>3 DEF Before
  <2> QED BY <2>3, <2>4 DEF S
<1>5. definer' \in [Process -> Process \cup {None}]
  <2>1. \A p \in Process : by(p) \in SUBSET Process
      BY <1>3
  <2> HIDE DEF by, lower
  <2>2. \A p \in Process : p \in lower => Definer(by(p), p) \in Process
      BY <1>4, <2>1, DefinerType
  <2> QED BY <1>1, <2>2 DEF TypeOK
<1>6. w \in [Process -> AnyTimestamp]
    BY <1>4, <1>b
<1> QED BY <1>1, <1>5, <1>6 DEF PredictionTypeOK, TypeOK

(* A process that takes an event gets a finite timestamp.                   *)
LEMMA DeliverType ==
    ASSUME TypeOK, Deliver
    PROVE  ProgramTypeOK' /\ PredictionTypeOK'
<1> DEFINE taker == {p \in Process : Takes(p)}
<1> DEFINE rest(p) == IF all[p] THEN waits[p] \ EventsAt(p) ELSE {}
<1> DEFINE takes == Deliverable(taker)
<1> DEFINE woken == {p \in takes : rest(p) = {}}
<1> DEFINE at(p) == Later(due[p], Plus(EventTime(p), Delta))
<1>1. state' = [p \in Process |-> IF p \in woken THEN Woken ELSE state[p]]
    BY Zenon DEF Deliver
<1>2. ts' = [p \in Process |-> IF p \in woken THEN at(p) ELSE ts[p]]
    BY Zenon DEF Deliver
<1>3. waits' = [p \in Process |-> IF p \in takes THEN rest(p) ELSE waits[p]]
    BY Zenon DEF Deliver
<1>4. due' = [p \in Process |-> IF p \in takes THEN at(p) ELSE due[p]]
    BY Zenon DEF Deliver
<1>5. definer' = MadeReady(woken) /\ newWaiting' = taker
    BY Zenon DEF Deliver
<1>6. UNCHANGED <<seg, all, disabled, pwt, changed>>
    BY DEF Deliver
<1>7. \A p \in Process : rest(p) \in SUBSET Event
    BY DEF TypeOK
<1>8. \A p \in taker : at(p) \in FiniteTimestamp
  <2> SUFFICES ASSUME NEW p \in taker PROVE at(p) \in FiniteTimestamp
      OBVIOUS
  <2>1. EventTime(p) \in FiniteTimestamp
      BY EventTimeType DEF Takes, Before, AnyTimestamp
  <2>2. Plus(EventTime(p), Delta) \in FiniteTimestamp
      BY <2>1, DelayType
  <2> QED BY <2>2 DEF Later, TypeOK
<1> HIDE DEF taker, rest, at
<1>9. woken \subseteq taker /\ takes \subseteq taker
    BY DEF Deliverable
<1> HIDE DEF woken, takes
<1>10. state' \in [Process -> {"ready", "run", "wait", "timed", "dead", "paused", "queued"}]
    BY <1>1, WokenType DEF TypeOK
<1>11. ts' \in [Process -> FiniteTimestamp] /\ due' \in [Process -> FiniteTimestamp]
    BY <1>2, <1>4, <1>8, <1>9 DEF TypeOK
<1>12. waits' \in [Process -> SUBSET Event]
    BY <1>3, <1>7 DEF TypeOK
<1>13. definer' \in [Process -> Process \cup {None}] /\ newWaiting' \subseteq Process
    BY <1>5, WokenType DEF taker
<1> QED BY <1>6, <1>10, <1>11, <1>12, <1>13 DEF TypeOK, ProgramTypeOK, PredictionTypeOK

(* The dispatched process runs its segment, the other one is put back.      *)
LEMMA DispatchType ==
    ASSUME TypeOK, OoOScheduleAssumption, NEW p \in Process, Run(p) \/ PutBack(p)
    PROVE  /\ state' \in [Process -> {"ready", "run", "wait", "timed", "dead", "paused", "queued"}]
           /\ todo' \in [Process -> SUBSET (Event \X Nat)]
           /\ \A q \in Process : todo'[q] \subseteq MayNotify[seg[q]]
           /\ tried' \subseteq Process
<1>1. MayNotify[seg[p]] \in SUBSET (Event \X Nat)
    BY DEF TypeOK, OoOScheduleAssumption
<1>2. CASE Run(p)
  <2>1. /\ state' = [state EXCEPT ![p] = "run"] /\ todo' = [todo EXCEPT ![p] = MayNotify[seg[p]]]
        /\ tried' = tried
      BY <1>2 DEF Run
  <2> QED BY <1>1, <2>1 DEF TypeOK
<1>3. CASE PutBack(p)
    BY <1>3 DEF PutBack, TypeOK
<1> QED BY <1>2, <1>3

(* Every step preserves the types.                                          *)
LEMMA TypeStep ==
    ASSUME OoOScheduleAssumption, TypeOK, [Next]_vars
    PROVE  TypeOK'
<1>a. ProgramTypeOK /\ NotifyTypeOK /\ PredictionTypeOK /\ ControlTypeOK
    BY TypeParts
<1> SUFFICES ProgramTypeOK' /\ NotifyTypeOK' /\ PredictionTypeOK' /\ ControlTypeOK'
    BY DEF TypeOK, ProgramTypeOK, NotifyTypeOK, PredictionTypeOK, ControlTypeOK
<1> USE DEF program, prediction, control, history
<1>0. CASE UNCHANGED vars
    BY <1>0, <1>a DEF vars, ProgramTypeOK, NotifyTypeOK, PredictionTypeOK, ControlTypeOK
<1>1. ASSUME NEW p \in Process, NEW n \in todo[p], Notify(p, n)
      PROVE  ProgramTypeOK' /\ NotifyTypeOK' /\ PredictionTypeOK' /\ ControlTypeOK'
  <2>1. n \in Event \X Nat
      BY <1>a DEF NotifyTypeOK
  <2>2. Plus(ts[p], <<n[2], 0>>) \in FiniteTimestamp
      BY <2>1, <1>a, DelayType DEF ProgramTypeOK
  <2>3. /\ todo' = [todo EXCEPT ![p] = @ \ {n}]
        /\ notified' = [notified EXCEPT ![n[1]] = @ \cup {Plus(ts[p], <<n[2], 0>>)}]
        /\ UNCHANGED <<state, ts, seg, waits, all, due, disabled, prediction, phase, byRoot, control>>
      BY <1>1 DEF Notify
  <2>4. NotifyTypeOK'
      BY <2>1, <2>2, <2>3, <1>a DEF NotifyTypeOK
  <2> QED BY <2>3, <2>4, <1>a DEF ProgramTypeOK, PredictionTypeOK, ControlTypeOK
<1>2. ASSUME NEW t \in Thread, Suspend(t)
      PROVE  ProgramTypeOK' /\ NotifyTypeOK' /\ PredictionTypeOK' /\ ControlTypeOK'
  <2>1. /\ ProgramTypeOK' /\ NotifyTypeOK' /\ PredictionTypeOK'
        /\ UNCHANGED <<byRoot, tried, duration, starts>>
    <3>1. EndSegment({t}) /\ {t} \in SUBSET Process
        BY <1>2 DEF Suspend, Process
    <3> QED BY <3>1, EndSegmentType
  <2>2. running' = running /\ phase' \in {"timers", "idle"}
      BY <1>2 DEF Suspend
  <2> QED BY <2>1, <2>2, <1>a DEF ControlTypeOK
<1>3. ASSUME NEW i \in Invoker, EndMethods(i)
      PROVE  ProgramTypeOK' /\ NotifyTypeOK' /\ PredictionTypeOK' /\ ControlTypeOK'
  <2>1. /\ ProgramTypeOK' /\ NotifyTypeOK' /\ PredictionTypeOK'
        /\ UNCHANGED <<byRoot, tried, duration, starts>>
    <3>1. EndSegment(QueueOf(i)) /\ QueueOf(i) \in SUBSET Process
        BY <1>3 DEF EndMethods, QueueOf, Process
    <3> QED BY <3>1, EndSegmentType
  <2>2. running' = running \ {i} /\ phase' \in {"timers", "idle"}
      BY <1>3 DEF EndMethods
  <2> QED BY <2>1, <2>2, <1>a DEF ControlTypeOK
<1>4. CASE Timers
  <2> DEFINE expired == {p \in In("timed") : due[p] # <<0, 0>>}
  <2> DEFINE woken == expired \ disabled
  <2>1. /\ state' = [p \in Process |-> IF p \in woken THEN Woken ELSE state[p]]
        /\ ts' = [p \in Process |-> IF p \in woken THEN due[p] ELSE ts[p]]
        /\ waits' = [p \in Process |-> IF p \in expired THEN {} ELSE waits[p]]
        /\ due' = [p \in Process |-> IF p \in expired \cap disabled THEN <<0, 0>> ELSE due[p]]
        /\ definer' = MadeReady(woken) /\ phase' = "predict"
        /\ UNCHANGED <<seg, all, disabled, todo, notified, pwt, newWaiting, changed, byRoot, control>>
      BY <1>4, Zenon DEF Timers
  <2> HIDE DEF expired, woken
  <2>2. definer' \in [Process -> Process \cup {None}]
      BY <2>1, WokenType
  <2>3. ProgramTypeOK'
    <3>1. Woken \in {"ready", "queued"} /\ <<0, 0>> \in FiniteTimestamp
        BY WokenType DEF FiniteTimestamp
    <3>2. state' \in [Process -> {"ready", "run", "wait", "timed", "dead", "paused", "queued"}]
        BY <2>1, <3>1, <1>a DEF ProgramTypeOK
    <3>3. waits' \in [Process -> SUBSET Event] /\ ts' \in [Process -> FiniteTimestamp]
        BY <2>1, <1>a DEF ProgramTypeOK
    <3>4. due' \in [Process -> FiniteTimestamp]
        BY <2>1, <3>1, <1>a DEF ProgramTypeOK
    <3> QED BY <2>1, <3>2, <3>3, <3>4, <1>a DEF ProgramTypeOK
  <2> QED BY <2>1, <2>2, <2>3, <1>a DEF NotifyTypeOK, PredictionTypeOK, ControlTypeOK
<1>5. CASE SkipDelivery
    BY <1>5, <1>a DEF SkipDelivery, Delivered, ProgramTypeOK, NotifyTypeOK, PredictionTypeOK, ControlTypeOK
<1>6. CASE Predictions
  <2>1. PredictionTypeOK'
      BY <1>6, PredictionsType
  <2>2. UNCHANGED <<state, program, notified, byRoot, control>> /\ phase' = "relax"
      BY <1>6 DEF Predictions
  <2> QED BY <2>1, <2>2, <1>a DEF ProgramTypeOK, NotifyTypeOK, ControlTypeOK
<1>7. CASE Relax
  <2>1. PredictionTypeOK'
      BY <1>7, RelaxType
  <2>2. UNCHANGED <<state, program, notified, byRoot, control>> /\ phase' \in {"deliver", "relax"}
      BY <1>7 DEF Relax
  <2> QED BY <2>1, <2>2, <1>a DEF ProgramTypeOK, NotifyTypeOK, ControlTypeOK
<1>8. CASE Deliver
  <2>1. ProgramTypeOK' /\ PredictionTypeOK'
      BY <1>8, DeliverType
  <2>2. /\ UNCHANGED <<seg, todo, notified, byRoot, control>>
        /\ phase' \in {"predict", "dispatch", "promote"}
      BY <1>8 DEF Deliver, Delivered
  <2> QED BY <2>1, <2>2, <1>a DEF NotifyTypeOK, ControlTypeOK
<1>9. ASSUME DispatchMethod \/ DispatchThread
      PROVE  ProgramTypeOK' /\ NotifyTypeOK' /\ PredictionTypeOK' /\ ControlTypeOK'
  <2>1. /\ UNCHANGED <<ts, seg, waits, all, due, disabled, notified, prediction, byRoot, running, duration, starts>>
        /\ phase' \in {"thread", "dispatch"}
      BY <1>9 DEF DispatchMethod, DispatchThread
  <2>2. \/ UNCHANGED <<state, todo, tried>>
        \/ \E p \in Process : Run(p) \/ PutBack(p)
        \/ \E p \in Process : Pause(p)
      BY <1>9 DEF DispatchMethod, DispatchThread, Poppable, Process
  <2>3. /\ state' \in [Process -> {"ready", "run", "wait", "timed", "dead", "paused", "queued"}]
        /\ todo' \in [Process -> SUBSET (Event \X Nat)]
        /\ \A q \in Process : todo'[q] \subseteq MayNotify[seg[q]]
        /\ tried' \subseteq Process
    <3>1. CASE UNCHANGED <<state, todo, tried>>
        BY <3>1 DEF TypeOK
    <3>2. CASE \E p \in Process : Run(p) \/ PutBack(p)
        BY <3>2, DispatchType
    <3>3. CASE \E p \in Process : Pause(p)
        BY <3>3 DEF Pause, TypeOK
    <3> QED BY <2>2, <3>1, <3>2, <3>3
  <2> QED BY <2>1, <2>3, <1>a DEF ProgramTypeOK, NotifyTypeOK, PredictionTypeOK, ControlTypeOK
<1>10. CASE Finish
  <2>1. Kept \in [Event -> SUBSET FiniteTimestamp]
      BY <1>a DEF Kept, NotifyTypeOK
  <2>2. notified' \in [Event -> SUBSET FiniteTimestamp]
      BY <1>10, <2>1, <1>a DEF Finish, NotifyTypeOK
  <2>3. ReadyInvokers \subseteq Invoker
      BY DEF ReadyInvokers, OoOScheduleAssumption
  <2>4. definer' \in [Process -> Process \cup {None}]
      BY <1>10, UndefinedType DEF Finish
  <2>5. /\ running' = running \cup ReadyInvokers /\ tried' = {} /\ phase' \in {"stopped", "idle"}
        /\ byRoot' = FALSE
        /\ UNCHANGED <<state, program, pwt, newWaiting, changed, duration, starts>>
      BY <1>10 DEF Finish
  <2> QED BY <2>2, <2>3, <2>4, <2>5, <1>a
          DEF ProgramTypeOK, NotifyTypeOK, PredictionTypeOK, ControlTypeOK
<1>11. CASE Promote
  <2>1. /\ state' = [p \in Process |->
                        IF p \in (IF CycleIsOver THEN NextCycle ELSE {}) THEN "ready" ELSE state[p]]
        /\ definer' = Undefined(IF CycleIsOver THEN NextCycle ELSE {}) /\ phase' = "dispatch"
        /\ UNCHANGED <<program, notified, pwt, newWaiting, changed, byRoot, control>>
      BY <1>11, Zenon DEF Promote
  <2>2. definer' \in [Process -> Process \cup {None}]
      BY <2>1, UndefinedType
  <2>3. state' \in [Process -> {"ready", "run", "wait", "timed", "dead", "paused", "queued"}]
      BY <2>1, <1>a DEF ProgramTypeOK
  <2> QED BY <2>1, <2>2, <2>3, <1>a
          DEF ProgramTypeOK, NotifyTypeOK, PredictionTypeOK, ControlTypeOK
<1>12. ASSUME NEW e \in MainEvents, NotifyByMain(e)
       PROVE  ProgramTypeOK' /\ NotifyTypeOK' /\ PredictionTypeOK' /\ ControlTypeOK'
  <2>1. /\ notified' = [notified EXCEPT ![e] = @ \cup {duration}]
        /\ UNCHANGED <<state, program, prediction, phase, byRoot, control>>
      BY <1>12 DEF NotifyByMain
  <2>2. notified' \in [Event -> SUBSET FiniteTimestamp]
      BY <2>1, <1>a DEF NotifyTypeOK, ControlTypeOK, OoOScheduleAssumption
  <2> QED BY <2>1, <2>2, <1>a DEF ProgramTypeOK, NotifyTypeOK, PredictionTypeOK, ControlTypeOK
<1>13. CASE Start
  <2>1. /\ phase' = "timers" /\ byRoot' = TRUE /\ starts' = starts + 1 /\ starts < MaxStarts
        /\ duration' = Plus(duration, <<RunTime, 0>>)
        /\ state' = [p \in Process |-> IF state[p] = "paused" THEN Woken ELSE state[p]]
        /\ definer' = MadeReady(In("paused"))
        /\ UNCHANGED <<program, notified, pwt, newWaiting, changed, running, tried>>
      BY <1>13 DEF Start
  <2>2. definer' \in [Process -> Process \cup {None}]
      BY <2>1, WokenType
  <2>3. duration' \in FiniteTimestamp
      BY <2>1, <1>a, DelayType DEF ControlTypeOK, OoOScheduleAssumption
  <2>4. starts' \in 0..MaxStarts
      BY <2>1, <1>a DEF ControlTypeOK, OoOScheduleAssumption
  <2>5. ProgramTypeOK'
    <3>1. Woken \in {"ready", "queued"}
        BY WokenType
    <3> QED BY <2>1, <3>1, <1>a DEF ProgramTypeOK
  <2> QED BY <2>1, <2>2, <2>3, <2>4, <2>5, <1>a DEF NotifyTypeOK, PredictionTypeOK, ControlTypeOK
<1>14. ASSUME NEW p \in Controlled, Disable(p) \/ Enable(p)
       PROVE  ProgramTypeOK' /\ NotifyTypeOK' /\ PredictionTypeOK' /\ ControlTypeOK'
  <2>1. /\ disabled' \subseteq disabled \cup {p}
        /\ UNCHANGED <<state, ts, seg, waits, all, due, todo, notified, prediction, phase, byRoot, control>>
      BY <1>14 DEF Disable, Enable
  <2> QED BY <2>1, <1>a DEF ProgramTypeOK, NotifyTypeOK, PredictionTypeOK, ControlTypeOK
<1> QED BY <1>0, <1>1, <1>2, <1>3, <1>4, <1>5, <1>6, <1>7, <1>8, <1>9, <1>10, <1>11, <1>12, <1>13, <1>14
        DEF Next

(* Whatever the program and the tables, timestamps stay finite, a pass      *)
(* computes timestamps and the queues hold processes.                       *)
THEOREM TypeCorrect == Spec => []TypeOK
<1>1. Init => TypeOK
    BY TypeInit, OoOScheduleAssumption
<1>2. TypeOK /\ [Next]_vars => TypeOK'
    BY TypeStep, OoOScheduleAssumption
<1> QED BY <1>1, <1>2, PTL DEF Spec

-----------------------------------------------------------------------------
(* A step changes the wait of a process only if it ends its segment, lets a *)
(* timer expire or delivers to it: never if it is disabled and waits for    *)
(* events.                                                                  *)
LEMMA DisabledStep ==
    ASSUME TypeOK, [Next]_vars, NEW p \in disabled, p \in Process, state[p] = "wait"
    PROVE  state'[p] = "wait" /\ waits'[p] = waits[p]
<1> USE DEF program, control
<1>0. CASE UNCHANGED vars
    BY <1>0 DEF vars
<1>1. ASSUME NEW q \in Process, NEW n \in todo[q], Notify(q, n)
      PROVE  state'[p] = "wait" /\ waits'[p] = waits[p]
    BY <1>1 DEF Notify
<1>2. ASSUME NEW P \in SUBSET In("run"), EndSegment(P)
      PROVE  state'[p] = "wait" /\ waits'[p] = waits[p]
  <2>1. p \notin P
      BY <1>2 DEF In
  <2>2. waits' = [q \in Process |-> IF q \in P THEN WaitOf[seg[q]].events ELSE waits[q]]
    <3>1. waits' = [q \in Process |-> IF q \in P THEN [r \in P |-> WaitOf[seg[r]]][q].events
                                      ELSE waits[q]]
        BY <1>2 DEF EndSegment
    <3> QED BY <3>1
  <2>3. state'[p] = state[p]
    <3> DEFINE w == [q \in P |-> WaitOf[seg[q]]]
    <3>1. state' = [q \in Process |-> IF ~(q \in P) THEN state[q]
                        ELSE CASE w[q].kind = "TIME" -> "timed"
                               [] w[q].kind = "END" -> "dead"
                               [] OTHER -> "wait"]
        BY <1>2 DEF EndSegment
    <3> HIDE DEF w
    <3> QED BY <2>1, <3>1
  <2> QED BY <2>1, <2>2, <2>3
<1>3. CASE \E t \in Thread : Suspend(t)
  <2>1. PICK t \in Thread : Suspend(t)
      BY <1>3
  <2>2. {t} \in SUBSET In("run") /\ EndSegment({t})
      BY <2>1 DEF Suspend, In, Process
  <2> QED BY <2>2, <1>2
<1>4. CASE \E i \in Invoker : EndMethods(i)
  <2>1. PICK i \in Invoker : EndMethods(i)
      BY <1>4
  <2>2. QueueOf(i) \in SUBSET In("run") /\ EndSegment(QueueOf(i))
      BY <2>1 DEF EndMethods, QueueOf, In, Process
  <2> QED BY <2>2, <1>2
<1>5. CASE Timers
  <2> DEFINE expired == {q \in In("timed") : due[q] # <<0, 0>>}
  <2>1. /\ state' = [q \in Process |-> IF q \in expired \ disabled THEN Woken ELSE state[q]]
        /\ waits' = [q \in Process |-> IF q \in expired THEN {} ELSE waits[q]]
      BY <1>5, Zenon DEF Timers
  <2>2. p \notin expired
      BY DEF In
  <2> HIDE DEF expired
  <2> QED BY <2>1, <2>2
<1>6. CASE Deliver
  <2> DEFINE takes == Deliverable({q \in Process : Takes(q)})
  <2> DEFINE rest(q) == IF all[q] THEN waits[q] \ EventsAt(q) ELSE {}
  <2>1. /\ state' = [q \in Process |-> IF q \in {r \in takes : rest(r) = {}} THEN Woken ELSE state[q]]
        /\ waits' = [q \in Process |-> IF q \in takes THEN rest(q) ELSE waits[q]]
      BY <1>6, Zenon DEF Deliver
  <2>2. p \notin takes
      BY DEF Deliverable
  <2> HIDE DEF takes, rest
  <2> QED BY <2>1, <2>2
<1>7. CASE DispatchMethod \/ DispatchThread
  <2>1. /\ waits' = waits
        /\ \/ state' = state
           \/ \E q \in In("ready") : Run(q) \/ PutBack(q) \/ Pause(q)
      BY <1>7 DEF DispatchMethod, DispatchThread, Poppable
  <2>2. ASSUME NEW q \in In("ready"), Run(q) \/ PutBack(q) \/ Pause(q)
        PROVE  state'[p] = "wait"
    <3>1. q # p /\ (state' = state \/ \E v : state' = [state EXCEPT ![q] = v])
        BY <2>2 DEF Run, PutBack, Pause, In
    <3> QED BY <3>1 DEF TypeOK
  <2> QED BY <2>1, <2>2
<1>8. CASE Promote
  <2> DEFINE awoken == IF CycleIsOver THEN NextCycle ELSE {}
  <2>1. state' = [q \in Process |-> IF q \in awoken THEN "ready" ELSE state[q]] /\ waits' = waits
      BY <1>8, Zenon DEF Promote
  <2>2. p \notin awoken
      BY DEF NextCycle, In
  <2> HIDE DEF awoken
  <2> QED BY <2>1, <2>2
<1>9. CASE Start
    BY <1>9 DEF Start
<1>10. CASE SkipDelivery \/ Predictions \/ Relax \/ Finish
    BY <1>10 DEF SkipDelivery, Predictions, Relax, Finish
<1>11. CASE (\E e \in MainEvents : NotifyByMain(e)) \/ (\E q \in Controlled : Disable(q) \/ Enable(q))
    BY <1>11 DEF NotifyByMain, Disable, Enable
<1> QED BY <1>0, <1>1, <1>3, <1>4, <1>5, <1>6, <1>7, <1>8, <1>9, <1>10, <1>11 DEF Next

(* Nothing that is notified, in whatever order, reaches a disabled process. *)
THEOREM DisabledStaysHolds == Spec => DisabledStays
<1>1. TypeOK /\ [Next]_vars => [KeepsDisabled]_vars
  <2> SUFFICES ASSUME TypeOK, [Next]_vars, NEW p \in disabled, state[p] = "wait"
               PROVE  state'[p] = "wait" /\ waits'[p] = waits[p]
      BY DEF KeepsDisabled
  <2>1. p \in Process
      BY OoOScheduleAssumption DEF TypeOK
  <2> QED BY <2>1, DisabledStep
<1> QED BY <1>1, TypeCorrect, PTL DEF Spec, DisabledStays

-----------------------------------------------------------------------------
(***************************************************************************)
(* The out-of-order simulation cannot be told from one in timestamp order:  *)
(* for every program whose tables are sound.                                *)
(*                                                                         *)
(* A process is dispatched although others are behind it in simulated time, *)
(* on the word of has_no_conflicts, which consults two tables of the        *)
(* compiler and the predicted wake-up times of those who wait. By then the  *)
(* others go on: they run, notify, wait, are woken up by each other. Why is *)
(* it right to look only once?                                              *)
(*                                                                         *)
(* The predictions are right when they are used: no process that waits is   *)
(* woken up before its predicted time (Predicted). They are computed anew   *)
(* only for some of the processes in a call, and not at all in some calls,  *)
(* so that the invariant says what is still true of them in each phase      *)
(* (PredictionOK).                                                          *)
(*                                                                         *)
(* At that moment they can be frozen: the function L that maps every        *)
(* process to the time from which it counts bounds what each of them will   *)
(* ever do (Bounds), and by the tables nobody touches what the process      *)
(* touches before its own time (HazardsAfter). Such an L is a certificate   *)
(* of the dispatch. It stays one: a wake-up or a notification was foreseen  *)
(* in it, and at the end of a segment L moves on by what the tables count   *)
(* (Advanced). So the certificates outlive every change of the predictions  *)
(* themselves, and of whoever starts to run beside or after the process.    *)
(*                                                                         *)
(* The same certificates bound who may still notify an event that somebody  *)
(* has taken (Silent), which is why notifications are taken in order.       *)
(***************************************************************************)

(* A process that may still run: a disabled one whose timer has expired     *)
(* never does.                                                              *)
Alive(q) == state[q] # "dead" /\ ~(state[q] = "timed" /\ due[q] = <<0, 0>>)

(* When a process that does not wait for events resumes, and the time from  *)
(* which q counts: that of Source, before the timers are looked at.         *)
Resumes(q) == IF state[q] = "timed" THEN due[q] ELSE ts[q]
Floor(q, w) == IF state[q] = "wait" THEN w[q] ELSE Resumes(q)

(* The wake-up time of p takes care of q.                                   *)
Covers(p, q, w) == AtMost(w[p], Via(q, Floor(q, w), p))

(* No event that has been notified wakes p up before t.                     *)
EventsAllow(p, t) ==
    \A e \in waits[p] : \A x \in notified[e] : Before(x, ts[p]) \/ AtMost(t, Plus(x, Delta))

-----------------------------------------------------------------------------
(* Between two calls the wake-up time of p takes care of every process but  *)
(* those that have entered a wait since it was computed.                    *)
KeptSound ==
    \A p \in In("wait") \ newWaiting : \A q \in Process :
        Alive(q) /\ q \notin In("wait") \cap newWaiting => Covers(p, q, pwt)

(* Within a prediction pass it takes care of every event and of every       *)
(* process but those whose own time is still to be propagated.              *)
Predicted(exceptions) ==
    \A p \in In("wait") :
        /\ EventsAllow(p, pwt[p])
        /\ \A q \in Process : Alive(q) /\ q \notin In("wait") \cap exceptions => Covers(p, q, pwt)

(* What the call has skipped the prediction for cannot be dispatched.       *)
CannotDispatch == Full /\ ReadyInvokers = {}

PredictionOK ==
    /\ phase \in {"idle", "timers", "predict", "stopped"} => KeptSound
    /\ phase = "relax" => Predicted(changed)
    /\ phase \in {"deliver", "thread"} => Predicted({})
    /\ phase \in {"promote", "dispatch"} => Predicted({}) \/ (CannotDispatch /\ KeptSound)

PhaseOK ==
    /\ phase \notin {"idle", "timers"} => \A q \in Process : state[q] = "timed" => due[q] = <<0, 0>>
    /\ phase = "stopped" => In("run") = {}
    /\ phase \notin {"dispatch", "thread"} => ReadyInvokers = {}

(* A process waits for what the segment before the next one waits for.      *)
WaitsOK ==
    \A p \in In("wait") :
        \E s \in Segment : NextOf[s] = seg[p] /\ waits[p] \subseteq WaitOf[s].events

-----------------------------------------------------------------------------
(* L[q] is a time before which q does not run its next segment.             *)
Bounds(L) ==
    \A q \in Process : Alive(q) =>
        IF state[q] = "wait"
        THEN /\ EventsAllow(q, L[q])
             /\ \/ AtMost(L[q], Plus(ts[q], Delta))
                \/ \A r \in Process : Alive(r) => AtMost(L[q], Via(r, L[r], q))
        ELSE AtMost(L[q], Resumes(q))

(* Whoever runs before t touches what segment s touches only after t.       *)
HazardsAfter(L, s, t) ==
    \A q \in Process : Alive(q) /\ Before(L[q], t)
        => Before(t, Plus(L[q], Hazard[<<seg[q], s>>]))

Safe(s, t) ==
    \E L \in [Process -> AnyTimestamp] : Bounds(L) /\ HazardsAfter(L, s, t)

RunsSafely ==
    /\ NoDataRace
    /\ \A p \in In("run") : Safe(seg[p], ts[p])

LatestSafe ==
    /\ latest \in [Segment -> AnyTimestamp]
    /\ \A s \in Segment : Safe(s, latest[s])
-----------------------------------------------------------------------------
(* EventTime is the earliest notification that p can take.                  *)
LEMMA EventTimeLeast ==
    ASSUME TypeOK, NEW p \in Process
    PROVE  /\ EventTime(p) \in AnyTimestamp
           /\ EventTime(p) # Infinite =>
                 \E e \in waits[p] : EventTime(p) \in notified[e] /\ ~Before(EventTime(p), ts[p])
           /\ \A e \in waits[p] : \A x \in notified[e] :
                 ~Before(x, ts[p]) => AtMost(EventTime(p), x)
<1> DEFINE N(e) == {x \in notified[e] : ~Before(x, ts[p])}
<1> DEFINE S == {NextNotification(e, ts[p]) : e \in waits[p]}
<1>0. /\ waits[p] \subseteq Event /\ ts[p] \in AnyTimestamp
      /\ \A e \in Event : notified[e] \subseteq AnyTimestamp
    BY DEF TypeOK, AnyTimestamp, FiniteTimestamp
<1>1. ASSUME NEW e \in waits[p]
      PROVE  /\ NextNotification(e, ts[p]) \in AnyTimestamp
             /\ NextNotification(e, ts[p]) # Infinite => NextNotification(e, ts[p]) \in N(e)
             /\ \A x \in N(e) : AtMost(NextNotification(e, ts[p]), x)
  <2>1. N(e) \in SUBSET AnyTimestamp
      BY <1>0
  <2> QED BY <2>1, EarliestIsLeast DEF NextNotification, AtMost
<1>2. /\ EventTime(p) \in AnyTimestamp
      /\ EventTime(p) # Infinite => EventTime(p) \in S
      /\ \A y \in S : AtMost(EventTime(p), y)
  <2>1. S \in SUBSET AnyTimestamp
      BY <1>1
  <2> QED BY <2>1, EarliestIsLeast DEF EventTime, AtMost
<1>3. ASSUME EventTime(p) # Infinite
      PROVE  \E e \in waits[p] : EventTime(p) \in notified[e] /\ ~Before(EventTime(p), ts[p])
  <2>1. PICK e \in waits[p] : EventTime(p) = NextNotification(e, ts[p])
      BY <1>2, <1>3
  <2>2. EventTime(p) \in N(e)
      BY <1>1, <1>3, <2>1
  <2> QED BY <2>2
<1>4. ASSUME NEW e \in waits[p], NEW x \in notified[e], ~Before(x, ts[p])
      PROVE  AtMost(EventTime(p), x)
  <2>1. x \in N(e) /\ x \in AnyTimestamp
      BY <1>0, <1>4
  <2>2. AtMost(EventTime(p), NextNotification(e, ts[p])) /\ AtMost(NextNotification(e, ts[p]), x)
      BY <1>1, <1>2, <2>1
  <2> QED BY <1>1, <1>2, <2>1, <2>2, AtMostOrder
<1> QED BY <1>2, <1>3, <1>4

(* What the events allow is what EventTime says.                            *)
LEMMA EventsAllowTime ==
    ASSUME TypeOK, NEW p \in Process, NEW t \in AnyTimestamp
    PROVE  EventsAllow(p, t) <=> AtMost(t, Plus(EventTime(p), Delta))
<1>0. /\ waits[p] \subseteq Event /\ ts[p] \in AnyTimestamp /\ Delta \in AnyTimestamp
      /\ \A e \in Event : notified[e] \subseteq AnyTimestamp /\ EventTime(p) \in AnyTimestamp
    BY EventTimeLeast DEF TypeOK, AnyTimestamp, FiniteTimestamp, Delta
<1>1. EventTime(p) \in AnyTimestamp
    BY EventTimeLeast
<1>2. ASSUME EventsAllow(p, t) PROVE AtMost(t, Plus(EventTime(p), Delta))
  <2>1. CASE EventTime(p) = Infinite
      BY <2>1, <1>0, PlusParts, AtMostOrder
  <2>2. CASE EventTime(p) # Infinite
      BY <1>2, <2>2, EventTimeLeast DEF EventsAllow
  <2> QED BY <2>1, <2>2
<1>3. ASSUME AtMost(t, Plus(EventTime(p), Delta)), NEW e \in waits[p], NEW x \in notified[e],
             ~Before(x, ts[p])
      PROVE  AtMost(t, Plus(x, Delta))
  <2>1. x \in AnyTimestamp /\ AtMost(EventTime(p), x)
      BY <1>0, <1>3, EventTimeLeast
  <2>2. AtMost(Plus(EventTime(p), Delta), Plus(x, Delta))
      BY <1>0, <1>1, <2>1, PlusOrder
  <2> QED BY <1>0, <1>1, <1>3, <2>1, <2>2, PlusType, AtMostOrder
<1> QED BY <1>2, <1>3 DEF EventsAllow

-----------------------------------------------------------------------------
(* What every step does to the processes that matters here, except for a    *)
(* notification and the end of a segment: nobody resumes earlier than was   *)
(* to be expected.                                                          *)
Unhurried ==
    /\ seg' = seg
    /\ \A e \in Event : notified'[e] \subseteq notified[e]
    /\ \A q \in Process :
        /\ Alive(q)' => Alive(q)
        /\ state'[q] = "wait" => state[q] = "wait" /\ ts'[q] = ts[q] /\ waits'[q] \subseteq waits[q]
        /\ Alive(q)' /\ state'[q] # "wait" =>
              IF state[q] = "wait"
              THEN \A t \in AnyTimestamp : EventsAllow(q, t) => AtMost(t, Resumes(q)')
              ELSE Resumes(q)' = Resumes(q)

(* The parts of the assumption and of the types that the lemmas use.        *)
LEMMA Types ==
    ASSUME OoOScheduleAssumption, TypeOK, NEW q \in Process, NEW p \in Process
    PROVE  /\ seg[q] \in Segment /\ NextOf[seg[q]] \in Segment /\ waits[q] \subseteq Event
           /\ ts[q] \in AnyTimestamp /\ due[q] \in AnyTimestamp /\ pwt[q] \in AnyTimestamp
           /\ Resumes(q) \in AnyTimestamp
           /\ \A e \in Event : notified[e] \subseteq AnyTimestamp
           /\ Delta \in AnyTimestamp /\ Infinite \in AnyTimestamp
           /\ \A s, t \in Segment : Predict[<<s, t>>] \in AnyTimestamp /\ Hazard[<<s, t>>] \in AnyTimestamp
           /\ \A t \in AnyTimestamp : Via(q, t, p) \in AnyTimestamp
<1>1. /\ Delta \in AnyTimestamp /\ Infinite \in AnyTimestamp
      /\ ts[q] \in AnyTimestamp /\ due[q] \in AnyTimestamp
      /\ \A e \in Event : notified[e] \subseteq AnyTimestamp
    BY DEF TypeOK, AnyTimestamp, FiniteTimestamp, Delta
<1>2. /\ seg[q] \in Segment /\ NextOf[seg[q]] \in Segment /\ waits[q] \subseteq Event
      /\ pwt[q] \in AnyTimestamp
      /\ \A s, t \in Segment : Predict[<<s, t>>] \in AnyTimestamp /\ Hazard[<<s, t>>] \in AnyTimestamp
    BY DEF TypeOK, OoOScheduleAssumption
<1> QED BY <1>1, <1>2, ViaType DEF Resumes

(* What takes care of a process still does if it comes later.               *)
LEMMA ViaOrder ==
    ASSUME OoOScheduleAssumption, TypeOK, NEW q \in Process, NEW p \in Process,
           NEW a \in AnyTimestamp, NEW b \in AnyTimestamp, AtMost(a, b)
    PROVE  AtMost(Via(q, a, p), Via(q, b, p))
<1>1. Predict[<<seg[q], seg[p]>>] \in AnyTimestamp
    BY Types
<1> QED BY <1>1, PlusOrder DEF Via

(* A bound that the events of a waiting process allow stays one.            *)
LEMMA EventsAllowKept ==
    ASSUME TypeOK, Unhurried, NEW q \in Process, state'[q] = "wait",
           NEW t \in AnyTimestamp, EventsAllow(q, t)
    PROVE  EventsAllow(q, t)'
<1>1. /\ ts'[q] = ts[q] /\ waits'[q] \subseteq waits[q] /\ waits[q] \subseteq Event
      /\ \A e \in Event : notified'[e] \subseteq notified[e]
    BY DEF Unhurried, TypeOK
<1> QED BY <1>1 DEF EventsAllow

(* An earlier time is allowed too.                                          *)
LEMMA EventsAllowEarlier ==
    ASSUME OoOScheduleAssumption, TypeOK, NEW q \in Process,
           NEW t \in AnyTimestamp, NEW u \in AnyTimestamp, AtMost(u, t), EventsAllow(q, t)
    PROVE  EventsAllow(q, u)
<1>1. SUFFICES ASSUME NEW e \in waits[q], NEW x \in notified[e], ~Before(x, ts[q])
               PROVE  AtMost(u, Plus(x, Delta))
    BY DEF EventsAllow
<1>2. AtMost(t, Plus(x, Delta))
    BY <1>1 DEF EventsAllow
<1>3. Plus(x, Delta) \in AnyTimestamp
    BY <1>1, Types, PlusType
<1> QED BY <1>2, <1>3, AtMostOrder

(* A wake-up time that takes care of a process still does after a step.     *)
LEMMA CoversKept ==
    ASSUME OoOScheduleAssumption, TypeOK, TypeOK', Unhurried, NEW p \in Process, NEW q \in Process,
           NEW w \in [Process -> AnyTimestamp],
           state'[p] = "wait", Alive(q)', Covers(p, q, w),
           state[q] = "wait" /\ state'[q] # "wait" => EventsAllow(q, w[q])
    PROVE  Covers(p, q, w)'
<1>1. Floor(q, w) \in AnyTimestamp /\ Floor(q, w)' \in AnyTimestamp
  <2>1. Resumes(q) \in AnyTimestamp
      BY Types
  <2>2. Resumes(q)' \in AnyTimestamp
      BY DEF Resumes, TypeOK, AnyTimestamp
  <2> QED BY <2>1, <2>2 DEF Floor
<1>2. AtMost(Floor(q, w), Floor(q, w)')
  <2>1. state'[q] = "wait" => state[q] = "wait"
      BY DEF Unhurried
  <2>2. CASE state'[q] = "wait"
      BY <2>1, <2>2, AtMostOrder DEF Floor
  <2>3. CASE state'[q] # "wait" /\ state[q] = "wait"
      BY <2>3 DEF Unhurried, Floor
  <2>4. CASE state'[q] # "wait" /\ state[q] # "wait"
    <3>1. Floor(q, w)' = Floor(q, w)
        BY <2>4 DEF Unhurried, Floor
    <3> QED BY <1>1, <3>1, AtMostOrder
  <2> QED BY <2>2, <2>3, <2>4
<1>3. AtMost(Via(q, Floor(q, w), p), Via(q, Floor(q, w)', p))
    BY <1>1, <1>2, ViaOrder
<1>4. Via(q, Floor(q, w), p) \in AnyTimestamp /\ Via(q, Floor(q, w)', p) \in AnyTimestamp
    BY <1>1, Types
<1>5. Via(q, Floor(q, w), p)' = Via(q, Floor(q, w)', p)
    BY DEF Unhurried, Via
<1> QED BY <1>3, <1>4, <1>5, AtMostOrder DEF Covers

(* So the wake-up times that have been predicted stay true.                 *)
LEMMA PredictedKept ==
    ASSUME OoOScheduleAssumption, TypeOK, TypeOK', Unhurried, pwt' = pwt, Predicted({})
    PROVE  Predicted({})'
<1> SUFFICES ASSUME NEW p \in Process, state'[p] = "wait"
             PROVE  /\ EventsAllow(p, pwt[p])'
                    /\ \A q \in Process : Alive(q)' => Covers(p, q, pwt)'
    BY DEF Predicted, In
<1>1. state[p] = "wait" /\ pwt \in [Process -> AnyTimestamp]
    BY DEF Unhurried, TypeOK
<1>2. EventsAllow(p, pwt[p])'
  <2>1. EventsAllow(p, pwt[p])
      BY <1>1 DEF Predicted, In
  <2>2. \A t \in AnyTimestamp : EventsAllow(p, t) => EventsAllow(p, t)'
      BY EventsAllowKept
  <2> QED BY <1>1, <2>1, <2>2 DEF EventsAllow
<1>3. ASSUME NEW q \in Process, Alive(q)' PROVE Covers(p, q, pwt)'
  <2>1. Covers(p, q, pwt) /\ (state[q] = "wait" => EventsAllow(q, pwt[q]))
      BY <1>1, <1>3 DEF Predicted, In, Unhurried
  <2>2. \A w \in [Process -> AnyTimestamp] : w = pwt => Covers(p, q, w)'
      BY <1>3, <2>1, CoversKept
  <2> QED BY <1>1, <2>2 DEF Covers, Floor
<1> QED BY <1>2, <1>3

(* The times kept from an earlier call stay true if nobody is woken up.     *)
LEMMA KeptSoundKept ==
    ASSUME OoOScheduleAssumption, TypeOK, TypeOK', Unhurried, UNCHANGED <<pwt, newWaiting>>, KeptSound,
           \A q \in Process : state[q] = "wait" /\ Alive(q)' => state'[q] = "wait"
    PROVE  KeptSound'
<1> SUFFICES ASSUME NEW p \in Process, NEW q \in Process, state'[p] = "wait", p \notin newWaiting,
                    Alive(q)', ~(state'[q] = "wait" /\ q \in newWaiting)
             PROVE  Covers(p, q, pwt)'
    BY DEF KeptSound, In
<1>1. pwt \in [Process -> AnyTimestamp]
    BY DEF TypeOK
<1>2. /\ state[p] = "wait" /\ Alive(q)
      /\ state[q] = "wait" <=> state'[q] = "wait"
    BY DEF Unhurried
<1>3. Covers(p, q, pwt)
    BY <1>2 DEF KeptSound, In
<1>4. \A w \in [Process -> AnyTimestamp] : w = pwt => Covers(p, q, w)'
    BY <1>2, <1>3, CoversKept
<1> QED BY <1>1, <1>4 DEF Covers, Floor

(* What a pass has predicted is more than what is kept between two calls.   *)
LEMMA PredictedIsKept ==
    ASSUME Predicted({})
    PROVE  KeptSound
BY DEF Predicted, KeptSound

(* And so does a certificate.                                               *)
LEMMA BoundsKept ==
    ASSUME OoOScheduleAssumption, TypeOK, TypeOK', Unhurried,
           NEW L \in [Process -> AnyTimestamp], Bounds(L)
    PROVE  Bounds(L)'
<1> SUFFICES ASSUME NEW q \in Process, Alive(q)'
             PROVE  IF state'[q] = "wait"
                    THEN /\ EventsAllow(q, L[q])'
                         /\ \/ AtMost(L[q], Plus(ts'[q], Delta))
                            \/ \A r \in Process : Alive(r)' => AtMost(L[q], Via(r, L[r], q)')
                    ELSE AtMost(L[q], Resumes(q)')
    BY DEF Bounds
<1>1. Alive(q) /\ (state'[q] = "wait" => state[q] = "wait" /\ ts'[q] = ts[q])
    BY DEF Unhurried
<1>2. CASE state'[q] = "wait"
  <2>1. EventsAllow(q, L[q])'
      BY <1>1, <1>2, EventsAllowKept DEF Bounds
  <2>2. \A r \in Process : Alive(r)' => Alive(r)
      BY DEF Unhurried
  <2>3. \A r \in Process : Via(r, L[r], q)' = Via(r, L[r], q)
      BY DEF Unhurried, Via
  <2> QED BY <1>1, <1>2, <2>1, <2>2, <2>3 DEF Bounds
<1>3. CASE state'[q] # "wait" /\ state[q] = "wait"
    BY <1>1, <1>3 DEF Unhurried, Bounds
<1>4. CASE state'[q] # "wait" /\ state[q] # "wait"
    BY <1>1, <1>4 DEF Unhurried, Bounds
<1> QED BY <1>2, <1>3, <1>4

(* A certificate for a segment is kept by a step that hurries nobody.       *)
LEMMA SafeKept ==
    ASSUME OoOScheduleAssumption, TypeOK, TypeOK', Unhurried,
           NEW s \in Segment, NEW t \in AnyTimestamp, Safe(s, t)
    PROVE  Safe(s, t)'
<1>1. PICK L \in [Process -> AnyTimestamp] : Bounds(L) /\ HazardsAfter(L, s, t)
    BY DEF Safe
<1>2. Bounds(L)'
    BY <1>1, BoundsKept
<1>3. HazardsAfter(L, s, t)'
    BY <1>1 DEF HazardsAfter, Unhurried
<1> QED BY <1>2, <1>3 DEF Safe

-----------------------------------------------------------------------------
(* A notification that a running process makes is in the prediction table.  *)
LEMMA NotifiedLater ==
    ASSUME OoOScheduleAssumption, TablesSound, TypeOK, WaitsOK,
           NEW p \in Process, NEW q \in Process, state[q] = "wait",
           NEW n \in MayNotify[seg[p]], n[1] \in waits[q], NEW t \in AnyTimestamp
    PROVE  /\ Plus(t, <<n[2], 0>>) \in AnyTimestamp
           /\ AtMost(Via(p, t, q), Plus(Plus(t, <<n[2], 0>>), Delta))
<1>1. /\ seg[p] \in Segment /\ seg[q] \in Segment /\ n \in Event \X Nat /\ Delta \in AnyTimestamp
      /\ Predict[<<seg[p], seg[q]>>] \in AnyTimestamp
    BY Types DEF OoOScheduleAssumption
<1>2. <<n[2], 0>> \in AnyTimestamp
    BY <1>1 DEF AnyTimestamp, FiniteTimestamp
<1>3. PICK u \in Segment : NextOf[u] = seg[q] /\ waits[q] \subseteq WaitOf[u].events
    BY DEF WaitsOK, In
<1>4. AtMost(Predict[<<seg[p], seg[q]>>], Plus(<<n[2], 0>>, Delta))
    BY <1>1, <1>3 DEF TablesSound, AtMost
<1>5. /\ Plus(<<n[2], 0>>, Delta) \in AnyTimestamp /\ Plus(t, <<n[2], 0>>) \in AnyTimestamp
    BY <1>1, <1>2, PlusType
<1>6. /\ Plus(t, Plus(<<n[2], 0>>, Delta)) \in AnyTimestamp
      /\ Plus(Plus(t, <<n[2], 0>>), Delta) \in AnyTimestamp
      /\ Via(p, t, q) \in AnyTimestamp
    BY <1>1, <1>5, PlusType, Types
<1>7. AtMost(Via(p, t, q), Plus(t, Plus(<<n[2], 0>>, Delta)))
    BY <1>1, <1>4, <1>5, PlusOrder DEF Via
<1>8. AtMost(Plus(t, Plus(<<n[2], 0>>, Delta)), Plus(Plus(t, <<n[2], 0>>), Delta))
    BY <1>1, <1>2, PlusParts
<1> QED BY <1>5, <1>6, <1>7, <1>8, AtMostOrder

(* A notification keeps the certificates: whoever waits for the event was   *)
(* expected to be woken by the process that runs.                           *)
LEMMA SafeNotify ==
    ASSUME OoOScheduleAssumption, TablesSound, TypeOK, WaitsOK, NEW p \in Process, NEW n \in todo[p],
           Notify(p, n), NEW L \in [Process -> AnyTimestamp], Bounds(L)
    PROVE  Bounds(L)'
<1> DEFINE x == Plus(ts[p], <<n[2], 0>>)
<1>1. /\ n \in MayNotify[seg[p]] /\ n \in Event \X Nat /\ state[p] = "run"
      /\ notified' = [notified EXCEPT ![n[1]] = @ \cup {x}]
      /\ UNCHANGED <<state, ts, seg, waits, due>>
    BY DEF Notify, program, TypeOK
<1>2. \A q \in Process : /\ Alive(q)' <=> Alive(q)
                         /\ Resumes(q)' = Resumes(q)
                         /\ \A t \in AnyTimestamp : \A r \in Process : Via(r, t, q)' = Via(r, t, q)
    BY <1>1 DEF Alive, Resumes, Via
<1>3. \A e \in Event : notified'[e] = IF e = n[1] THEN notified[e] \cup {x} ELSE notified[e]
    BY <1>1 DEF TypeOK
<1>4. SUFFICES ASSUME NEW q \in Process, Alive(q), state[q] = "wait"
               PROVE  EventsAllow(q, L[q])'
    BY <1>1, <1>2 DEF Bounds
<1>5. SUFFICES ASSUME NEW e \in waits[q], NEW y \in notified'[e], ~Before(y, ts[q])
               PROVE  AtMost(L[q], Plus(y, Delta))
    BY <1>1 DEF EventsAllow
<1>6. /\ e \in Event /\ L[q] \in AnyTimestamp /\ L[p] \in AnyTimestamp
      /\ ts[p] \in AnyTimestamp /\ ts[q] \in AnyTimestamp /\ Delta \in AnyTimestamp
    BY Types
<1>7. CASE y \in notified[e]
    BY <1>4, <1>5, <1>7 DEF Bounds, EventsAllow
<1>8. CASE y = x /\ e = n[1]
  <2>1. /\ x \in AnyTimestamp
        /\ AtMost(Via(p, ts[p], q), Plus(x, Delta))
      BY <1>1, <1>4, <1>6, <1>8, NotifiedLater
  <2>2. Plus(x, Delta) \in AnyTimestamp /\ Plus(ts[q], Delta) \in AnyTimestamp
      BY <1>6, <2>1, PlusType
  <2>3. CASE AtMost(L[q], Plus(ts[q], Delta))
    <3>1. AtMost(Plus(ts[q], Delta), Plus(x, Delta))
        BY <1>5, <1>6, <1>8, <2>1, PlusOrder DEF AtMost
    <3> QED BY <1>6, <1>8, <2>2, <2>3, <3>1, AtMostOrder
  <2>4. CASE \A r \in Process : Alive(r) => AtMost(L[q], Via(r, L[r], q))
    <3>1. Alive(p) /\ AtMost(L[p], ts[p])
        BY <1>1 DEF Alive, Bounds, Resumes
    <3>2. AtMost(Via(p, L[p], q), Via(p, ts[p], q))
        BY <1>6, <3>1, ViaOrder
    <3>3. Via(p, L[p], q) \in AnyTimestamp /\ Via(p, ts[p], q) \in AnyTimestamp
        BY <1>6, Types
    <3>4. AtMost(L[q], Via(p, L[p], q))
        BY <2>4, <3>1
    <3>5. AtMost(L[q], Via(p, ts[p], q))
        BY <1>6, <3>2, <3>3, <3>4, AtMostOrder
    <3> QED BY <1>6, <1>8, <2>1, <2>2, <3>3, <3>5, AtMostOrder
  <2> QED BY <1>4, <2>3, <2>4 DEF Bounds
<1>9. y \in notified[e] \/ (y = x /\ e = n[1])
  <2> HIDE DEF x
  <2>1. notified'[e] = IF e = n[1] THEN notified[e] \cup {x} ELSE notified[e]
      BY <1>3, <1>6
  <2>2. y \in notified'[e]
      OBVIOUS
  <2>3. CASE e = n[1]
      BY <2>1, <2>2, <2>3
  <2>4. CASE e # n[1]
      BY <2>1, <2>2, <2>4
  <2> QED BY <2>3, <2>4
<1> QED BY <1>7, <1>8, <1>9

-----------------------------------------------------------------------------
(* What the end of a segment does to the processes: q goes on later by what *)
(* the wait takes at least, or never.                                       *)
LEMMA EndSegmentEffect ==
    ASSUME OoOScheduleAssumption, TypeOK, NEW P \in SUBSET Process, EndSegment(P)
    PROVE  /\ ts' = ts /\ notified' = notified /\ pwt' = pwt /\ newWaiting' = newWaiting \cup P
           /\ \A q \in Process \ P : /\ state'[q] = state[q] /\ seg'[q] = seg[q] /\ waits'[q] = waits[q]
                                     /\ due'[q] = due[q]
           /\ \A q \in P : /\ seg'[q] = NextOf[seg[q]] /\ waits'[q] = WaitOf[seg[q]].events
                           /\ state'[q] \in {"timed", "dead", "wait"}
                           /\ state'[q] = "wait" => Advance(WaitOf[seg[q]]) = Delta
                           /\ state'[q] = "timed" => /\ due'[q] = Plus(ts[q], Advance(WaitOf[seg[q]]))
                                                     /\ WaitOf[seg[q]].kind = "TIME"
<1> DEFINE w == [p \in P |-> WaitOf[seg[p]]]
<1> DEFINE On(p) == p \in P
<1>1. state' = [p \in Process |-> IF ~On(p) THEN state[p]
                        ELSE CASE w[p].kind = "TIME" -> "timed"
                               [] w[p].kind = "END" -> "dead"
                               [] OTHER -> "wait"]
    BY DEF EndSegment
<1>2. seg' = [p \in Process |-> IF On(p) THEN NextOf[seg[p]] ELSE seg[p]]
    BY DEF EndSegment
<1>3. waits' = [p \in Process |-> IF On(p) THEN w[p].events ELSE waits[p]]
    BY DEF EndSegment
<1>4. due' = [p \in Process |->
                IF ~On(p) THEN due[p]
                ELSE IF w[p].kind # "TIME" THEN <<0, 0>>
                ELSE Plus(ts[p], IF w[p].time = 0 THEN Delta ELSE <<w[p].time, 0>>)]
    BY DEF EndSegment
<1>5. ts' = ts /\ notified' = notified /\ pwt' = pwt /\ newWaiting' = newWaiting \cup P
    BY DEF EndSegment
<1>6. \A q \in P : w[q] = WaitOf[seg[q]] /\ w[q].time \in Nat
    BY DEF TypeOK, OoOScheduleAssumption
<1> HIDE DEF w
<1>7. ASSUME NEW q \in Process \ P
      PROVE  state'[q] = state[q] /\ seg'[q] = seg[q] /\ waits'[q] = waits[q] /\ due'[q] = due[q]
    BY <1>1, <1>2, <1>3, <1>4, <1>7
<1>8. ASSUME NEW q \in P
      PROVE  /\ seg'[q] = NextOf[seg[q]] /\ waits'[q] = WaitOf[seg[q]].events
             /\ state'[q] \in {"timed", "dead", "wait"}
             /\ state'[q] = "wait" => Advance(WaitOf[seg[q]]) = Delta
             /\ state'[q] = "timed" => /\ due'[q] = Plus(ts[q], Advance(WaitOf[seg[q]]))
                                       /\ WaitOf[seg[q]].kind = "TIME"
  <2>1. seg'[q] = NextOf[seg[q]] /\ waits'[q] = w[q].events
      BY <1>2, <1>3, <1>8
  <2>2. state'[q] = CASE w[q].kind = "TIME" -> "timed" [] w[q].kind = "END" -> "dead" [] OTHER -> "wait"
      BY <1>1, <1>8
  <2>3. w[q].kind = "TIME" =>
            due'[q] = Plus(ts[q], IF w[q].time = 0 THEN Delta ELSE <<w[q].time, 0>>)
      BY <1>4, <1>8
  <2>4. Advance(w[q]) = CASE w[q].kind = "END" -> Infinite
                          [] w[q].kind = "TIME" /\ w[q].time > 0 -> <<w[q].time, 0>>
                          [] OTHER -> Delta
      BY DEF Advance
  <2>5. CASE w[q].kind = "TIME"
      BY <1>6, <1>8, <2>1, <2>2, <2>3, <2>4, <2>5
  <2>6. CASE w[q].kind = "END"
      BY <1>6, <1>8, <2>1, <2>2, <2>6
  <2>7. CASE w[q].kind # "TIME" /\ w[q].kind # "END"
      BY <1>6, <1>8, <2>1, <2>2, <2>4, <2>7
  <2> QED BY <2>5, <2>6, <2>7
<1> QED BY <1>5, <1>7, <1>8

(* Advance is a timestamp, and the tables add up along a process.           *)
LEMMA AdvanceType ==
    ASSUME OoOScheduleAssumption, NEW s \in Segment
    PROVE  Advance(WaitOf[s]) \in AnyTimestamp
<1>1. WaitOf[s].time \in Nat
    BY DEF OoOScheduleAssumption
<1> QED BY <1>1 DEF Advance, AnyTimestamp, FiniteTimestamp, Delta

(* What a table promises of a segment it promises, after the wait at its    *)
(* end, of the segment that follows.                                        *)
LEMMA TableStep ==
    ASSUME OoOScheduleAssumption, TablesSound, NEW s \in Segment, NEW t \in Segment,
           NEW table \in {Predict, Hazard}, NEW a \in AnyTimestamp
    PROVE  AtMost(Plus(a, table[<<s, t>>]), Plus(Plus(a, Advance(WaitOf[s])), table[<<NextOf[s], t>>]))
<1> DEFINE b == Advance(WaitOf[s])
<1> DEFINE c == table[<<NextOf[s], t>>]
<1>1. /\ NextOf[s] \in Segment /\ c \in AnyTimestamp /\ table[<<s, t>>] \in AnyTimestamp
    BY DEF OoOScheduleAssumption
<1>2. b \in AnyTimestamp
    BY AdvanceType
<1>3. AtMost(table[<<s, t>>], Plus(b, c))
    BY DEF TablesSound, AtMost
<1> HIDE DEF b, c
<1>4. /\ Plus(b, c) \in AnyTimestamp /\ Plus(a, Plus(b, c)) \in AnyTimestamp
      /\ Plus(a, b) \in AnyTimestamp /\ Plus(Plus(a, b), c) \in AnyTimestamp
      /\ Plus(a, table[<<s, t>>]) \in AnyTimestamp
    BY <1>1, <1>2, PlusType
<1>5. AtMost(Plus(a, table[<<s, t>>]), Plus(a, Plus(b, c)))
    BY <1>1, <1>3, <1>4, PlusOrder
<1>6. AtMost(Plus(a, Plus(b, c)), Plus(Plus(a, b), c))
    BY <1>1, <1>2, PlusParts
<1> QED BY <1>4, <1>5, <1>6, AtMostOrder DEF b, c

(* The certificate after the end of a segment: whoever has ended it goes on *)
(* later by what the tables count for its wait.                             *)
Advanced(L, P) ==
    [q \in Process |-> IF q \in P THEN Plus(L[q], Advance(WaitOf[seg[q]])) ELSE L[q]]

(* It is a certificate again, and the sums with the tables have not become  *)
(* earlier.                                                                 *)
LEMMA AdvancedBounds ==
    ASSUME OoOScheduleAssumption, TablesSound, TypeOK, TypeOK', NEW P \in SUBSET In("run"), EndSegment(P),
           NEW L \in [Process -> AnyTimestamp], NEW M, M = Advanced(L, P), Bounds(L)
    PROVE  /\ M \in [Process -> AnyTimestamp]
           /\ \A q \in Process : Alive(q)' => Alive(q) /\ AtMost(L[q], M[q])
           /\ \A q, r \in Process : \A table \in {Predict, Hazard} : \A t \in Segment :
                 AtMost(Plus(L[r], table[<<seg[r], t>>]), Plus(M[r], table[<<seg'[r], t>>]))
           /\ \A q \in Process : Alive(q)' =>
                 IF state'[q] = "wait"
                 THEN /\ EventsAllow(q, M[q])'
                      /\ \/ AtMost(M[q], Plus(ts'[q], Delta))
                         \/ \A r \in Process : Alive(r)' => AtMost(M[q], Via(r, M[r], q)')
                 ELSE AtMost(M[q], Resumes(q)')
<1> DEFINE adv(q) == Advance(WaitOf[seg[q]])
<1>0. P \in SUBSET Process /\ \A q \in P : state[q] = "run"
    BY DEF In
<1>1. /\ ts' = ts /\ notified' = notified
      /\ \A q \in Process \ P : /\ state'[q] = state[q] /\ seg'[q] = seg[q] /\ waits'[q] = waits[q]
                                /\ due'[q] = due[q]
      /\ \A q \in P : /\ seg'[q] = NextOf[seg[q]]
                      /\ state'[q] \in {"timed", "dead", "wait"}
                      /\ state'[q] = "wait" => adv(q) = Delta
                      /\ state'[q] = "timed" => due'[q] = Plus(ts[q], adv(q))
    BY <1>0, EndSegmentEffect
<1>2. \A q \in Process : /\ seg[q] \in Segment /\ adv(q) \in AnyTimestamp /\ L[q] \in AnyTimestamp
                         /\ ts[q] \in AnyTimestamp /\ Resumes(q) \in AnyTimestamp
                         /\ Resumes(q)' \in AnyTimestamp
  <2>1. ASSUME NEW q \in Process
        PROVE  /\ seg[q] \in Segment /\ L[q] \in AnyTimestamp /\ ts[q] \in AnyTimestamp
               /\ Resumes(q) \in AnyTimestamp
      BY Types
  <2>2. ASSUME NEW q \in Process PROVE Resumes(q)' \in AnyTimestamp
      BY DEF Resumes, TypeOK, AnyTimestamp
  <2> QED BY <2>1, <2>2, AdvanceType
<1>3. Delta \in AnyTimestamp /\ \A e \in Event : notified[e] \subseteq AnyTimestamp
    BY DEF TypeOK, AnyTimestamp, FiniteTimestamp, Delta
<1> HIDE DEF adv
<1>4. \A q \in Process : /\ q \in P => M[q] = Plus(L[q], adv(q))
                         /\ q \notin P => M[q] = L[q]
    BY DEF Advanced, adv
<1>5. M \in [Process -> AnyTimestamp]
  <2>1. \A q \in Process : M[q] \in AnyTimestamp
      BY <1>2, <1>4, PlusType
  <2> QED BY <2>1 DEF Advanced
<1>6. \A q \in Process : AtMost(L[q], M[q])
  <2> SUFFICES ASSUME NEW q \in Process PROVE AtMost(L[q], M[q])
      OBVIOUS
  <2>1. AtMost(L[q], Plus(L[q], adv(q))) /\ AtMost(L[q], L[q])
      BY <1>2, PlusParts, AtMostOrder
  <2> QED BY <1>4, <2>1
<1>7. \A q \in Process : Alive(q)' => Alive(q)
    BY <1>0, <1>1 DEF Alive
<1>8. ASSUME NEW r \in Process, NEW table \in {Predict, Hazard}, NEW t \in Segment
      PROVE  AtMost(Plus(L[r], table[<<seg[r], t>>]), Plus(M[r], table[<<seg'[r], t>>]))
  <2>1. CASE r \in P
    <3>1. AtMost(Plus(L[r], table[<<seg[r], t>>]),
                 Plus(Plus(L[r], adv(r)), table[<<NextOf[seg[r]], t>>]))
        BY <1>2, TableStep DEF adv
    <3> QED BY <1>1, <1>4, <2>1, <3>1
  <2>2. CASE r \notin P
    <3>1. M[r] = L[r] /\ seg'[r] = seg[r]
        BY <1>1, <1>4, <2>2
    <3>2. table[<<seg[r], t>>] \in AnyTimestamp
        BY <1>2 DEF OoOScheduleAssumption
    <3>3. Plus(L[r], table[<<seg[r], t>>]) \in AnyTimestamp
        BY <1>2, <3>2, PlusType
    <3> QED BY <3>1, <3>3, AtMostOrder
  <2> QED BY <2>1, <2>2
<1>9. ASSUME NEW q \in Process, Alive(q)', state'[q] # "wait"
      PROVE  AtMost(M[q], Resumes(q)')
  <2>1. CASE q \in P
    <3>1. state'[q] = "timed" /\ due'[q] = Plus(ts[q], adv(q))
        BY <1>1, <1>9, <2>1 DEF Alive
    <3>2. AtMost(L[q], ts[q])
        BY <1>0, <1>7, <1>9, <2>1 DEF Bounds, Resumes
    <3>3. AtMost(Plus(L[q], adv(q)), Plus(ts[q], adv(q)))
        BY <1>2, <3>2, PlusOrder
    <3> QED BY <1>4, <2>1, <3>1, <3>3 DEF Resumes
  <2>2. CASE q \notin P
      BY <1>1, <1>4, <1>7, <1>9, <2>2 DEF Bounds, Resumes
  <2> QED BY <2>1, <2>2
<1>10. ASSUME NEW q \in Process, Alive(q)', state'[q] = "wait"
       PROVE  /\ EventsAllow(q, M[q])'
              /\ \/ AtMost(M[q], Plus(ts'[q], Delta))
                 \/ \A r \in Process : Alive(r)' => AtMost(M[q], Via(r, M[r], q)')
  <2>1. CASE q \in P
    <3>1. M[q] = Plus(L[q], Delta)
        BY <1>1, <1>4, <1>10, <2>1
    <3>2. AtMost(L[q], ts[q])
        BY <1>0, <1>7, <1>10, <2>1 DEF Bounds, Resumes
    <3>3. AtMost(M[q], Plus(ts[q], Delta))
        BY <1>2, <1>3, <3>1, <3>2, PlusOrder
    <3>4. ASSUME NEW e \in waits'[q], NEW x \in notified'[e], ~Before(x, ts[q])
          PROVE  AtMost(M[q], Plus(x, Delta))
      <4>1. x \in AnyTimestamp
        <5>1. e \in Event
            BY DEF TypeOK
        <5> QED BY <1>1, <1>3, <3>4, <5>1
      <4>2. AtMost(Plus(ts[q], Delta), Plus(x, Delta))
          BY <1>2, <1>3, <3>4, <4>1, PlusOrder DEF AtMost
      <4>3. Plus(ts[q], Delta) \in AnyTimestamp /\ Plus(x, Delta) \in AnyTimestamp
          BY <1>2, <1>3, <4>1, PlusType
      <4> QED BY <1>5, <3>3, <4>2, <4>3, AtMostOrder
    <3> QED BY <1>1, <3>3, <3>4 DEF EventsAllow
  <2>2. CASE q \notin P
    <3>1. /\ M[q] = L[q] /\ ts'[q] = ts[q] /\ notified' = notified /\ waits'[q] = waits[q]
          /\ state[q] = "wait" /\ seg'[q] = seg[q] /\ Alive(q)
        BY <1>1, <1>4, <1>7, <1>10, <2>2
    <3>2. EventsAllow(q, M[q])'
        BY <3>1 DEF Bounds, EventsAllow
    <3>3. ASSUME NEW r \in Process, Alive(r)', AtMost(L[q], Via(r, L[r], q))
          PROVE  AtMost(M[q], Via(r, M[r], q)')
      <4>1. AtMost(Via(r, L[r], q), Plus(M[r], Predict[<<seg'[r], seg[q]>>]))
          BY <1>2, <1>8 DEF Via
      <4>2. Via(r, M[r], q)' = Plus(M[r], Predict[<<seg'[r], seg[q]>>])
          BY <3>1 DEF Via
      <4>3. Via(r, L[r], q) \in AnyTimestamp /\ Via(r, M[r], q)' \in AnyTimestamp
        <5>1. Via(r, L[r], q) \in AnyTimestamp
            BY <1>2, ViaType
        <5>2. Predict[<<seg'[r], seg[q]>>] \in AnyTimestamp
            BY <1>2 DEF TypeOK, OoOScheduleAssumption
        <5> QED BY <1>5, <4>2, <5>1, <5>2, PlusType
      <4> QED BY <1>2, <3>1, <3>3, <4>1, <4>2, <4>3, AtMostOrder
    <3> QED BY <1>7, <3>1, <3>2, <3>3 DEF Bounds
  <2> QED BY <2>1, <2>2
<1> QED BY <1>5, <1>6, <1>7, <1>8, <1>9, <1>10

(* So the end of a segment keeps the certificates.                          *)
LEMMA SafeEnd ==
    ASSUME OoOScheduleAssumption, TablesSound, TypeOK, TypeOK', NEW P \in SUBSET In("run"), EndSegment(P),
           NEW s \in Segment, NEW t \in AnyTimestamp, Safe(s, t)
    PROVE  Safe(s, t)'
<1>1. PICK L \in [Process -> AnyTimestamp] : Bounds(L) /\ HazardsAfter(L, s, t)
    BY DEF Safe
<1>2. PICK M : M = Advanced(L, P)
    OBVIOUS
<1>3. /\ M \in [Process -> AnyTimestamp]
      /\ \A q \in Process : Alive(q)' => Alive(q) /\ AtMost(L[q], M[q])
      /\ \A q \in Process :
            AtMost(Plus(L[q], Hazard[<<seg[q], s>>]), Plus(M[q], Hazard[<<seg'[q], s>>]))
    BY <1>1, <1>2, AdvancedBounds
<1>4. Bounds(M)'
    BY <1>1, <1>2, AdvancedBounds DEF Bounds
<1>5. ASSUME NEW q \in Process, Alive(q)', Before(M[q], t)
      PROVE  Before(t, Plus(M[q], Hazard[<<seg'[q], s>>]))
  <2>1. /\ Hazard[<<seg[q], s>>] \in AnyTimestamp /\ Hazard[<<seg'[q], s>>] \in AnyTimestamp
        /\ L[q] \in AnyTimestamp /\ M[q] \in AnyTimestamp
      BY <1>3 DEF TypeOK, OoOScheduleAssumption
  <2>2. /\ Plus(L[q], Hazard[<<seg[q], s>>]) \in AnyTimestamp
        /\ Plus(M[q], Hazard[<<seg'[q], s>>]) \in AnyTimestamp
      BY <2>1, PlusType
  <2>3. Before(L[q], t)
      BY <1>3, <1>5, <2>1, AtMostOrder
  <2>4. Before(t, Plus(L[q], Hazard[<<seg[q], s>>]))
      BY <1>1, <1>3, <1>5, <2>3 DEF HazardsAfter
  <2> QED BY <1>3, <2>2, <2>4, AtMostOrder
<1>6. HazardsAfter(M, s, t)'
    BY <1>5 DEF HazardsAfter
<1> QED BY <1>3, <1>4, <1>6 DEF Safe

-----------------------------------------------------------------------------
(* The steps of the scheduler, one after the other.                         *)

(* Processes go from one ready queue to another or start to run.            *)
LEMMA RelabelUnhurried ==
    ASSUME UNCHANGED <<ts, seg, waits, due>>, \A e \in Event : notified'[e] \subseteq notified[e],
           \A q \in Process : \/ state'[q] = state[q]
                              \/ {state[q], state'[q]} \cap {"wait", "timed", "dead"} = {}
    PROVE  Unhurried /\ \A q \in Process : state[q] = "wait" => state'[q] = "wait"
BY DEF Unhurried, Alive, Resumes

(* A timer resumes its process when it was due; nobody starts to run.       *)
LEMMA TimersUnhurried ==
    ASSUME TypeOK, Timers
    PROVE  /\ Unhurried
           /\ \A q \in Process : /\ state[q] = "wait" => state'[q] = "wait"
                                 /\ state'[q] = "run" => state[q] = "run"
                                 /\ state'[q] = "timed" => due'[q] = <<0, 0>>
<1> DEFINE expired == {p \in In("timed") : due[p] # <<0, 0>>}
<1> DEFINE woken == expired \ disabled
<1>1. /\ state' = [p \in Process |-> IF p \in woken THEN Woken ELSE state[p]]
      /\ ts' = [p \in Process |-> IF p \in woken THEN due[p] ELSE ts[p]]
      /\ waits' = [p \in Process |-> IF p \in expired THEN {} ELSE waits[p]]
      /\ due' = [p \in Process |-> IF p \in expired \cap disabled THEN <<0, 0>> ELSE due[p]]
      /\ UNCHANGED <<seg, notified>>
    BY Zenon DEF Timers
<1>2. \A q \in Process : q \in expired <=> state[q] = "timed" /\ due[q] # <<0, 0>>
    BY DEF In
<1>3. Woken \in {"ready", "queued"}
    BY WokenType
<1>4. woken \subseteq expired /\ expired \cap disabled = expired \ woken
    OBVIOUS
<1> HIDE DEF expired, woken
<1>5. ASSUME NEW q \in Process
      PROVE  /\ q \in woken => state'[q] \in {"ready", "queued"} /\ ts'[q] = due[q]
             /\ q \notin woken => state'[q] = state[q] /\ ts'[q] = ts[q]
             /\ q \in expired \ woken => due'[q] = <<0, 0>>
             /\ q \notin expired => due'[q] = due[q] /\ waits'[q] = waits[q]
    BY <1>1, <1>3, <1>4
<1>6. ASSUME NEW q \in Process
      PROVE  /\ Alive(q)' => Alive(q)
             /\ state'[q] = "wait" => state[q] = "wait" /\ ts'[q] = ts[q] /\ waits'[q] = waits[q]
             /\ state[q] = "wait" => state'[q] = "wait"
             /\ Alive(q)' /\ state'[q] # "wait" => Resumes(q)' = Resumes(q)
             /\ state'[q] = "run" => state[q] = "run"
             /\ state'[q] = "timed" => due'[q] = <<0, 0>>
  <2>1. CASE q \in woken
      BY <1>2, <1>4, <1>5, <2>1 DEF Alive, Resumes
  <2>2. CASE q \in expired \ woken
      BY <1>2, <1>4, <1>5, <2>2 DEF Alive, Resumes
  <2>3. CASE q \notin expired
      BY <1>2, <1>4, <1>5, <2>3 DEF Alive, Resumes
  <2> QED BY <2>1, <2>2, <2>3
<1> QED BY <1>1, <1>6 DEF Unhurried

(* A delivery resumes a process just after the notification that ends its   *)
(* wait, which is what its events allowed.                                  *)
LEMMA DeliverUnhurried ==
    ASSUME OoOScheduleAssumption, TypeOK, Deliver
    PROVE  /\ Unhurried /\ pwt' = pwt
           /\ \A q \in Process : /\ state'[q] = "run" => state[q] = "run"
                                 /\ state'[q] = "timed" => state[q] = "timed" /\ due'[q] = due[q]
<1> DEFINE taker == {p \in Process : Takes(p)}
<1> DEFINE rest(p) == IF all[p] THEN waits[p] \ EventsAt(p) ELSE {}
<1> DEFINE takes == Deliverable(taker)
<1> DEFINE woken == {p \in takes : rest(p) = {}}
<1> DEFINE at(p) == Later(due[p], Plus(EventTime(p), Delta))
<1>1. /\ state' = [p \in Process |-> IF p \in woken THEN Woken ELSE state[p]]
      /\ ts' = [p \in Process |-> IF p \in woken THEN at(p) ELSE ts[p]]
      /\ waits' = [p \in Process |-> IF p \in takes THEN rest(p) ELSE waits[p]]
      /\ due' = [p \in Process |-> IF p \in takes THEN at(p) ELSE due[p]]
      /\ UNCHANGED <<seg, notified, pwt>>
    BY Zenon DEF Deliver
<1>2. woken \subseteq takes /\ \A q \in takes : q \in Process /\ state[q] = "wait"
    BY DEF Deliverable, Takes
<1>3. Woken \in {"ready", "queued"}
    BY WokenType
<1>4. \A q \in Process : rest(q) \subseteq waits[q]
    OBVIOUS
<1>5. ASSUME NEW q \in Process, NEW t \in AnyTimestamp, EventsAllow(q, t)
      PROVE  AtMost(t, at(q))
  <2>1. AtMost(t, Plus(EventTime(q), Delta))
      BY <1>5, EventsAllowTime
  <2>2. /\ due[q] \in AnyTimestamp /\ Plus(EventTime(q), Delta) \in AnyTimestamp
      BY Types, EventTimeType, PlusType
  <2>3. AtMost(Plus(EventTime(q), Delta), at(q)) /\ at(q) \in AnyTimestamp
      BY <2>2, LaterOrder
  <2> QED BY <2>1, <2>2, <2>3, AtMostOrder
<1> HIDE DEF takes, woken, rest, at
<1>6. ASSUME NEW q \in Process
      PROVE  /\ q \in woken => state'[q] \in {"ready", "queued"} /\ ts'[q] = at(q)
             /\ q \notin woken => state'[q] = state[q] /\ ts'[q] = ts[q]
             /\ waits'[q] \subseteq waits[q]
             /\ q \notin takes => due'[q] = due[q]
    BY <1>1, <1>3, <1>4
<1>7. ASSUME NEW q \in Process
      PROVE  /\ Alive(q)' => Alive(q)
             /\ state'[q] = "wait" => state[q] = "wait" /\ ts'[q] = ts[q]
             /\ Alive(q)' /\ state'[q] # "wait" =>
                   IF state[q] = "wait"
                   THEN \A t \in AnyTimestamp : EventsAllow(q, t) => AtMost(t, Resumes(q)')
                   ELSE Resumes(q)' = Resumes(q)
             /\ state'[q] = "run" => state[q] = "run"
             /\ state'[q] = "timed" => state[q] = "timed" /\ due'[q] = due[q]
  <2>1. CASE q \in woken
    <3>1. Resumes(q)' = at(q) /\ state[q] = "wait" /\ state'[q] \in {"ready", "queued"}
        BY <1>2, <1>6, <2>1 DEF Resumes
    <3> QED BY <1>5, <3>1 DEF Alive
  <2>2. CASE q \in takes \ woken
      BY <1>2, <1>6, <2>2 DEF Alive
  <2>3. CASE q \notin takes
      BY <1>2, <1>6, <2>3 DEF Alive, Resumes
  <2> QED BY <2>1, <2>2, <2>3
<1> QED BY <1>1, <1>6, <1>7 DEF Unhurried

(* What the other steps of a call do to the processes.                      *)
LEMMA OtherUnhurried ==
    ASSUME TypeOK,
           \/ SkipDelivery \/ Predictions \/ Relax \/ Promote
           \/ DispatchMethod \/ DispatchThread \/ Finish \/ Start
           \/ UNCHANGED vars \/ \E p \in Controlled : Disable(p) \/ Enable(p)
    PROVE  /\ Unhurried /\ UNCHANGED <<ts, seg, waits, due>>
           /\ \A q \in Process : \/ state'[q] = state[q]
                                 \/ {state[q], state'[q]} \cap {"wait", "timed", "dead"} = {}
<1> USE DEF program, control, prediction
<1>1. UNCHANGED <<ts, seg, waits, due>>
    BY DEF SkipDelivery, Predictions, Relax, Promote, DispatchMethod, DispatchThread, Finish, Start,
           vars, Disable, Enable
<1>2. \A e \in Event : notified'[e] \subseteq notified[e]
  <2>1. CASE Finish
      BY <2>1 DEF Finish, Kept
  <2>2. CASE ~Finish
      BY <2>2 DEF SkipDelivery, Predictions, Relax, Promote, DispatchMethod, DispatchThread, Start,
           vars, Disable, Enable
  <2> QED BY <2>1, <2>2
<1>3. ASSUME NEW q \in Process
      PROVE  \/ state'[q] = state[q]
             \/ {state[q], state'[q]} \cap {"wait", "timed", "dead"} = {}
  <2>1. CASE SkipDelivery \/ Predictions \/ Relax \/ Finish \/ UNCHANGED vars
             \/ \E p \in Controlled : Disable(p) \/ Enable(p)
      BY <2>1 DEF SkipDelivery, Predictions, Relax, Finish, vars, Disable, Enable
  <2>2. CASE Promote
    <3>1. state' = [p \in Process |->
                        IF p \in (IF CycleIsOver THEN NextCycle ELSE {}) THEN "ready" ELSE state[p]]
        BY <2>2, Zenon DEF Promote
    <3>2. \A p \in (IF CycleIsOver THEN NextCycle ELSE {}) : state[p] = "queued"
        BY DEF NextCycle, In
    <3> QED BY <3>1, <3>2
  <2>3. CASE DispatchMethod \/ DispatchThread
    <3>1. state' = state \/ \E p \in In("ready") : Run(p) \/ PutBack(p) \/ Pause(p)
        BY <2>3 DEF DispatchMethod, DispatchThread, Poppable
    <3>2. ASSUME NEW p \in In("ready"), Run(p) \/ PutBack(p) \/ Pause(p)
          PROVE  state'[q] = state[q] \/ (state[q] = "ready" /\ state'[q] \in {"run", "paused"})
      <4>1. state' = state \/ \E v \in {"run", "paused"} : state' = [state EXCEPT ![p] = v]
          BY <3>2 DEF Run, PutBack, Pause
      <4> QED BY <4>1, <3>2 DEF In, TypeOK
    <3> QED BY <3>1, <3>2
  <2>4. CASE Start
    <3>1. Woken \in {"ready", "queued"}
        BY WokenType
    <3> QED BY <2>4, <3>1 DEF Start
  <2> QED BY <2>1, <2>2, <2>3, <2>4
<1> QED BY <1>1, <1>2, <1>3, RelabelUnhurried

(* Every step is one of three kinds, or sc_main notifies an event.          *)
LEMMA StepKinds ==
    ASSUME OoOScheduleAssumption, TypeOK, [Next]_vars
    PROVE  \/ Unhurried
           \/ \E p \in Process : \E n \in todo[p] : Notify(p, n)
           \/ \E P \in SUBSET In("run") : EndSegment(P)
           \/ \E e \in MainEvents : NotifyByMain(e)
<1>1. ASSUME NEW t \in Thread, Suspend(t) PROVE \E P \in SUBSET In("run") : EndSegment(P)
  <2>1. {t} \in SUBSET In("run") /\ EndSegment({t})
      BY <1>1 DEF Suspend, In, Process
  <2> QED BY <2>1
<1>2. ASSUME NEW i \in Invoker, EndMethods(i) PROVE \E P \in SUBSET In("run") : EndSegment(P)
  <2>1. QueueOf(i) \in SUBSET In("run") /\ EndSegment(QueueOf(i))
      BY <1>2 DEF EndMethods, QueueOf, In, Process
  <2> QED BY <2>1
<1> QED BY <1>1, <1>2, TimersUnhurried, DeliverUnhurried, OtherUnhurried DEF Next

-----------------------------------------------------------------------------
(* The phases, and what the processes wait for.                             *)
LEMMA ReadyInvokersKept ==
    ASSUME running' = running, \A q \in Process : state'[q] = "run" => state[q] = "run"
    PROVE  ReadyInvokers' \subseteq ReadyInvokers /\ In("run")' \subseteq In("run")
BY DEF ReadyInvokers, In, Process

(* No step breaks what is true of the phases.                               *)
LEMMA PhaseStep ==
    ASSUME OoOScheduleAssumption, TypeOK, PhaseOK, [Next]_vars
    PROVE  PhaseOK'
<1> USE DEF program, control, prediction
<1>0. CASE UNCHANGED vars \/ \E p \in Controlled : Disable(p) \/ Enable(p)
  <2>1. UNCHANGED <<state, due, running, phase>>
      BY <1>0 DEF vars, Disable, Enable
  <2> QED BY <2>1 DEF PhaseOK, In, ReadyInvokers
<1>1. CASE (\E p \in Process : \E n \in todo[p] : Notify(p, n)) \/ (\E e \in MainEvents : NotifyByMain(e))
  <2>1. UNCHANGED <<state, due, running, phase>>
      BY <1>1 DEF Notify, NotifyByMain
  <2> QED BY <2>1 DEF PhaseOK, In, ReadyInvokers
<1>2. ASSUME NEW t \in Thread, Suspend(t) PROVE PhaseOK'
  <2>1. {t} \in SUBSET Process /\ EndSegment({t}) /\ phase = "idle" /\ phase' \in {"idle", "timers"}
        /\ running' = running
      BY <1>2 DEF Suspend, Process
  <2>2. \A q \in Process : state'[q] = "run" => state[q] = "run"
      BY <2>1, EndSegmentEffect
  <2> QED BY <2>1, <2>2, ReadyInvokersKept DEF PhaseOK
<1>3. ASSUME NEW i \in Invoker, EndMethods(i) PROVE PhaseOK'
  <2>1. QueueOf(i) \in SUBSET Process /\ EndSegment(QueueOf(i)) /\ phase = "idle"
        /\ phase' \in {"idle", "timers"} /\ running' = running \ {i}
      BY <1>3 DEF EndMethods, QueueOf, Process
  <2>2. \A q \in Process : state'[q] = "run" => state[q] = "run" /\ q \notin QueueOf(i)
      BY <2>1, EndSegmentEffect
  <2>3. ASSUME NEW m \in Method, state'[m] = "run" PROVE InvokerOf[m] \in running'
    <3>1. state[m] = "run" /\ InvokerOf[m] # i
        BY <2>2, <2>3 DEF QueueOf, Process
    <3>2. InvokerOf[m] \in running
        BY <2>1, <3>1 DEF PhaseOK, ReadyInvokers, In, Process
    <3> QED BY <2>1, <3>1, <3>2
  <2>4. ReadyInvokers' = {}
      BY <2>3 DEF ReadyInvokers, In
  <2> QED BY <2>1, <2>4 DEF PhaseOK
<1>4. CASE Timers
  <2>1. phase = "timers" /\ phase' = "predict" /\ running' = running
      BY <1>4 DEF Timers
  <2> QED BY <1>4, <2>1, TimersUnhurried, ReadyInvokersKept DEF PhaseOK
<1>5. CASE Deliver
  <2>1. phase = "deliver" /\ phase' \in {"predict", "promote", "dispatch"} /\ running' = running
      BY <1>5 DEF Deliver, Delivered
  <2> QED BY <1>5, <2>1, DeliverUnhurried, ReadyInvokersKept DEF PhaseOK
<1>6. CASE SkipDelivery \/ Predictions \/ Relax \/ Promote \/ DispatchMethod \/ DispatchThread \/ Finish
  <2>1. /\ due' = due /\ phase \notin {"idle", "timers"}
        /\ \A q \in Process : state'[q] = "timed" => state[q] = "timed"
      BY <1>6, OtherUnhurried DEF SkipDelivery, Predictions, Relax, Promote, DispatchMethod,
         DispatchThread, Finish
  <2>2. \A q \in Process : state'[q] = "timed" => due'[q] = <<0, 0>>
      BY <2>1 DEF PhaseOK
  <2>3. CASE SkipDelivery \/ Predictions \/ Relax
    <3>1. state' = state /\ running' = running /\ phase \in {"predict", "relax"}
          /\ phase' \in {"promote", "dispatch", "relax", "deliver"}
        BY <2>3 DEF SkipDelivery, Predictions, Relax, Delivered
    <3> QED BY <2>2, <3>1, ReadyInvokersKept DEF PhaseOK
  <2>4. CASE Promote \/ DispatchMethod \/ DispatchThread
    <3>1. phase' \in {"dispatch", "thread"}
        BY <2>4 DEF Promote, DispatchMethod, DispatchThread
    <3> QED BY <2>2, <3>1 DEF PhaseOK
  <2>5. CASE Finish
    <3>1. /\ state' = state /\ running' = running \cup ReadyInvokers
          /\ phase' = IF In("run") = {} THEN "stopped" ELSE "idle"
        BY <2>5 DEF Finish
    <3>2. ReadyInvokers' = {} /\ In("run")' = In("run")
        BY <3>1 DEF ReadyInvokers, In
    <3> QED BY <2>2, <3>1, <3>2 DEF PhaseOK
  <2> QED BY <1>6, <2>3, <2>4, <2>5
<1>7. CASE Start
  <2>1. phase = "stopped" /\ phase' = "timers" /\ running' = running
        /\ \A q \in Process : state'[q] = IF state[q] = "paused" THEN Woken ELSE state[q]
      BY <1>7 DEF Start
  <2>2. \A q \in Process : state'[q] = "run" => state[q] = "run"
      BY <2>1, WokenType
  <2> QED BY <2>1, <2>2, ReadyInvokersKept DEF PhaseOK
<1> QED BY <1>0, <1>1, <1>2, <1>3, <1>4, <1>5, <1>6, <1>7 DEF Next

(* A wait begins with the events of its segment and only loses some.        *)
LEMMA WaitsStep ==
    ASSUME OoOScheduleAssumption, TypeOK, WaitsOK, [Next]_vars
    PROVE  WaitsOK'
<1> USE DEF program, prediction
<1>1. CASE Unhurried
  <2> SUFFICES ASSUME NEW p \in Process, state'[p] = "wait"
               PROVE  \E s \in Segment : NextOf[s] = seg'[p] /\ waits'[p] \subseteq WaitOf[s].events
      BY DEF WaitsOK, In
  <2>1. state[p] = "wait" /\ seg'[p] = seg[p] /\ waits'[p] \subseteq waits[p]
      BY <1>1 DEF Unhurried
  <2> QED BY <2>1 DEF WaitsOK, In
<1>2. CASE (\E p \in Process : \E n \in todo[p] : Notify(p, n)) \/ (\E e \in MainEvents : NotifyByMain(e))
  <2>1. UNCHANGED <<state, seg, waits>>
      BY <1>2 DEF Notify, NotifyByMain
  <2> QED BY <2>1 DEF WaitsOK, In
<1>3. ASSUME NEW P \in SUBSET In("run"), EndSegment(P) PROVE WaitsOK'
  <2>0. P \in SUBSET Process
      BY DEF In
  <2> SUFFICES ASSUME NEW p \in Process, state'[p] = "wait"
               PROVE  \E s \in Segment : NextOf[s] = seg'[p] /\ waits'[p] \subseteq WaitOf[s].events
      BY DEF WaitsOK, In
  <2>1. CASE p \in P
    <3>1. seg[p] \in Segment
        BY DEF TypeOK
    <3>2. seg'[p] = NextOf[seg[p]] /\ waits'[p] = WaitOf[seg[p]].events
        BY <1>3, <2>0, <2>1, EndSegmentEffect
    <3> QED BY <3>1, <3>2
  <2>2. CASE p \notin P
    <3>1. state[p] = "wait" /\ seg'[p] = seg[p] /\ waits'[p] = waits[p]
        BY <1>3, <2>0, <2>2, EndSegmentEffect
    <3> QED BY <3>1 DEF WaitsOK, In
  <2> QED BY <2>1, <2>2
<1> QED BY <1>1, <1>2, <1>3, StepKinds

-----------------------------------------------------------------------------
(* The predicted wake-up times.                                             *)

(* In the scheduler a process counts from the same time for the prediction. *)
LEMMA SourceIsFloor ==
    ASSUME PhaseOK, phase \notin {"idle", "timers"}, NEW q \in Process, Alive(q), NEW w
    PROVE  Source(q, w) = Floor(q, w)
BY DEF PhaseOK, Alive, Source, Floor, Resumes

(* A process that enters a wait is an exception; one that waits for a time  *)
(* goes on later than was expected.                                         *)
LEMMA KeptSoundEnd ==
    ASSUME OoOScheduleAssumption, TablesSound, TypeOK, TypeOK', NEW P \in SUBSET In("run"), EndSegment(P),
           KeptSound
    PROVE  KeptSound'
<1>0. P \in SUBSET Process /\ \A q \in P : state[q] = "run"
    BY DEF In
<1>1. /\ ts' = ts /\ pwt' = pwt /\ newWaiting' = newWaiting \cup P
      /\ \A q \in Process \ P : /\ state'[q] = state[q] /\ seg'[q] = seg[q] /\ due'[q] = due[q]
      /\ \A q \in P : /\ seg'[q] = NextOf[seg[q]]
                      /\ state'[q] \in {"timed", "dead", "wait"}
                      /\ state'[q] = "timed" => due'[q] = Plus(ts[q], Advance(WaitOf[seg[q]]))
    BY <1>0, EndSegmentEffect
<1> SUFFICES ASSUME NEW p \in Process, NEW q \in Process, state'[p] = "wait", p \notin newWaiting',
                    Alive(q)', ~(state'[q] = "wait" /\ q \in newWaiting')
             PROVE  Covers(p, q, pwt)'
    BY DEF KeptSound, In
<1>2. p \notin P /\ state[p] = "wait" /\ p \notin newWaiting /\ seg'[p] = seg[p]
    BY <1>1
<1>3. CASE q \notin P
  <2>1. Alive(q) /\ ~(state[q] = "wait" /\ q \in newWaiting)
      BY <1>1, <1>3 DEF Alive
  <2>2. Covers(p, q, pwt)
      BY <1>2, <2>1 DEF KeptSound, In
  <2>3. Via(q, Floor(q, pwt), p)' = Via(q, Floor(q, pwt), p)
      BY <1>1, <1>2, <1>3 DEF Via, Floor, Resumes
  <2> QED BY <1>1, <2>2, <2>3 DEF Covers
<1>4. CASE q \in P
  <2>1. state'[q] = "timed" /\ due'[q] = Plus(ts[q], Advance(WaitOf[seg[q]]))
        /\ seg'[q] = NextOf[seg[q]]
      BY <1>1, <1>4 DEF Alive
  <2>2. Alive(q) /\ state[q] = "run"
      BY <1>0, <1>4 DEF Alive
  <2>3. AtMost(pwt[p], Plus(ts[q], Predict[<<seg[q], seg[p]>>]))
      BY <1>2, <2>2 DEF KeptSound, In, Covers, Via, Floor, Resumes
  <2>4. ts[q] \in AnyTimestamp /\ seg[q] \in Segment /\ seg[p] \in Segment /\ pwt[p] \in AnyTimestamp
        /\ NextOf[seg[q]] \in Segment
      BY Types
  <2>5. AtMost(Plus(ts[q], Predict[<<seg[q], seg[p]>>]),
               Plus(Plus(ts[q], Advance(WaitOf[seg[q]])), Predict[<<NextOf[seg[q]], seg[p]>>]))
      BY <2>4, TableStep
  <2>6. /\ Plus(ts[q], Predict[<<seg[q], seg[p]>>]) \in AnyTimestamp
        /\ Plus(Plus(ts[q], Advance(WaitOf[seg[q]])), Predict[<<NextOf[seg[q]], seg[p]>>]) \in AnyTimestamp
    <3>1. /\ Predict[<<seg[q], seg[p]>>] \in AnyTimestamp
          /\ Predict[<<NextOf[seg[q]], seg[p]>>] \in AnyTimestamp
        BY <2>4 DEF OoOScheduleAssumption
    <3> QED BY <2>4, <3>1, AdvanceType, PlusType
  <2>7. AtMost(pwt[p], Plus(Plus(ts[q], Advance(WaitOf[seg[q]])), Predict[<<NextOf[seg[q]], seg[p]>>]))
      BY <2>3, <2>4, <2>5, <2>6, AtMostOrder
  <2> QED BY <1>1, <1>2, <2>1, <2>7 DEF Covers, Via, Floor, Resumes
<1> QED BY <1>3, <1>4

(* The first part of a pass: what is not recomputed was sound before.       *)
LEMMA PredictionsSound ==
    ASSUME OoOScheduleAssumption, TypeOK, PhaseOK, KeptSound, Predictions
    PROVE  Predicted(changed)'
<1>a. PICK tree \in {DefiningTree} :
       LET old(p) == IF p \in tree THEN Infinite ELSE pwt[p]
       IN \E w \in {[p \in Process |-> Earliest({old(p), ByEvent(p)})]} :
          LET via(p) == IF p \in tree THEN {q \in Process : state[q] # "dead"} ELSE {}
              at(q, p) == Via(q, Source(q, w), p)
          IN \E best \in {[p \in Process |-> Earliest({w[p]} \cup {at(q, p) : q \in via(p)})]} :
             LET by(p) == {q \in via(p) : Same(at(q, p), best[p])}
             IN  /\ pwt' = best
                 /\ definer' = [p \in Process |->
                       IF by(p) # {} THEN Definer(by(p), p)
                       ELSE IF p \in tree \/ Same(ByEvent(p), w[p]) THEN None
                       ELSE definer[p]]
                 /\ changed' = {p \in Process : best[p] # old(p)}
    BY DEF Predictions
<1> DEFINE old(p) == IF p \in tree THEN Infinite ELSE pwt[p]
<1> DEFINE via(p) == IF p \in tree THEN {q \in Process : state[q] # "dead"} ELSE {}
<1>b. PICK w \in {[p \in Process |-> Earliest({old(p), ByEvent(p)})]} :
          LET at(q, p) == Via(q, Source(q, w), p)
          IN \E best \in {[p \in Process |-> Earliest({w[p]} \cup {at(q, p) : q \in via(p)})]} :
             LET by(p) == {q \in via(p) : Same(at(q, p), best[p])}
             IN  /\ pwt' = best
                 /\ definer' = [p \in Process |->
                       IF by(p) # {} THEN Definer(by(p), p)
                       ELSE IF p \in tree \/ Same(ByEvent(p), w[p]) THEN None
                       ELSE definer[p]]
                 /\ changed' = {p \in Process : best[p] # old(p)}
    BY <1>a, Zenon
<1> DEFINE at(q, p) == Via(q, Source(q, w), p)
<1>c. PICK best \in {[p \in Process |-> Earliest({w[p]} \cup {at(q, p) : q \in via(p)})]} :
             LET by(p) == {q \in via(p) : Same(at(q, p), best[p])}
             IN  /\ pwt' = best
                 /\ definer' = [p \in Process |->
                       IF by(p) # {} THEN Definer(by(p), p)
                       ELSE IF p \in tree \/ Same(ByEvent(p), w[p]) THEN None
                       ELSE definer[p]]
                 /\ changed' = {p \in Process : best[p] # old(p)}
    BY <1>b, Zenon
<1>1. /\ w = [p \in Process |-> Earliest({old(p), ByEvent(p)})]
      /\ best = [p \in Process |-> Earliest({w[p]} \cup {at(q, p) : q \in via(p)})]
    OBVIOUS
<1>2. /\ pwt' = best /\ UNCHANGED <<state, ts, seg, waits, due, notified>>
      /\ phase \notin {"idle", "timers"}
    BY <1>c DEF Predictions, program
<1>3. newWaiting \subseteq tree
    BY DEF DefiningTree, TypeOK
<1>4. Infinite \in AnyTimestamp
    BY DEF AnyTimestamp
<1>5. ASSUME NEW p \in Process
      PROVE  /\ w[p] \in AnyTimestamp /\ old(p) \in AnyTimestamp /\ ByEvent(p) \in AnyTimestamp
             /\ AtMost(w[p], old(p)) /\ AtMost(w[p], ByEvent(p))
  <2>1. ByEvent(p) \in AnyTimestamp /\ old(p) \in AnyTimestamp
      BY <1>4, EventTimeType DEF TypeOK
  <2> HIDE DEF old
  <2>2. {old(p), ByEvent(p)} \in SUBSET AnyTimestamp /\ w[p] = Earliest({old(p), ByEvent(p)})
      BY <1>1, <2>1
  <2> QED BY <2>1, <2>2, EarliestIsLeast DEF AtMost
<1>6. ASSUME NEW p \in Process, NEW q \in Process PROVE at(q, p) \in AnyTimestamp
  <2>1. Source(q, w) \in AnyTimestamp
      BY <1>5 DEF Source, TypeOK, AnyTimestamp
  <2> QED BY <2>1, ViaType
<1> HIDE DEF at
<1>7. ASSUME NEW p \in Process
      PROVE  /\ best[p] \in AnyTimestamp /\ AtMost(best[p], w[p])
             /\ \A q \in via(p) : AtMost(best[p], at(q, p))
  <2> DEFINE S == {w[p]} \cup {at(q, p) : q \in via(p)}
  <2>1. S \in SUBSET AnyTimestamp
      BY <1>5, <1>6
  <2>2. best[p] = Earliest(S)
      BY <1>1
  <2>3. best[p] \in AnyTimestamp /\ \A y \in S : AtMost(best[p], y)
    <3> HIDE DEF S
    <3> QED BY <2>1, <2>2, EarliestIsLeast DEF AtMost
  <2> QED BY <2>3
<1> SUFFICES ASSUME NEW p \in Process, state[p] = "wait"
             PROVE  /\ EventsAllow(p, best[p])
                    /\ \A q \in Process : Alive(q) /\ ~(state[q] = "wait" /\ q \in changed')
                          => AtMost(best[p], Via(q, Floor(q, best), p))
    BY <1>2, Zenon DEF Predicted, In, Alive, Covers, Via, Floor, Resumes, EventsAllow
<1>8. EventsAllow(p, best[p])
  <2>1. ByEvent(p) = Plus(EventTime(p), Delta)
      BY DEF ByEvent
  <2>2. AtMost(best[p], ByEvent(p))
      BY <1>5, <1>7, AtMostOrder
  <2> QED BY <1>7, <2>1, <2>2, EventsAllowTime
<1>9. ASSUME NEW q \in Process, Alive(q), ~(state[q] = "wait" /\ q \in changed')
      PROVE  AtMost(best[p], Via(q, Floor(q, best), p))
  <2>1. Source(q, w) = Floor(q, w)
      BY <1>2, <1>9, SourceIsFloor
  <2>2. state[q] = "wait" => best[q] = old(q)
      BY <1>9, <1>c
  <2>3. CASE p \in tree
    <3>1. AtMost(best[p], Via(q, Floor(q, w), p))
      <4>1. q \in via(p)
          BY <1>9, <2>3 DEF Alive
      <4> QED BY <1>7, <2>1, <4>1 DEF at
    <3>2. state[q] = "wait" => w[q] = best[q]
        BY <1>5, <1>7, <2>2, AtMostOrder
    <3>3. Floor(q, w) = Floor(q, best)
        BY <3>2 DEF Floor
    <3> QED BY <3>1, <3>3
  <2>4. CASE p \notin tree
    <3>1. AtMost(best[p], pwt[p]) /\ p \notin newWaiting /\ pwt[p] \in AnyTimestamp
        BY <1>3, <1>5, <1>7, <2>4, AtMostOrder
    <3>2. CASE state[q] = "wait" /\ q \in tree
      <4>1. Via(q, Floor(q, best), p) = Infinite
        <5>1. Floor(q, best) = Infinite /\ Predict[<<seg[q], seg[p]>>] \in AnyTimestamp
            BY <2>2, <3>2, Types DEF Floor
        <5> QED BY <5>1, PlusParts DEF Via
      <4> QED BY <1>7, <4>1, AtMostOrder
    <3>3. CASE ~(state[q] = "wait" /\ q \in tree)
      <4>1. Floor(q, best) = Floor(q, pwt)
          BY <2>2, <3>3 DEF Floor
      <4>2. AtMost(pwt[p], Via(q, Floor(q, pwt), p))
          BY <1>3, <1>9, <3>1, <3>3 DEF KeptSound, In, Covers
      <4>3. Via(q, Floor(q, pwt), p) \in AnyTimestamp
        <5>1. Floor(q, pwt) \in AnyTimestamp
            BY Types DEF Floor
        <5> QED BY <5>1, ViaType
      <4> QED BY <1>7, <3>1, <4>1, <4>2, <4>3, AtMostOrder
    <3> QED BY <3>2, <3>3
  <2> QED BY <2>3, <2>4
<1> QED BY <1>8, <1>9

(* The second part: what has changed is propagated, and when nothing has,   *)
(* every process is taken care of.                                          *)
LEMMA RelaxSound ==
    ASSUME OoOScheduleAssumption, TypeOK, Predicted(changed), Relax
    PROVE  Predicted(changed)' /\ (phase' = "deliver" => Predicted({})')
<1> DEFINE via(p) == IF state[p] = "wait" THEN changed ELSE {}
<1> DEFINE at(q, p) == Via(q, pwt[q], p)
<1>a. PICK w \in {[p \in Process |-> Earliest({pwt[p]} \cup {at(q, p) : q \in via(p)})]} :
           LET lower == {p \in Process : w[p] # pwt[p]}
           IN  /\ pwt' = w
               /\ changed' = lower
               /\ phase' = IF lower = {} THEN "deliver" ELSE "relax"
    BY Zenon DEF Relax
<1> DEFINE lower == {p \in Process : w[p] # pwt[p]}
<1>1. /\ w = [p \in Process |-> Earliest({pwt[p]} \cup {at(q, p) : q \in via(p)})]
      /\ pwt' = w /\ changed' = lower /\ (phase' = "deliver" => lower = {})
      /\ UNCHANGED <<state, ts, seg, waits, due, notified>>
    BY <1>a DEF Relax, program
<1>2. changed \subseteq Process /\ \A p \in Process : pwt[p] \in AnyTimestamp
    BY DEF TypeOK
<1>3. \A p, q \in Process : at(q, p) \in AnyTimestamp
    BY <1>2, ViaType
<1> HIDE DEF at
<1>4. ASSUME NEW p \in Process
      PROVE  /\ w[p] \in AnyTimestamp /\ AtMost(w[p], pwt[p])
             /\ \A q \in via(p) : AtMost(w[p], at(q, p))
  <2> DEFINE S == {pwt[p]} \cup {at(q, p) : q \in via(p)}
  <2>1. S \in SUBSET AnyTimestamp /\ w[p] = Earliest(S)
      BY <1>1, <1>2, <1>3
  <2>2. w[p] \in AnyTimestamp /\ \A y \in S : AtMost(w[p], y)
    <3> HIDE DEF S
    <3> QED BY <2>1, EarliestIsLeast DEF AtMost
  <2> QED BY <2>2
<1>5. SUFFICES ASSUME NEW p \in Process, state[p] = "wait"
               PROVE  /\ EventsAllow(p, w[p])
                      /\ \A q \in Process : Alive(q) /\ ~(state[q] = "wait" /\ q \in lower)
                            => AtMost(w[p], Via(q, Floor(q, w), p))
  <2>1. ASSUME NEW C, C = lower \/ (C = {} /\ lower = {}),
               \A p \in Process : state[p] = "wait" =>
                 /\ EventsAllow(p, w[p])
                 /\ \A q \in Process : Alive(q) /\ ~(state[q] = "wait" /\ q \in lower)
                            => AtMost(w[p], Via(q, Floor(q, w), p))
        PROVE  \A p \in In("wait")' : /\ EventsAllow(p, pwt[p])'
                 /\ \A q \in Process : Alive(q)' /\ q \notin In("wait")' \cap C => Covers(p, q, pwt)'
      BY <1>1, <2>1 DEF In, Alive, Covers, Via, Floor, Resumes, EventsAllow
  <2> QED BY <1>1, <2>1 DEF Predicted
<1>6. EventsAllow(p, w[p])
    BY <1>2, <1>4, <1>5, EventsAllowEarlier DEF Predicted, In
<1>7. ASSUME NEW q \in Process, Alive(q), ~(state[q] = "wait" /\ q \in lower)
      PROVE  AtMost(w[p], Via(q, Floor(q, w), p))
  <2>1. Floor(q, w) = Floor(q, pwt)
      BY <1>7 DEF Floor
  <2>2. CASE state[q] = "wait" /\ q \in changed
    <3>1. Floor(q, pwt) = pwt[q]
        BY <2>2 DEF Floor
    <3> QED BY <1>4, <1>5, <2>1, <2>2, <3>1 DEF at
  <2>3. CASE ~(state[q] = "wait" /\ q \in changed)
    <3>1. AtMost(pwt[p], Via(q, Floor(q, pwt), p))
        BY <1>5, <1>7, <2>3 DEF Predicted, In, Covers
    <3>2. Via(q, Floor(q, pwt), p) \in AnyTimestamp
      <4>1. Floor(q, pwt) \in AnyTimestamp
          BY Types DEF Floor
      <4> QED BY <4>1, ViaType
    <3> QED BY <1>2, <1>4, <2>1, <3>1, <3>2, AtMostOrder
  <2> QED BY <2>2, <2>3
<1> QED BY <1>6, <1>7

(* KeptSound depends on these variables only.                               *)
LEMMA SamePrediction ==
    ASSUME UNCHANGED <<state, ts, seg, due, pwt, newWaiting>>
    PROVE  KeptSound' <=> KeptSound
BY DEF KeptSound, In, Alive, Covers, Via, Floor, Resumes

(* Whether something can be dispatched depends on who runs.                 *)
LEMMA SameRun ==
    ASSUME UNCHANGED running, \A q \in Process : state'[q] = "run" <=> state[q] = "run"
    PROVE  CannotDispatch' <=> CannotDispatch
<1>1. ReadyInvokers' = ReadyInvokers
    BY DEF ReadyInvokers, In, Process
<1>2. {t \in Thread : state'[t] = "run"} = {t \in Thread : state[t] = "run"}
    BY DEF Process
<1>3. Load' = Load
    BY <1>2 DEF Load
<1> QED BY <1>1, <1>3 DEF CannotDispatch, Full

(* The predicted wake-up times are true in every phase that relies on them. *)
LEMMA PredictionStep ==
    ASSUME OoOScheduleAssumption, TablesSound, TypeOK, TypeOK', PhaseOK, PredictionOK, [Next]_vars
    PROVE  PredictionOK'
<1> USE DEF program, control, prediction
<1>0. CASE UNCHANGED vars \/ \E p \in Controlled : Disable(p) \/ Enable(p)
  <2>1. UNCHANGED <<state, ts, seg, waits, due, notified, pwt, newWaiting, changed, running, phase>>
      BY <1>0 DEF vars, Disable, Enable
  <2>2. (KeptSound' <=> KeptSound) /\ (CannotDispatch' <=> CannotDispatch)
      BY <2>1, SamePrediction, SameRun
  <2>3. Predicted(changed)' <=> Predicted(changed)
      BY <2>1 DEF Predicted, In, Alive, Covers, Via, Floor, Resumes, EventsAllow
  <2>4. Predicted({})' <=> Predicted({})
      BY <2>1 DEF Predicted, In, Alive, Covers, Via, Floor, Resumes, EventsAllow
  <2> QED BY <2>1, <2>2, <2>3, <2>4 DEF PredictionOK
<1>1. CASE (\E p \in Process : \E n \in todo[p] : Notify(p, n)) \/ (\E e \in MainEvents : NotifyByMain(e))
  <2>1. /\ UNCHANGED <<state, ts, seg, due, pwt, newWaiting, phase>>
        /\ phase \in {"idle", "stopped"}
      BY <1>1 DEF Notify, NotifyByMain
  <2> QED BY <2>1, SamePrediction DEF PredictionOK
<1>2. CASE (\E t \in Thread : Suspend(t)) \/ (\E i \in Invoker : EndMethods(i))
  <2>1. /\ \E P \in SUBSET In("run") : EndSegment(P)
        /\ phase = "idle" /\ phase' \in {"idle", "timers"}
    <3>1. ASSUME NEW t \in Thread, Suspend(t)
          PROVE  {t} \in SUBSET In("run") /\ EndSegment({t})
                 /\ phase = "idle" /\ phase' \in {"idle", "timers"}
        BY <3>1 DEF Suspend, In, Process
    <3>2. ASSUME NEW i \in Invoker, EndMethods(i)
          PROVE  QueueOf(i) \in SUBSET In("run") /\ EndSegment(QueueOf(i))
                 /\ phase = "idle" /\ phase' \in {"idle", "timers"}
        BY <3>2 DEF EndMethods, QueueOf, In, Process
    <3> QED BY <1>2, <3>1, <3>2
  <2>2. KeptSound
      BY <2>1 DEF PredictionOK
  <2>3. KeptSound'
      BY <2>1, <2>2, KeptSoundEnd
  <2> QED BY <2>1, <2>3 DEF PredictionOK
<1>3. CASE Timers
  <2>1. /\ phase = "timers" /\ phase' = "predict" /\ UNCHANGED <<pwt, newWaiting>>
      BY <1>3 DEF Timers
  <2>2. KeptSound'
      BY <1>3, <2>1, TimersUnhurried, KeptSoundKept DEF PredictionOK
  <2> QED BY <2>1, <2>2 DEF PredictionOK
<1>4. CASE SkipDelivery
  <2>1. /\ phase = "predict" /\ Full /\ phase' \in {"promote", "dispatch"}
        /\ UNCHANGED <<state, ts, seg, due, pwt, newWaiting, running>>
      BY <1>4 DEF SkipDelivery, Delivered
  <2>2. CannotDispatch /\ KeptSound
      BY <2>1 DEF CannotDispatch, PhaseOK, PredictionOK
  <2>3. CannotDispatch' /\ KeptSound'
      BY <2>1, <2>2, SamePrediction, SameRun
  <2> QED BY <2>1, <2>3 DEF PredictionOK
<1>5. CASE Predictions
  <2>1. phase = "predict" /\ phase' = "relax"
      BY <1>5 DEF Predictions
  <2> QED BY <1>5, <2>1, PredictionsSound DEF PredictionOK
<1>6. CASE Relax
  <2>1. phase = "relax" /\ phase' \in {"relax", "deliver"}
      BY <1>6 DEF Relax
  <2> QED BY <1>6, <2>1, RelaxSound DEF PredictionOK
<1>7. CASE Deliver
  <2>1. phase = "deliver" /\ phase' \in {"predict", "promote", "dispatch"}
      BY <1>7 DEF Deliver, Delivered
  <2>2. Predicted({})'
      BY <1>7, <2>1, DeliverUnhurried, PredictedKept DEF PredictionOK
  <2>3. KeptSound'
      BY <2>2 DEF Predicted, KeptSound
  <2> QED BY <2>1, <2>2, <2>3 DEF PredictionOK
<1>8. CASE Promote \/ DispatchMethod \/ DispatchThread
  <2>1. /\ UNCHANGED <<pwt, newWaiting>> /\ Unhurried
        /\ \A q \in Process : state[q] = "wait" => state'[q] = "wait"
      BY <1>8, OtherUnhurried, RelabelUnhurried DEF Promote, DispatchMethod, DispatchThread
  <2>2. Predicted({}) => Predicted({})'
      BY <2>1, PredictedKept
  <2>3. KeptSound => KeptSound'
      BY <2>1, KeptSoundKept
  <2>4. CASE Promote
    <3>1. /\ state' = [p \in Process |->
                        IF p \in (IF CycleIsOver THEN NextCycle ELSE {}) THEN "ready" ELSE state[p]]
          /\ running' = running /\ phase = "promote" /\ phase' = "dispatch"
        BY <2>4, Zenon DEF Promote
    <3>2. \A p \in (IF CycleIsOver THEN NextCycle ELSE {}) : state[p] = "queued"
        BY DEF NextCycle, In
    <3>3. \A q \in Process : state'[q] = "run" <=> state[q] = "run"
        BY <3>1, <3>2
    <3> QED BY <2>2, <2>3, <3>1, <3>3, SameRun DEF PredictionOK
  <2>5. CASE DispatchMethod
    <3>1. phase = "dispatch" /\ phase' = "thread" /\ ~CannotDispatch
        BY <2>5 DEF DispatchMethod, Continue, CannotDispatch
    <3> QED BY <2>2, <3>1 DEF PredictionOK
  <2>6. CASE DispatchThread
    <3>1. phase = "thread" /\ phase' = "dispatch"
        BY <2>6 DEF DispatchThread
    <3> QED BY <2>2, <3>1 DEF PredictionOK
  <2> QED BY <1>8, <2>4, <2>5, <2>6
<1>9. CASE Finish \/ Start
  <2>1. /\ UNCHANGED <<pwt, newWaiting>> /\ Unhurried
        /\ \A q \in Process : state[q] = "wait" => state'[q] = "wait"
      BY <1>9, OtherUnhurried, RelabelUnhurried DEF Finish, Start
  <2>2. phase \in {"dispatch", "stopped"} /\ phase' \in {"idle", "stopped", "timers"}
      BY <1>9 DEF Finish, Start
  <2>3. KeptSound
      BY <2>2, PredictedIsKept DEF PredictionOK
  <2>4. KeptSound'
      BY <2>1, <2>3, KeptSoundKept
  <2> QED BY <2>2, <2>4 DEF PredictionOK
<1> QED BY <1>0, <1>1, <1>2, <1>3, <1>4, <1>5, <1>6, <1>7, <1>8, <1>9 DEF Next

-----------------------------------------------------------------------------
(* The predicted wake-up times and the timestamps are such bounds.          *)
LEMMA PredictionBounds ==
    ASSUME OoOScheduleAssumption, TypeOK, PhaseOK, phase \notin {"idle", "timers"}, Predicted({}),
           NEW L, L = [q \in Process |-> Source(q, pwt)]
    PROVE  /\ L \in [Process -> AnyTimestamp] /\ Bounds(L)
           /\ \A q \in Process : Alive(q) => L[q] = Floor(q, pwt)
<1>1. L \in [Process -> AnyTimestamp]
  <2>1. \A q \in Process : Source(q, pwt) \in AnyTimestamp
      BY DEF Source, TypeOK, AnyTimestamp
  <2> QED BY <2>1
<1>2. \A q \in Process : Alive(q) => L[q] = Floor(q, pwt)
    BY SourceIsFloor
<1>3. Bounds(L)
  <2> SUFFICES ASSUME NEW q \in Process, Alive(q)
               PROVE  IF state[q] = "wait"
                      THEN /\ EventsAllow(q, L[q])
                           /\ \A r \in Process : Alive(r) => AtMost(L[q], Via(r, L[r], q))
                      ELSE AtMost(L[q], Resumes(q))
      BY DEF Bounds
  <2>1. CASE state[q] = "wait"
    <3>1. L[q] = pwt[q]
        BY <1>2, <2>1 DEF Floor
    <3> QED BY <1>2, <2>1, <3>1 DEF Predicted, In, Covers
  <2>2. CASE state[q] # "wait"
    <3>1. L[q] = Resumes(q)
        BY <1>2, <2>2 DEF Floor
    <3> QED BY <1>1, <2>2, <3>1, AtMostOrder
  <2> QED BY <2>1, <2>2
<1> QED BY <1>1, <1>2, <1>3

(* A process is dispatched only with a certificate.                         *)
LEMMA DispatchSafe ==
    ASSUME OoOScheduleAssumption, TypeOK, PhaseOK, phase \notin {"idle", "timers"}, Predicted({}),
           NEW p \in Process, state[p] = "ready", HasNoConflicts(p)
    PROVE  Safe(seg[p], ts[p])
<1>1. PICK L : L = [q \in Process |-> Source(q, pwt)]
    OBVIOUS
<1>2. L \in [Process -> AnyTimestamp]
    BY <1>1, PredictionBounds
<1>3. Bounds(L)
    BY <1>1, PredictionBounds
<1>4. ASSUME NEW q \in Process, Alive(q), Before(L[q], ts[p])
      PROVE  Before(ts[p], Plus(L[q], Hazard[<<seg[q], seg[p]>>]))
  <2>1. ts[p] \in AnyTimestamp /\ ts[p] # Infinite /\ L[q] = Source(q, pwt)
      BY <1>1 DEF TypeOK, AnyTimestamp, FiniteTimestamp, Infinite
  <2>2. q # p
      BY <1>4, <2>1, BeforeIsLinearOrder DEF Source
  <2>3. Concurrent(q, p)
      BY <1>4, <2>1 DEF Concurrent, Source, Alive
  <2>4. ~NotAfter(Plus(L[q], Hazard[<<seg[q], seg[p]>>]), ts[p])
      BY <2>1, <2>2, <2>3 DEF HasNoConflicts
  <2>5. Plus(L[q], Hazard[<<seg[q], seg[p]>>]) \in AnyTimestamp
      BY <1>2, Types, PlusType
  <2> QED BY <2>1, <2>4, <2>5, NotAfterNotBefore DEF Before
<1> QED BY <1>2, <1>3, <1>4 DEF Safe, HazardsAfter

(* A process with a certificate for t that runs at t or earlier touches     *)
(* nothing that segment s touches.                                          *)
LEMMA SafeNoClash ==
    ASSUME OoOScheduleAssumption, TypeOK, NEW s \in Segment, NEW t \in AnyTimestamp, Safe(s, t),
           NEW q \in Process, state[q] \in {"run", "ready"}, Before(ts[q], t)
    PROVE  <<seg[q], s>> \notin Clash
<1>1. PICK L \in [Process -> AnyTimestamp] : Bounds(L) /\ HazardsAfter(L, s, t)
    BY DEF Safe
<1>2. /\ Alive(q) /\ AtMost(L[q], ts[q]) /\ seg[q] \in Segment
      /\ L[q] \in AnyTimestamp /\ ts[q] \in AnyTimestamp
    BY <1>1, Types DEF Alive, Bounds, Resumes
<1>3. Before(L[q], t)
    BY <1>2, AtMostOrder
<1>4. Before(t, Plus(L[q], Hazard[<<seg[q], s>>]))
    BY <1>1, <1>2, <1>3 DEF HazardsAfter
<1>5. <<seg[q], s>> \in Clash => Hazard[<<seg[q], s>>] = <<0, 0>>
    BY <1>2 DEF OoOScheduleAssumption
<1>6. <<seg[q], s>> \in Clash => Before(t, L[q])
    BY <1>2, <1>4, <1>5, PlusParts
<1> QED BY <1>2, <1>3, <1>6, BeforeIsLinearOrder

(* Every step but a notification by sc_main keeps the certificates.         *)
LEMMA SafeStep ==
    ASSUME OoOScheduleAssumption, TablesSound, TypeOK, TypeOK', WaitsOK, [Next]_vars,
           ~(\E e \in MainEvents : NotifyByMain(e)),
           NEW s \in Segment, NEW t \in AnyTimestamp, Safe(s, t)
    PROVE  Safe(s, t)'
<1>1. CASE Unhurried
    BY <1>1, SafeKept
<1>2. ASSUME NEW p \in Process, NEW n \in todo[p], Notify(p, n) PROVE Safe(s, t)'
  <2>1. PICK L \in [Process -> AnyTimestamp] : Bounds(L) /\ HazardsAfter(L, s, t)
      BY DEF Safe
  <2>2. Bounds(L)'
      BY <1>2, <2>1, SafeNotify
  <2>3. UNCHANGED <<state, seg, due>>
      BY <1>2 DEF Notify
  <2>4. HazardsAfter(L, s, t)'
      BY <2>1, <2>3 DEF HazardsAfter, Alive
  <2> QED BY <2>2, <2>4 DEF Safe
<1>3. ASSUME NEW P \in SUBSET In("run"), EndSegment(P) PROVE Safe(s, t)'
    BY <1>3, SafeEnd
<1> QED BY <1>1, <1>2, <1>3, StepKinds

(* Who runs after a step ran before it, or has just been dispatched.        *)
LEMMA RunStep ==
    ASSUME OoOScheduleAssumption, TypeOK, [Next]_vars, NEW p \in Process, state'[p] = "run"
    PROVE  /\ seg'[p] = seg[p] /\ ts'[p] = ts[p]
           /\ \/ state[p] = "run"
              \/ /\ phase \in {"dispatch", "thread"} /\ state[p] = "ready" /\ HasNoConflicts(p)
                 /\ ~CannotDispatch \/ phase = "thread"
                 /\ state' = [state EXCEPT ![p] = "run"]
                 /\ latest' = [latest EXCEPT ![seg[p]] = ts[p]]
<1> USE DEF program, control, prediction
<1>1. CASE Timers
  <2>1. state[p] = "run" /\ Unhurried
      BY <1>1, TimersUnhurried
  <2> QED BY <2>1 DEF Unhurried, Alive, Resumes
<1>2. CASE Deliver
  <2>1. state[p] = "run" /\ Unhurried
      BY <1>2, DeliverUnhurried
  <2> QED BY <2>1 DEF Unhurried, Alive, Resumes
<1>3. CASE (\E t \in Thread : Suspend(t)) \/ (\E i \in Invoker : EndMethods(i))
  <2>1. PICK P \in SUBSET Process : EndSegment(P)
      BY <1>3 DEF Suspend, EndMethods, QueueOf, Process
  <2> QED BY <2>1, EndSegmentEffect
<1>4. CASE Promote
  <2>1. /\ state' = [q \in Process |->
                        IF q \in (IF CycleIsOver THEN NextCycle ELSE {}) THEN "ready" ELSE state[q]]
        /\ UNCHANGED <<seg, ts>>
      BY <1>4, Zenon DEF Promote
  <2> QED BY <2>1
<1>5. CASE DispatchMethod \/ DispatchThread
  <2>1. /\ UNCHANGED <<seg, ts>> /\ phase \in {"dispatch", "thread"}
        /\ ~CannotDispatch \/ phase = "thread"
      BY <1>5 DEF DispatchMethod, DispatchThread, Continue, CannotDispatch
  <2>2. \/ state' = state
        \/ \E q \in In("ready") : HasNoConflicts(q) /\ Run(q)
        \/ \E q \in In("ready") : Pause(q)
      BY <1>5 DEF DispatchMethod, DispatchThread, Poppable, PutBack
  <2>3. CASE state' = state
      BY <2>1, <2>3
  <2>4. ASSUME NEW q \in In("ready"), HasNoConflicts(q), Run(q)
        PROVE  \/ state[p] = "run"
               \/ p = q /\ state[p] = "ready" /\ HasNoConflicts(p)
    <3>1. state' = [state EXCEPT ![q] = "run"]
        BY <2>4 DEF Run
    <3> QED BY <2>4, <3>1 DEF In, TypeOK
  <2>5. ASSUME NEW q \in In("ready"), Pause(q)
        PROVE  state[p] = "run"
    <3>1. state' = [state EXCEPT ![q] = "paused"]
        BY <2>5 DEF Pause
    <3> QED BY <2>5, <3>1 DEF In, TypeOK
  <2> QED BY <2>1, <2>2, <2>3, <2>4, <2>5 DEF Run
<1>6. CASE Start
  <2>1. Woken \in {"ready", "queued"}
      BY WokenType
  <2> QED BY <1>6, <2>1 DEF Start
<1>7. CASE UNCHANGED vars \/ (\E q \in Controlled : Disable(q) \/ Enable(q)) \/ SkipDelivery
           \/ Predictions \/ Relax \/ Finish
    BY <1>7 DEF vars, Disable, Enable, SkipDelivery, Predictions, Relax, Finish
<1>8. CASE (\E q \in Process : \E n \in todo[q] : Notify(q, n)) \/ (\E e \in MainEvents : NotifyByMain(e))
    BY <1>8 DEF Notify, NotifyByMain
<1> QED BY <1>1, <1>2, <1>3, <1>4, <1>5, <1>6, <1>7, <1>8 DEF Next

-----------------------------------------------------------------------------
(* Before the first period nobody waits.                                    *)
LEMMA OrderInit ==
    ASSUME OoOScheduleAssumption, DOMAIN Static = {}, Init
    PROVE  PredictionOK /\ PhaseOK /\ WaitsOK /\ RunsSafely /\ LatestSafe
<1>1. /\ \A p \in Process : state[p] = "ready" /\ ts[p] = <<0, 0>>
      /\ phase = "stopped" /\ \A s \in Segment : latest[s] = <<0, 0>>
    BY DEF Init
<1>2. In("wait") = {} /\ In("run") = {}
    BY <1>1 DEF In
<1>3. PredictionOK /\ PhaseOK /\ WaitsOK
    BY <1>1, <1>2, Zenon DEF PredictionOK, KeptSound, PhaseOK, WaitsOK, ReadyInvokers, Process
<1>4. RunsSafely
    BY <1>2 DEF RunsSafely, NoDataRace
<1>5. ASSUME NEW s \in Segment PROVE Safe(s, latest[s])
  <2> DEFINE L == [q \in Process |-> <<0, 0>>]
  <2>1. L \in [Process -> AnyTimestamp]
      BY DEF AnyTimestamp, FiniteTimestamp
  <2>2. <<0, 0>> \in AnyTimestamp /\ AtMost(<<0, 0>>, <<0, 0>>) /\ ~Before(<<0, 0>>, <<0, 0>>)
      BY AtMostOrder, BeforeIsLinearOrder DEF AnyTimestamp, FiniteTimestamp
  <2>3. Bounds(L)
      BY <1>1, <2>2 DEF Bounds, Resumes
  <2>4. HazardsAfter(L, s, latest[s])
      BY <1>1, <2>2 DEF HazardsAfter
  <2> QED BY <2>1, <2>3, <2>4 DEF Safe
<1>6. latest \in [Segment -> AnyTimestamp]
    BY DEF Init, AnyTimestamp, FiniteTimestamp
<1> QED BY <1>3, <1>4, <1>5, <1>6 DEF LatestSafe

(* What has just been dispatched has a certificate.                         *)
LEMMA DispatchedSafe ==
    ASSUME OoOScheduleAssumption, TypeOK, PhaseOK, PredictionOK, NEW p \in Process,
           phase \in {"dispatch", "thread"}, state[p] = "ready", HasNoConflicts(p),
           ~CannotDispatch \/ phase = "thread"
    PROVE  Safe(seg[p], ts[p])
<1>1. Predicted({}) /\ phase \notin {"idle", "timers"}
    BY DEF PredictionOK
<1> QED BY <1>1, DispatchSafe

(* A certificate is kept for the segment and the time of the step before.   *)
LEMMA SafeForStep ==
    ASSUME OoOScheduleAssumption, TablesSound, TypeOK, TypeOK', WaitsOK, [Next]_vars,
           ~(\E e \in MainEvents : NotifyByMain(e))
    PROVE  \A s \in Segment : \A t \in AnyTimestamp : Safe(s, t) =>
              \E L \in [Process -> AnyTimestamp] : Bounds(L)' /\ HazardsAfter(L, s, t)'
<1> SUFFICES ASSUME NEW s \in Segment, NEW t \in AnyTimestamp, Safe(s, t)
             PROVE  \E L \in [Process -> AnyTimestamp] : Bounds(L)' /\ HazardsAfter(L, s, t)'
    OBVIOUS
<1>1. Safe(s, t)'
    BY SafeStep
<1> QED BY <1>1 DEF Safe

(* Whoever starts to run clashes with nobody who runs: with a certificate   *)
(* of its own for those that are earlier or at the same time, and with the  *)
(* certificates of those that are later.                                    *)
LEMMA DispatchNoClash ==
    ASSUME OoOScheduleAssumption, TypeOK, RunsSafely, NEW p \in Process, NEW q \in In("run"),
           state[p] = "ready", HasNoConflicts(p)
    PROVE  <<seg[p], seg[q]>> \notin Clash /\ <<seg[q], seg[p]>> \notin Clash
<1>1. /\ q \in Process /\ state[q] = "run" /\ q # p /\ seg[p] \in Segment /\ seg[q] \in Segment
      /\ ts[p] \in AnyTimestamp /\ ts[q] \in AnyTimestamp /\ ts[p] # Infinite
  <2>1. q \in Process /\ state[q] = "run" /\ q # p
      BY DEF In
  <2>2. ts[p] # Infinite
      BY DEF TypeOK, FiniteTimestamp, Infinite
  <2> QED BY <2>1, <2>2, Types
<1>2. <<seg[p], seg[q]>> \in Clash <=> <<seg[q], seg[p]>> \in Clash
    BY <1>1 DEF OoOScheduleAssumption
<1>3. CASE Before(ts[p], ts[q])
  <2>1. Safe(seg[q], ts[q])
      BY DEF RunsSafely
  <2>2. <<seg[p], seg[q]>> \notin Clash
      BY <1>1, <1>3, <2>1, SafeNoClash
  <2> QED BY <1>2, <2>2
<1>4. CASE ~Before(ts[p], ts[q])
  <2>1. Before(ts[q], ts[p]) \/ Same(ts[q], ts[p])
      BY <1>1, <1>4, BeforeIsLinearOrder DEF Same
  <2>2. Concurrent(q, p)
      BY <1>1, <2>1 DEF Concurrent
  <2>3. ~NotAfter(Plus(ts[q], Hazard[<<seg[q], seg[p]>>]), ts[p])
      BY <1>1, <2>2 DEF HasNoConflicts, Source
  <2>4. <<seg[q], seg[p]>> \in Clash => Plus(ts[q], Hazard[<<seg[q], seg[p]>>]) = ts[q]
      BY <1>1, PlusParts DEF OoOScheduleAssumption
  <2>5. <<seg[q], seg[p]>> \in Clash => Before(ts[p], ts[q])
      BY <1>1, <2>3, <2>4, NotAfterNotBefore DEF Before
  <2> QED BY <1>2, <1>4, <2>5
<1> QED BY <1>3, <1>4

(* Whoever runs keeps its certificate, and whoever starts to run clashes    *)
(* with nobody.                                                             *)
LEMMA RunsSafelyStep ==
    ASSUME OoOScheduleAssumption, TablesSound, TypeOK, TypeOK', PhaseOK, WaitsOK, PredictionOK,
           RunsSafely, [Next]_vars
    PROVE  RunsSafely'
<1>1. CASE \E e \in MainEvents : NotifyByMain(e)
  <2>1. phase = "stopped" /\ state' = state
      BY <1>1 DEF NotifyByMain
  <2>2. In("run") = {} /\ In("run")' = In("run")
      BY <2>1 DEF PhaseOK, In
  <2> QED BY <2>2 DEF RunsSafely, NoDataRace
<1>2. CASE ~(\E e \in MainEvents : NotifyByMain(e))
  <2>1. ASSUME NEW p \in Process, state'[p] = "run" PROVE Safe(seg[p], ts[p])'
    <3>1. Safe(seg[p], ts[p])
      <4>1. CASE state[p] = "run"
          BY <4>1 DEF RunsSafely, In
      <4>2. CASE state[p] # "run"
        <5>1. /\ phase \in {"dispatch", "thread"} /\ state[p] = "ready" /\ HasNoConflicts(p)
              /\ ~CannotDispatch \/ phase = "thread"
            BY <2>1, <4>2, RunStep
        <5> QED BY <5>1, DispatchedSafe
      <4> QED BY <4>1, <4>2
    <3>2. PICK L \in [Process -> AnyTimestamp] : Bounds(L)' /\ HazardsAfter(L, seg[p], ts[p])'
      <4>1. seg[p] \in Segment /\ ts[p] \in AnyTimestamp
          BY Types
      <4>2. seg'[p] = seg[p] /\ ts'[p] = ts[p]
          BY <2>1, RunStep
      <4>3. \E L \in [Process -> AnyTimestamp] :
               /\ Bounds(L)'
               /\ \A q \in Process : Alive(q)' /\ Before(L[q], ts[p])
                     => Before(ts[p], Plus(L[q], Hazard[<<seg'[q], seg[p]>>]))
          BY <1>2, <3>1, <4>1, SafeForStep DEF HazardsAfter
      <4> QED BY <4>2, <4>3 DEF HazardsAfter
    <3> QED BY <3>2 DEF Safe
  <2>2. ASSUME NEW p \in Process, NEW q \in Process, state'[p] = "run", state'[q] = "run", p # q
        PROVE  <<seg'[p], seg'[q]>> \notin Clash
    <3>1. seg'[p] = seg[p] /\ seg'[q] = seg[q]
        BY <2>2, RunStep
    <3>2. CASE state[p] = "run" /\ state[q] = "run"
        BY <2>2, <3>1, <3>2 DEF RunsSafely, NoDataRace, In
    <3>3. CASE state[p] # "run"
      <4>1. state[p] = "ready" /\ HasNoConflicts(p) /\ state' = [state EXCEPT ![p] = "run"]
          BY <2>2, <3>3, RunStep
      <4>2. q \in In("run")
          BY <2>2, <4>1 DEF In, TypeOK
      <4> QED BY <3>1, <4>1, <4>2, DispatchNoClash
    <3>4. CASE state[q] # "run"
      <4>1. state[q] = "ready" /\ HasNoConflicts(q) /\ state' = [state EXCEPT ![q] = "run"]
          BY <2>2, <3>4, RunStep
      <4>2. p \in In("run")
          BY <2>2, <4>1 DEF In, TypeOK
      <4> QED BY <3>1, <4>1, <4>2, DispatchNoClash
    <3> QED BY <3>2, <3>3, <3>4
  <2> QED BY <2>1, <2>2 DEF RunsSafely, NoDataRace, In
<1> QED BY <1>1, <1>2

-----------------------------------------------------------------------------
(* The history of the dispatches changes with a dispatch.                   *)
LEMMA LatestChange ==
    ASSUME OoOScheduleAssumption, TypeOK, [Next]_vars
    PROVE  \/ latest' = latest
           \/ \E p \in Process : /\ state[p] = "ready" /\ state'[p] = "run"
                               /\ latest' = [latest EXCEPT ![seg[p]] = ts[p]]
<1> USE DEF control, history
<1>1. CASE DispatchMethod \/ DispatchThread
  <2>1. \/ latest' = latest
        \/ \E p \in In("ready") : Run(p)
      BY <1>1 DEF DispatchMethod, DispatchThread, Poppable, PutBack, Pause
  <2>2. ASSUME NEW p \in In("ready"), Run(p)
        PROVE  /\ p \in Process /\ state[p] = "ready" /\ state'[p] = "run"
               /\ latest' = [latest EXCEPT ![seg[p]] = ts[p]]
      BY <2>2 DEF Run, In, TypeOK
  <2> QED BY <2>1, <2>2
<1>2. CASE (\E t \in Thread : Suspend(t)) \/ (\E i \in Invoker : EndMethods(i))
  <2>1. PICK P \in SUBSET Process : EndSegment(P)
      BY <1>2 DEF Suspend, EndMethods, QueueOf, Process
  <2> QED BY <2>1 DEF EndSegment
<1>3. CASE Timers \/ Deliver \/ Promote
    BY <1>3, Zenon DEF Timers, Deliver, Promote
<1>4. CASE UNCHANGED vars \/ (\E q \in Controlled : Disable(q) \/ Enable(q)) \/ SkipDelivery
           \/ Predictions \/ Relax \/ Finish \/ Start
    BY <1>4 DEF vars, Disable, Enable, SkipDelivery, Predictions, Relax, Finish, Start
<1>5. CASE (\E q \in Process : \E n \in todo[q] : Notify(q, n)) \/ (\E e \in MainEvents : NotifyByMain(e))
    BY <1>5 DEF Notify, NotifyByMain
<1> QED BY <1>1, <1>2, <1>3, <1>4, <1>5 DEF Next

(* If sc_main notifies nothing the certificate of the latest run of a       *)
(* segment is kept, until the segment runs again with its own.              *)
LEMMA LatestSafeStep ==
    ASSUME OoOScheduleAssumption, TablesSound, MainEvents = {}, TypeOK, TypeOK', PhaseOK, WaitsOK,
           PredictionOK, LatestSafe, [Next]_vars
    PROVE  LatestSafe'
<1>1. ~(\E e \in MainEvents : NotifyByMain(e))
    OBVIOUS
<1>2. \A p \in Process : ts[p] \in AnyTimestamp /\ seg[p] \in Segment
    BY Types
<1>3. ASSUME NEW s \in Segment
      PROVE  latest'[s] \in AnyTimestamp /\ Safe(s, latest'[s])
  <2>1. CASE latest'[s] = latest[s]
      BY <2>1 DEF LatestSafe
  <2>2. CASE latest'[s] # latest[s]
    <3>1. PICK p \in Process : /\ state[p] = "ready" /\ state'[p] = "run"
                               /\ latest' = [latest EXCEPT ![seg[p]] = ts[p]]
        BY <2>2, LatestChange
    <3>2. s = seg[p] /\ latest'[s] = ts[p]
        BY <2>2, <3>1 DEF LatestSafe
    <3>3. /\ phase \in {"dispatch", "thread"} /\ HasNoConflicts(p)
          /\ ~CannotDispatch \/ phase = "thread"
        BY <3>1, RunStep
    <3> QED BY <1>2, <3>1, <3>2, <3>3, DispatchedSafe
  <2> QED BY <2>1, <2>2
<1>4. latest' \in [Segment -> AnyTimestamp]
    BY <1>2, LatestChange DEF LatestSafe
<1>5. ASSUME NEW s \in Segment PROVE Safe(s, latest[s])'
  <2>1. PICK L \in [Process -> AnyTimestamp] : Bounds(L)' /\ HazardsAfter(L, s, latest[s])'
    <3>1. \A t \in AnyTimestamp : Safe(s, t) =>
              \E L \in [Process -> AnyTimestamp] :
                 /\ Bounds(L)'
                 /\ \A q \in Process : Alive(q)' /\ Before(L[q], t)
                     => Before(t, Plus(L[q], Hazard[<<seg'[q], s>>]))
        BY <1>1, SafeForStep DEF HazardsAfter
    <3> QED BY <1>3, <3>1 DEF HazardsAfter
  <2> QED BY <2>1 DEF Safe
<1> QED BY <1>4, <1>5 DEF LatestSafe

(* What starts to run clashes with no segment that ran at a later time.     *)
LEMMA BeginsInOrderStep ==
    ASSUME OoOScheduleAssumption, TypeOK, LatestSafe, [Next]_vars
    PROVE  BeginsInOrder
<1> SUFFICES ASSUME NEW p \in Process, state[p] # "run", state'[p] = "run",
                    NEW s \in Segment, <<s, seg[p]>> \in Clash, Before(ts[p], latest[s])
             PROVE  FALSE
    BY DEF BeginsInOrder
<1>1. state[p] = "ready"
    BY RunStep
<1>2. Safe(s, latest[s]) /\ latest[s] \in AnyTimestamp
    BY DEF LatestSafe
<1>3. <<seg[p], s>> \notin Clash
    BY <1>1, <1>2, SafeNoClash
<1> QED BY <1>3, Types DEF OoOScheduleAssumption

-----------------------------------------------------------------------------
(* The predictions and the certificates of what runs, in every state.       *)
OrderInvariant == TypeOK /\ PhaseOK /\ WaitsOK /\ PredictionOK /\ RunsSafely

(* It is an invariant: every part is kept by every step with the others.    *)
LEMMA OrderInvariantHolds ==
    ASSUME TablesSound, DOMAIN Static = {}
    PROVE  Spec => []OrderInvariant
<1>1. Init => OrderInvariant
    BY OrderInit, TypeInit, OoOScheduleAssumption DEF OrderInvariant
<1>2. ASSUME OrderInvariant, [Next]_vars PROVE OrderInvariant'
  <2>1. TypeOK'
      BY <1>2, TypeStep, OoOScheduleAssumption DEF OrderInvariant
  <2>2. PhaseOK' /\ WaitsOK'
      BY <1>2, <2>1, PhaseStep, WaitsStep, OoOScheduleAssumption DEF OrderInvariant
  <2>3. PredictionOK' /\ RunsSafely'
      BY <1>2, <2>1, PredictionStep, RunsSafelyStep, OoOScheduleAssumption DEF OrderInvariant
  <2> QED BY <2>1, <2>2, <2>3 DEF OrderInvariant
<1> QED BY <1>1, <1>2, PTL DEF Spec

(* If the compiler's tables are sound (the run ooo_programs evaluates that  *)
(* for each of its programs) and no process is asleep from the start, two   *)
(* processes never run segments that touch the same data at once: has_no_   *)
(* conflicts, which looks at a prediction of what the others will do, is    *)
(* enough, although the others go on, wait, are woken up and notify while   *)
(* the process runs.                                                        *)
THEOREM NoDataRaceHolds ==
    ASSUME TablesSound, DOMAIN Static = {}
    PROVE  Spec => []NoDataRace
<1>1. OrderInvariant => NoDataRace
    BY DEF OrderInvariant, RunsSafely
<1> QED BY <1>1, OrderInvariantHolds, PTL

(* Segments that touch the same data run in the order of their timestamps,  *)
(* as in a simulation that does not run ahead, if sc_main notifies nothing  *)
(* between two periods.                                                     *)
THEOREM RunsInOrderHolds ==
    ASSUME TablesSound, DOMAIN Static = {}, MainEvents = {}
    PROVE  Spec => RunsInOrder
<1>1. Init => LatestSafe
    BY OrderInit, OoOScheduleAssumption
<1>2. ASSUME OrderInvariant, OrderInvariant', LatestSafe, [Next]_vars PROVE LatestSafe'
    BY <1>2, LatestSafeStep, OoOScheduleAssumption DEF OrderInvariant
<1>3. ASSUME OrderInvariant, LatestSafe, [Next]_vars PROVE BeginsInOrder
    BY <1>3, BeginsInOrderStep, OoOScheduleAssumption DEF OrderInvariant
<1>4. ASSUME UNCHANGED vars PROVE [BeginsInOrder]_vars
    BY <1>4
<1> QED BY <1>1, <1>2, <1>3, <1>4, OrderInvariantHolds, PTL DEF Spec, RunsInOrder

-----------------------------------------------------------------------------
(* Events are taken in the order of simulated time.                         *)

(* From now on nobody notifies, up to time b, an event that ends the wait   *)
(* before segment s.                                                        *)
SilentAfter(L, s, b) ==
    \A q \in Process : Alive(q) => Before(b, Plus(L[q], Predict[<<seg[q], s>>]))

Silent(s, b) ==
    \E L \in [Process -> AnyTimestamp] : Bounds(L) /\ SilentAfter(L, s, b)

(* For every event that a process has taken nobody notifies it any more     *)
(* before the time at which it was taken.                                   *)
TakenSilent ==
    \A p \in Process : \A r \in last[p] :
        /\ r[1] \in Event /\ r[2][2] \in AnyTimestamp
        /\ \E u \in Segment : r[1] \in WaitOf[u].events /\ Silent(NextOf[u], r[2][2])

(* A notification before time t that has been forgotten is older than all   *)
(* the others, than every process that may run and than the waits for its   *)
(* event.                                                                   *)
ForgottenOld(t) ==
    \A e \in Event : \A x \in hist[e] \ notified[e] : Before(x, t) =>
        /\ \A f \in Event : \A y \in notified[f] : Before(x, y)
        /\ \A q \in Process : Alive(q) /\ state[q] \notin {"wait", "paused"} => Before(x, Resumes(q))
        /\ \A p \in In("wait") : e \in waits[p] => Before(x, ts[p])

(* What is forgotten before time t is older than the waits for its event.   *)
ForgetsStaleBefore(t) ==
    \A e \in Event : \A x \in notified[e] \ notified'[e] : Before(x, t) =>
        \A p \in In("wait") : e \in waits[p] => Before(x, ts[p])

(* Nobody is paused and nothing is notified before the first period.        *)
HistoryOK ==
    /\ hist \in [Event -> SUBSET FiniteTimestamp]
    /\ starts = 0 => phase = "stopped" /\ In("paused") = {} /\ \A e \in Event : hist[e] = {}

(* Whoever waits for a time waits for no event.                             *)
TimedAlone == \A p \in In("timed") : waits[p] = {}

-----------------------------------------------------------------------------
(* No step breaks the silence about a segment: the certificate is the same, *)
(* or the one after the end of a segment.                                   *)
LEMMA SilentStep ==
    ASSUME OoOScheduleAssumption, TablesSound, TypeOK, TypeOK', WaitsOK, [Next]_vars, MainEvents = {},
           NEW s \in Segment, NEW b \in AnyTimestamp, Silent(s, b)
    PROVE  Silent(s, b)'
<1>0. PICK L \in [Process -> AnyTimestamp] : Bounds(L) /\ SilentAfter(L, s, b)
    BY DEF Silent
<1>1. CASE Unhurried
  <2>1. Bounds(L)'
      BY <1>0, <1>1, BoundsKept
  <2>2. SilentAfter(L, s, b)'
      BY <1>0, <1>1 DEF SilentAfter, Unhurried
  <2> QED BY <2>1, <2>2 DEF Silent
<1>2. ASSUME NEW p \in Process, NEW n \in todo[p], Notify(p, n) PROVE Silent(s, b)'
  <2>1. Bounds(L)'
      BY <1>0, <1>2, SafeNotify
  <2>2. UNCHANGED <<state, seg, due>>
      BY <1>2 DEF Notify
  <2>3. SilentAfter(L, s, b)'
      BY <1>0, <2>2 DEF SilentAfter, Alive
  <2> QED BY <2>1, <2>3 DEF Silent
<1>3. ASSUME NEW P \in SUBSET In("run"), EndSegment(P) PROVE Silent(s, b)'
  <2>1. PICK M : M = Advanced(L, P)
      OBVIOUS
  <2>2. /\ M \in [Process -> AnyTimestamp]
        /\ \A q \in Process : Alive(q)' => Alive(q)
        /\ \A q \in Process :
              AtMost(Plus(L[q], Predict[<<seg[q], s>>]), Plus(M[q], Predict[<<seg'[q], s>>]))
      BY <1>0, <1>3, <2>1, AdvancedBounds
  <2>3. Bounds(M)'
      BY <1>0, <1>3, <2>1, AdvancedBounds DEF Bounds
  <2>4. ASSUME NEW q \in Process, Alive(q)'
        PROVE  Before(b, Plus(M[q], Predict[<<seg'[q], s>>]))
    <3>1. /\ Predict[<<seg[q], s>>] \in AnyTimestamp /\ Predict[<<seg'[q], s>>] \in AnyTimestamp
          /\ L[q] \in AnyTimestamp /\ M[q] \in AnyTimestamp
        BY <2>2 DEF TypeOK, OoOScheduleAssumption
    <3>2. /\ Plus(L[q], Predict[<<seg[q], s>>]) \in AnyTimestamp
          /\ Plus(M[q], Predict[<<seg'[q], s>>]) \in AnyTimestamp
        BY <3>1, PlusType
    <3>3. Before(b, Plus(L[q], Predict[<<seg[q], s>>]))
        BY <1>0, <2>2, <2>4 DEF SilentAfter
    <3> QED BY <2>2, <3>2, <3>3, AtMostOrder
  <2>5. SilentAfter(M, s, b)'
      BY <2>4 DEF SilentAfter
  <2> QED BY <2>2, <2>3, <2>5 DEF Silent
<1> QED BY <1>1, <1>2, <1>3, StepKinds

(* What is notified after all comes at that time or later.                  *)
LEMMA NotifiedAfter ==
    ASSUME OoOScheduleAssumption, TablesSound, TypeOK, NEW p \in Process, state[p] = "run",
           NEW n \in MayNotify[seg[p]], NEW u \in Segment, n[1] \in WaitOf[u].events,
           NEW b \in AnyTimestamp, Silent(NextOf[u], b)
    PROVE  ~Before(Plus(ts[p], <<n[2], 0>>), b)
<1> DEFINE d == <<n[2], 0>>
<1> DEFINE t == Predict[<<seg[p], NextOf[u]>>]
<1>1. /\ seg[p] \in Segment /\ NextOf[u] \in Segment /\ n \in Event \X Nat /\ Delta \in AnyTimestamp
      /\ ts[p] \in AnyTimestamp /\ t \in AnyTimestamp
    BY Types DEF OoOScheduleAssumption
<1>2. d \in AnyTimestamp
    BY <1>1 DEF AnyTimestamp, FiniteTimestamp
<1>3. PICK L \in [Process -> AnyTimestamp] : Bounds(L) /\ SilentAfter(L, NextOf[u], b)
    BY DEF Silent
<1>4. AtMost(L[p], ts[p]) /\ Before(b, Plus(L[p], t))
    BY <1>3 DEF Bounds, SilentAfter, Alive, Resumes
<1>5. AtMost(t, Plus(d, Delta))
    BY <1>1 DEF TablesSound, AtMost
<1> HIDE DEF d, t
<1>6. /\ Plus(d, Delta) \in AnyTimestamp /\ Plus(ts[p], d) \in AnyTimestamp
      /\ Plus(L[p], t) \in AnyTimestamp /\ Plus(ts[p], t) \in AnyTimestamp
    BY <1>1, <1>2, PlusType
<1>7. /\ Plus(ts[p], Plus(d, Delta)) \in AnyTimestamp /\ Plus(Plus(ts[p], d), Delta) \in AnyTimestamp
    BY <1>1, <1>6, PlusType
<1>8. AtMost(Plus(L[p], t), Plus(ts[p], t)) /\ AtMost(Plus(ts[p], t), Plus(ts[p], Plus(d, Delta)))
    BY <1>1, <1>4, <1>5, <1>6, PlusOrder
<1>9. AtMost(Plus(ts[p], Plus(d, Delta)), Plus(Plus(ts[p], d), Delta))
    BY <1>1, <1>2, PlusParts
<1>10. Before(b, Plus(ts[p], t))
    BY <1>4, <1>6, <1>8, AtMostOrder
<1>11. Before(b, Plus(ts[p], Plus(d, Delta)))
    BY <1>6, <1>7, <1>8, <1>10, AtMostOrder
<1>12. Before(b, Plus(Plus(ts[p], d), Delta))
    BY <1>7, <1>9, <1>11, AtMostOrder
<1> QED BY <1>6, <1>12, NextDelta DEF AtMost, d

(* A process takes an event only when nobody can notify it earlier.         *)
LEMMA TakesSilent ==
    ASSUME OoOScheduleAssumption, TypeOK, PhaseOK, WaitsOK, phase = "deliver", Predicted({}),
           NEW p \in Process, Takes(p), NEW e \in waits[p]
    PROVE  \E u \in Segment : e \in WaitOf[u].events /\ Silent(NextOf[u], EventTime(p))
<1>1. state[p] = "wait" /\ Before(EventTime(p), pwt[p])
    BY DEF Takes
<1>2. PICK u \in Segment : NextOf[u] = seg[p] /\ waits[p] \subseteq WaitOf[u].events
    BY <1>1 DEF WaitsOK, In
<1>3. PICK L : L = [q \in Process |-> Source(q, pwt)]
    OBVIOUS
<1>4. /\ L \in [Process -> AnyTimestamp] /\ Bounds(L)
      /\ \A q \in Process : Alive(q) => L[q] = Floor(q, pwt)
    BY <1>3, PredictionBounds
<1>5. ASSUME NEW q \in Process, Alive(q)
      PROVE  Before(EventTime(p), Plus(L[q], Predict[<<seg[q], seg[p]>>]))
  <2>1. AtMost(pwt[p], Via(q, L[q], p))
      BY <1>1, <1>4, <1>5 DEF Predicted, In, Covers
  <2>2. pwt[p] \in AnyTimestamp /\ Via(q, L[q], p) \in AnyTimestamp /\ EventTime(p) \in AnyTimestamp
      BY <1>4, Types, EventTimeLeast
  <2> QED BY <1>1, <2>1, <2>2, AtMostOrder DEF Via
<1> QED BY <1>2, <1>4, <1>5 DEF Silent, SilentAfter

-----------------------------------------------------------------------------
(* A thread stays paused until the next period, and before the first one    *)
(* there is none; a wait for a time has no events.                          *)
LEMMA PausedKept ==
    ASSUME OoOScheduleAssumption, TypeOK, [Next]_vars, ~Start, NEW q \in Process, state[q] = "paused"
    PROVE  state'[q] = "paused"
<1> USE DEF program, control, prediction
<1>1. CASE Timers
  <2>1. state' = [p \in Process |-> IF p \in {r \in In("timed") : due[r] # <<0, 0>>} \ disabled
                                    THEN Woken ELSE state[p]]
      BY <1>1, Zenon DEF Timers
  <2> QED BY <2>1 DEF In
<1>2. CASE Deliver
  <2> DEFINE woken == {p \in Deliverable({r \in Process : Takes(r)}) :
                            (IF all[p] THEN waits[p] \ EventsAt(p) ELSE {}) = {}}
  <2>1. state' = [p \in Process |-> IF p \in woken THEN Woken ELSE state[p]]
      BY <1>2, Zenon DEF Deliver
  <2>2. q \notin woken
      BY DEF Deliverable, Takes
  <2> HIDE DEF woken
  <2> QED BY <2>1, <2>2
<1>3. CASE (\E t \in Thread : Suspend(t)) \/ (\E i \in Invoker : EndMethods(i))
  <2>1. PICK P \in SUBSET Process : P \subseteq In("run") /\ EndSegment(P)
      BY <1>3 DEF Suspend, EndMethods, QueueOf, Process, In
  <2>2. q \notin P
      BY <2>1 DEF In
  <2> QED BY <2>1, <2>2, EndSegmentEffect
<1>4. CASE Promote
  <2>1. /\ state' = [p \in Process |->
                        IF p \in (IF CycleIsOver THEN NextCycle ELSE {}) THEN "ready" ELSE state[p]]
      BY <1>4, Zenon DEF Promote
  <2>2. q \notin (IF CycleIsOver THEN NextCycle ELSE {})
      BY DEF NextCycle, In
  <2> QED BY <2>1, <2>2
<1>5. CASE DispatchMethod \/ DispatchThread
  <2>1. \/ state' = state
        \/ \E p \in In("ready") : Run(p)
        \/ \E p \in In("ready") : Pause(p)
      BY <1>5 DEF DispatchMethod, DispatchThread, Poppable, PutBack
  <2>2. ASSUME NEW p \in In("ready"), Run(p) \/ Pause(p) PROVE state'[q] = "paused"
    <3>1. p # q /\ \E v \in {"run", "paused"} : state' = [state EXCEPT ![p] = v]
        BY <2>2 DEF Run, Pause, In
    <3> QED BY <3>1 DEF TypeOK
  <2> QED BY <2>1, <2>2
<1>6. CASE UNCHANGED vars \/ (\E p \in Controlled : Disable(p) \/ Enable(p)) \/ SkipDelivery
           \/ Predictions \/ Relax \/ Finish
    BY <1>6 DEF vars, Disable, Enable, SkipDelivery, Predictions, Relax, Finish
<1>7. CASE (\E p \in Process : \E n \in todo[p] : Notify(p, n)) \/ (\E e \in MainEvents : NotifyByMain(e))
    BY <1>7 DEF Notify, NotifyByMain
<1> QED BY <1>1, <1>2, <1>3, <1>4, <1>5, <1>6, <1>7 DEF Next

(* What changes the histories.                                              *)
LEMMA HistChange ==
    ASSUME [Next]_vars, MainEvents = {}
    PROVE  \/ hist' = hist /\ notified' = notified
           \/ hist' = hist /\ Finish
           \/ \E p \in Process : \E n \in todo[p] : Notify(p, n)
<1> USE DEF program, control, history
<1>1. CASE (\E t \in Thread : Suspend(t)) \/ (\E i \in Invoker : EndMethods(i))
  <2>1. PICK P \in SUBSET Process : EndSegment(P)
      BY <1>1 DEF Suspend, EndMethods, QueueOf, Process
  <2> QED BY <2>1 DEF EndSegment
<1>2. CASE Timers \/ Deliver \/ Promote
    BY <1>2, Zenon DEF Timers, Deliver, Promote
<1>3. CASE DispatchMethod \/ DispatchThread
    BY <1>3 DEF DispatchMethod, DispatchThread
<1>4. CASE UNCHANGED vars \/ (\E q \in Controlled : Disable(q) \/ Enable(q)) \/ SkipDelivery
           \/ Predictions \/ Relax \/ Start
    BY <1>4 DEF vars, Disable, Enable, SkipDelivery, Predictions, Relax, Start
<1>5. CASE Finish
    BY <1>5 DEF Finish
<1> QED BY <1>1, <1>2, <1>3, <1>4, <1>5 DEF Next

(* sc_start is called only while sc_main runs, which counts the calls.      *)
LEMMA StartsKept ==
    ASSUME [Next]_vars
    PROVE  \/ Start
           \/ starts' = starts /\ (phase = "stopped" => phase' = phase /\ state' = state)
<1> USE DEF program, control, history
<1>1. CASE (\E t \in Thread : Suspend(t)) \/ (\E i \in Invoker : EndMethods(i))
  <2>1. phase # "stopped" /\ \E P \in SUBSET Process : EndSegment(P)
      BY <1>1 DEF Suspend, EndMethods, QueueOf, Process
  <2> QED BY <2>1 DEF EndSegment
<1>2. CASE Timers \/ Deliver \/ Promote
    BY <1>2, Zenon DEF Timers, Deliver, Promote
<1>3. CASE DispatchMethod \/ DispatchThread
    BY <1>3 DEF DispatchMethod, DispatchThread
<1>4. CASE UNCHANGED vars \/ (\E q \in Controlled : Disable(q) \/ Enable(q)) \/ SkipDelivery
           \/ Predictions \/ Relax \/ Finish
    BY <1>4 DEF vars, Disable, Enable, SkipDelivery, Predictions, Relax, Finish
<1>5. CASE (\E q \in Process : \E n \in todo[q] : Notify(q, n)) \/ (\E e \in MainEvents : NotifyByMain(e))
    BY <1>5 DEF Notify, NotifyByMain
<1> QED BY <1>1, <1>2, <1>3, <1>4, <1>5 DEF Next

(* A process that waits for a time has just entered that wait, or already   *)
(* waited for it.                                                           *)
LEMMA TimedKept ==
    ASSUME OoOScheduleAssumption, TypeOK, [Next]_vars, NEW q \in Process, state'[q] = "timed"
    PROVE  \/ state[q] = "timed" /\ waits'[q] \in {waits[q], {}}
           \/ \E s \in Segment : WaitOf[s].kind = "TIME" /\ waits'[q] = WaitOf[s].events
<1> USE DEF program
<1>1. CASE Timers
  <2>1. state'[q] = "timed" => state[q] = "timed"
    <3>1. state' = [p \in Process |-> IF p \in {r \in In("timed") : due[r] # <<0, 0>>} \ disabled
                                    THEN Woken ELSE state[p]]
        BY <1>1, Zenon DEF Timers
    <3> QED BY <3>1 DEF In
  <2>2. waits' = [p \in Process |-> IF p \in {r \in In("timed") : due[r] # <<0, 0>>}
                                    THEN {} ELSE waits[p]]
      BY <1>1, Zenon DEF Timers
  <2> QED BY <2>1, <2>2
<1>2. CASE Deliver
  <2>1. state[q] = "timed"
      BY <1>2, DeliverUnhurried
  <2> DEFINE takes == Deliverable({r \in Process : Takes(r)})
  <2> DEFINE rest(p) == IF all[p] THEN waits[p] \ EventsAt(p) ELSE {}
  <2>2. waits' = [p \in Process |-> IF p \in takes THEN rest(p) ELSE waits[p]]
      BY <1>2, Zenon DEF Deliver
  <2>3. q \notin takes
      BY <2>1 DEF Deliverable, Takes
  <2> HIDE DEF takes, rest
  <2> QED BY <2>1, <2>2, <2>3
<1>3. ASSUME NEW P \in SUBSET In("run"), EndSegment(P)
      PROVE  \/ state[q] = "timed" /\ waits'[q] \in {waits[q], {}}
             \/ \E s \in Segment : WaitOf[s].kind = "TIME" /\ waits'[q] = WaitOf[s].events
  <2>1. P \in SUBSET Process /\ seg[q] \in Segment
      BY DEF In, TypeOK
  <2>2. CASE q \in P
    <3>1. WaitOf[seg[q]].kind = "TIME" /\ waits'[q] = WaitOf[seg[q]].events
        BY <1>3, <2>1, <2>2, EndSegmentEffect
    <3> QED BY <2>1, <3>1
  <2>3. CASE q \notin P
      BY <1>3, <2>1, <2>3, EndSegmentEffect
  <2> QED BY <2>2, <2>3
<1>4. CASE \/ SkipDelivery \/ Predictions \/ Relax \/ Promote
           \/ DispatchMethod \/ DispatchThread \/ Finish \/ Start
           \/ UNCHANGED vars \/ \E p \in Controlled : Disable(p) \/ Enable(p)
  <2>1. waits' = waits /\ (state'[q] = state[q] \/ {state[q], state'[q]} \cap {"wait", "timed", "dead"} = {})
      BY <1>4, OtherUnhurried
  <2> QED BY <2>1
<1>5. CASE (\E p \in Process : \E n \in todo[p] : Notify(p, n)) \/ (\E e \in MainEvents : NotifyByMain(e))
    BY <1>5 DEF Notify, NotifyByMain
<1>6. ASSUME NEW t \in Thread, Suspend(t) PROVE \E P \in SUBSET In("run") : EndSegment(P)
  <2>1. {t} \in SUBSET In("run") /\ EndSegment({t})
      BY <1>6 DEF Suspend, In, Process
  <2> QED BY <2>1
<1>7. ASSUME NEW i \in Invoker, EndMethods(i) PROVE \E P \in SUBSET In("run") : EndSegment(P)
  <2>1. QueueOf(i) \in SUBSET In("run") /\ EndSegment(QueueOf(i))
      BY <1>7 DEF EndMethods, QueueOf, In, Process
  <2> QED BY <2>1
<1> QED BY <1>1, <1>2, <1>3, <1>4, <1>5, <1>6, <1>7 DEF Next

(* No wait is for a time and for events at once: then the code would give   *)
(* up what the event still promises (README).                               *)
TimesAlone == \A s \in Segment : WaitOf[s].kind = "TIME" => WaitOf[s].events = {}

(* Nor does a step make somebody who waits for a time wait for an event.    *)
LEMMA TimedAloneStep ==
    ASSUME OoOScheduleAssumption, TypeOK, TimedAlone, TimesAlone, [Next]_vars
    PROVE  TimedAlone'
<1> SUFFICES ASSUME NEW q \in Process, state'[q] = "timed" PROVE waits'[q] = {}
    BY DEF TimedAlone, In
<1> QED BY TimedKept DEF TimedAlone, In, TimesAlone

(* The history and the first period stay as they should.                    *)
LEMMA HistoryStep ==
    ASSUME OoOScheduleAssumption, TypeOK, HistoryOK, MainEvents = {}, [Next]_vars
    PROVE  HistoryOK'
<1>1. hist' \in [Event -> SUBSET FiniteTimestamp]
  <2>1. ASSUME NEW p \in Process, NEW n \in todo[p], Notify(p, n)
        PROVE  hist' \in [Event -> SUBSET FiniteTimestamp]
    <3>1. /\ n \in Event \X Nat /\ ts[p] \in FiniteTimestamp
          /\ hist' = [hist EXCEPT ![n[1]] = @ \cup {Plus(ts[p], <<n[2], 0>>)}]
        BY <2>1 DEF Notify, TypeOK
    <3>2. Plus(ts[p], <<n[2], 0>>) \in FiniteTimestamp
        BY <3>1 DEF Plus, FiniteTimestamp, Infinite
    <3> QED BY <3>1, <3>2 DEF HistoryOK
  <2> QED BY <2>1, HistChange DEF HistoryOK
<1>2. starts' = 0 => phase' = "stopped" /\ In("paused")' = {} /\ \A e \in Event : hist'[e] = {}
  <2>1. CASE Start
    <3>1. starts' # 0
        BY <2>1 DEF Start, TypeOK
    <3> QED BY <3>1
  <2>2. CASE ~Start
    <3>1. starts' = 0 => starts = 0 /\ phase' = "stopped" /\ In("paused")' = {}
        BY <2>2, StartsKept DEF HistoryOK, In
    <3>2. phase = "stopped" => hist' = hist
        BY HistChange DEF Notify
    <3> QED BY <3>1, <3>2 DEF HistoryOK
  <2> QED BY <2>1, <2>2
<1> QED BY <1>1, <1>2 DEF HistoryOK

-----------------------------------------------------------------------------
(* What has been forgotten stays older than everything that counts.         *)

(* Nobody who waits is woken before what is left of the notifications.      *)
LEMMA ForgottenKept ==
    ASSUME OoOScheduleAssumption, TypeOK, TypeOK', HistoryOK, NEW t, ForgottenOld(t), Unhurried,
           hist' = hist, notified' = notified,
           In("paused") = {} \/ \A q \in Process : state[q] = "paused" => state'[q] = "paused"
    PROVE  ForgottenOld(t)'
<1> SUFFICES ASSUME NEW e \in Event, NEW x \in hist[e] \ notified[e], Before(x, t)
             PROVE  /\ \A f \in Event : \A y \in notified[f] : Before(x, y)
                    /\ \A q \in Process : Alive(q)' /\ state'[q] \notin {"wait", "paused"}
                          => Before(x, Resumes(q)')
                    /\ \A p \in In("wait")' : e \in waits'[p] => Before(x, ts'[p])
    BY DEF ForgottenOld
<1>1. x \in AnyTimestamp /\ x # Infinite
    BY DEF HistoryOK, AnyTimestamp, FiniteTimestamp, Infinite
<1>2. ASSUME NEW p \in Process, state'[p] = "wait", e \in waits'[p] PROVE Before(x, ts'[p])
  <2>1. p \in In("wait") /\ ts'[p] = ts[p] /\ e \in waits[p]
      BY <1>2 DEF Unhurried, In
  <2> QED BY <2>1 DEF ForgottenOld
<1>3. ASSUME NEW q \in Process, Alive(q)', state'[q] \notin {"wait", "paused"}
      PROVE  Before(x, Resumes(q)')
  <2>1. Alive(q) /\ state[q] # "paused" /\ Resumes(q)' \in AnyTimestamp
      BY <1>3 DEF Unhurried, In, Resumes, TypeOK, AnyTimestamp
  <2>2. CASE state[q] = "wait"
    <3>1. EventTime(q) \in AnyTimestamp /\ Delta \in AnyTimestamp
        BY EventTimeLeast, Types
    <3>2. Before(x, EventTime(q))
      <4>1. CASE EventTime(q) = Infinite
          BY <1>1, <4>1 DEF Before
      <4>2. CASE EventTime(q) # Infinite
        <5>1. \E f \in Event : EventTime(q) \in notified[f]
            BY <4>2, EventTimeLeast, Types
        <5> QED BY <5>1 DEF ForgottenOld
      <4> QED BY <4>1, <4>2
    <3>3. Plus(EventTime(q), Delta) \in AnyTimestamp
        BY <3>1, PlusType
    <3>4. Before(x, Plus(EventTime(q), Delta))
        BY <1>1, <3>1, <3>2, <3>3, PlusParts, AtMostOrder
    <3>5. EventsAllow(q, Plus(EventTime(q), Delta))
        BY <3>3, EventsAllowTime, AtMostOrder
    <3>6. AtMost(Plus(EventTime(q), Delta), Resumes(q)')
        BY <1>3, <2>2, <3>3, <3>5 DEF Unhurried
    <3> QED BY <1>1, <2>1, <3>3, <3>4, <3>6, AtMostOrder
  <2>3. CASE state[q] # "wait"
    <3>1. Resumes(q)' = Resumes(q)
        BY <1>3, <2>3 DEF Unhurried
    <3> QED BY <2>1, <2>3, <3>1 DEF ForgottenOld
  <2> QED BY <2>2, <2>3
<1> QED BY <1>2, <1>3 DEF In, ForgottenOld

(* A process notifies nothing for a time that it has passed.                *)
LEMMA ForgottenNotify ==
    ASSUME OoOScheduleAssumption, TypeOK, HistoryOK, NEW t, ForgottenOld(t),
           NEW p \in Process, NEW n \in todo[p], Notify(p, n)
    PROVE  ForgottenOld(t)'
<1> DEFINE z == Plus(ts[p], <<n[2], 0>>)
<1>1. /\ n \in Event \X Nat /\ state[p] = "run" /\ UNCHANGED <<state, ts, waits, due>>
      /\ notified' = [notified EXCEPT ![n[1]] = @ \cup {z}]
      /\ hist' = [hist EXCEPT ![n[1]] = @ \cup {z}]
    BY DEF Notify, TypeOK
<1>2. z \in AnyTimestamp /\ ts[p] \in AnyTimestamp /\ AtMost(ts[p], z)
  <2>1. <<n[2], 0>> \in AnyTimestamp
      BY <1>1 DEF AnyTimestamp, FiniteTimestamp
  <2> QED BY <2>1, Types, PlusType, PlusParts
<1> HIDE DEF z
<1>3. \A e \in Event : /\ notified'[e] = IF e = n[1] THEN notified[e] \cup {z} ELSE notified[e]
                       /\ hist'[e] = IF e = n[1] THEN hist[e] \cup {z} ELSE hist[e]
    BY <1>1 DEF TypeOK, HistoryOK
<1> SUFFICES ASSUME NEW e \in Event, NEW x \in hist'[e] \ notified'[e], Before(x, t)
             PROVE  /\ \A f \in Event : \A y \in notified'[f] : Before(x, y)
                    /\ \A q \in Process : Alive(q) /\ state[q] \notin {"wait", "paused"}
                          => Before(x, Resumes(q))
                    /\ \A q \in In("wait") : e \in waits[q] => Before(x, ts[q])
    BY <1>1 DEF ForgottenOld, In, Alive, Resumes
<1>4. x \in hist[e] \ notified[e]
    BY <1>3
<1>5. Before(x, ts[p]) /\ x \in AnyTimestamp
  <2>1. Alive(p) /\ Resumes(p) = ts[p]
      BY <1>1 DEF Alive, Resumes
  <2>2. x \in FiniteTimestamp
      BY <1>4 DEF HistoryOK
  <2> QED BY <1>1, <1>4, <2>1, <2>2 DEF ForgottenOld, AnyTimestamp
<1>6. Before(x, z)
    BY <1>2, <1>5, AtMostOrder
<1>7. ASSUME NEW f \in Event, NEW y \in notified'[f] PROVE Before(x, y)
  <2>1. y \in notified[f] \/ y = z
    <3>1. notified'[f] = notified[f] \cup {z} \/ notified'[f] = notified[f]
        BY <1>3
    <3> QED BY <1>7, <3>1
  <2> QED BY <1>4, <1>6, <2>1 DEF ForgottenOld
<1> QED BY <1>4, <1>7 DEF ForgottenOld

(* Whoever ends its segment waits since then, or resumes later.             *)
LEMMA ForgottenEnd ==
    ASSUME OoOScheduleAssumption, TypeOK, TypeOK', HistoryOK, NEW t, ForgottenOld(t),
           NEW P \in SUBSET In("run"), EndSegment(P), hist' = hist
    PROVE  ForgottenOld(t)'
<1>0. P \in SUBSET Process /\ \A q \in P : state[q] = "run"
    BY DEF In
<1>1. /\ ts' = ts /\ notified' = notified
      /\ \A q \in Process \ P : /\ state'[q] = state[q] /\ waits'[q] = waits[q] /\ due'[q] = due[q]
      /\ \A q \in P : /\ state'[q] \in {"timed", "dead", "wait"}
                      /\ state'[q] = "timed" => due'[q] = Plus(ts[q], Advance(WaitOf[seg[q]]))
    BY <1>0, EndSegmentEffect
<1> SUFFICES ASSUME NEW e \in Event, NEW x \in hist[e] \ notified[e], Before(x, t)
             PROVE  /\ \A q \in Process : Alive(q)' /\ state'[q] \notin {"wait", "paused"}
                          => Before(x, Resumes(q)')
                    /\ \A p \in In("wait")' : e \in waits'[p] => Before(x, ts[p])
    BY <1>1 DEF ForgottenOld
<1>2. x \in AnyTimestamp
    BY DEF HistoryOK, AnyTimestamp
<1>3. ASSUME NEW q \in P PROVE Before(x, ts[q]) /\ ts[q] \in AnyTimestamp
  <2>1. Alive(q) /\ Resumes(q) = ts[q] /\ q \in Process /\ state[q] = "run"
      BY <1>0, <1>3 DEF Alive, Resumes
  <2> QED BY <2>1, Types DEF ForgottenOld
<1>4. ASSUME NEW q \in Process, Alive(q)', state'[q] \notin {"wait", "paused"}
      PROVE  Before(x, Resumes(q)')
  <2>1. CASE q \in P
    <3>1. Resumes(q)' = Plus(ts[q], Advance(WaitOf[seg[q]]))
        BY <1>1, <1>4, <2>1 DEF Alive, Resumes
    <3>2. Advance(WaitOf[seg[q]]) \in AnyTimestamp
        BY AdvanceType, Types
    <3>3. Plus(ts[q], Advance(WaitOf[seg[q]])) \in AnyTimestamp
        BY <1>3, <2>1, <3>2, PlusType
    <3> QED BY <1>2, <1>3, <2>1, <3>1, <3>2, <3>3, PlusParts, AtMostOrder
  <2>2. CASE q \notin P
    <3>1. Resumes(q)' = Resumes(q) /\ Alive(q) /\ state[q] \notin {"wait", "paused"}
        BY <1>1, <1>4, <2>2 DEF Alive, Resumes
    <3> QED BY <3>1 DEF ForgottenOld
  <2> QED BY <2>1, <2>2
<1>5. ASSUME NEW p \in Process, state'[p] = "wait", e \in waits'[p] PROVE Before(x, ts[p])
  <2>1. CASE p \in P
      BY <1>3, <2>1
  <2>2. CASE p \notin P
      BY <1>1, <1>5, <2>2 DEF ForgottenOld, In
  <2> QED BY <2>1, <2>2
<1> QED BY <1>4, <1>5 DEF In

(* The clean-up forgets what is older than all that run or are ready.       *)
LEMMA ForgottenFinish ==
    ASSUME OoOScheduleAssumption, TypeOK, PhaseOK, HistoryOK, NEW t, ForgottenOld(t), Finish,
           ForgetsStaleBefore(t), hist' = hist
    PROVE  ForgottenOld(t)'
<1> USE DEF program
<1>1. /\ UNCHANGED <<state, ts, waits, due>> /\ phase = "dispatch"
      /\ notified' \in {notified, Kept}
    BY DEF Finish
<1> DEFINE S == {ts[p] : p \in In("run") \cup In("ready") \cup In("timed") \cup In("queued")
                                 \cup {p \in In("wait") : all[p]}}
<1>2. Oldest \in AnyTimestamp /\ \A y \in S : AtMost(Oldest, y)
  <2>1. S \in SUBSET AnyTimestamp /\ Oldest = Earliest(S)
      BY DEF Oldest, TypeOK, AnyTimestamp, In
  <2> QED BY <2>1, EarliestIsLeast DEF AtMost
<1>3. \A q \in Process : Alive(q) /\ state[q] \notin {"wait", "paused"}
          => AtMost(Oldest, ts[q]) /\ Resumes(q) = ts[q]
  <2> SUFFICES ASSUME NEW q \in Process, Alive(q), state[q] \notin {"wait", "paused"}
               PROVE  AtMost(Oldest, ts[q]) /\ Resumes(q) = ts[q]
      OBVIOUS
  <2>1. state[q] \in {"run", "ready", "queued"}
      BY <1>1 DEF PhaseOK, Alive, TypeOK
  <2>2. ts[q] \in S
      BY <2>1 DEF In
  <2> QED BY <1>2, <2>1, <2>2 DEF Resumes
<1> HIDE DEF S
<1> SUFFICES ASSUME NEW e \in Event, NEW x \in hist[e] \ notified'[e], Before(x, t)
             PROVE  /\ \A f \in Event : \A y \in notified'[f] : Before(x, y)
                    /\ \A q \in Process : Alive(q) /\ state[q] \notin {"wait", "paused"}
                          => Before(x, Resumes(q))
                    /\ \A p \in In("wait") : e \in waits[p] => Before(x, ts[p])
    BY <1>1 DEF ForgottenOld, In, Alive, Resumes
<1>4. \A f \in Event : notified'[f] \subseteq notified[f]
    BY <1>1 DEF Kept
<1>5. x \in AnyTimestamp /\ \A f \in Event : notified[f] \subseteq AnyTimestamp
    BY DEF HistoryOK, TypeOK, AnyTimestamp
<1>6. CASE x \notin notified[e]
    BY <1>4, <1>6 DEF ForgottenOld
<1>7. CASE x \in notified[e]
  <2>1. notified' = Kept /\ Before(x, Oldest)
      BY <1>1, <1>7 DEF Kept
  <2>2. ASSUME NEW f \in Event, NEW y \in notified'[f] PROVE Before(x, y)
    <3>1. AtMost(Oldest, y) /\ y \in AnyTimestamp
        BY <1>5, <2>1 DEF Kept, AtMost
    <3> QED BY <1>2, <1>5, <2>1, <3>1, AtMostOrder
  <2>3. ASSUME NEW q \in Process, Alive(q), state[q] \notin {"wait", "paused"}
        PROVE  Before(x, Resumes(q))
    <3>1. AtMost(Oldest, ts[q]) /\ Resumes(q) = ts[q] /\ ts[q] \in AnyTimestamp
        BY <1>3, <2>3, Types
    <3> QED BY <1>2, <1>5, <2>1, <3>1, AtMostOrder
  <2>4. \A p \in In("wait") : e \in waits[p] => Before(x, ts[p])
      BY <1>7 DEF ForgetsStaleBefore
  <2> QED BY <2>2, <2>3, <2>4
<1> QED BY <1>6, <1>7

(* The only step that forgets is Finish, and what it forgets is old.        *)
LEMMA ForgottenStep ==
    ASSUME OoOScheduleAssumption, TypeOK, TypeOK', PhaseOK, HistoryOK, NEW t, ForgottenOld(t),
           ForgetsStaleBefore(t), MainEvents = {}, MaxStarts <= 1, [Next]_vars
    PROVE  ForgottenOld(t)'
<1>1. CASE Finish
  <2>1. hist' = hist
      BY <1>1 DEF Finish, history
  <2> QED BY <1>1, <2>1, ForgottenFinish
<1>2. ASSUME NEW p \in Process, NEW n \in todo[p], Notify(p, n) PROVE ForgottenOld(t)'
    BY <1>2, ForgottenNotify
<1>3. ASSUME NEW P \in SUBSET In("run"), EndSegment(P) PROVE ForgottenOld(t)'
  <2>1. hist' = hist
      BY <1>3 DEF EndSegment, history
  <2> QED BY <1>3, <2>1, ForgottenEnd
<1>4. CASE Unhurried /\ hist' = hist /\ notified' = notified
  <2>1. CASE Start
    <3>1. starts = 0
        BY <2>1 DEF Start, TypeOK, OoOScheduleAssumption
    <3> QED BY <1>4, <3>1, ForgottenKept DEF HistoryOK
  <2>2. CASE ~Start
      BY <1>4, <2>2, PausedKept, ForgottenKept
  <2> QED BY <2>1, <2>2
<1> QED BY <1>1, <1>2, <1>3, <1>4, HistChange, StepKinds

-----------------------------------------------------------------------------
(* What a process has taken changes with a delivery only.                   *)
LEMMA LastChange ==
    ASSUME OoOScheduleAssumption, TypeOK, TimedAlone, [Next]_vars
    PROVE  \/ \A p \in Process : last'[p] = last[p]
           \/ /\ Deliver
              /\ \A p \in Process : \A r \in last'[p] :
                    \/ r \in last[p]
                    \/ Takes(p) /\ \E e \in waits[p] : r = <<e, <<ts[p], EventTime(p)>>>>
<1> USE DEF program, control, history
<1>1. CASE (\E t \in Thread : Suspend(t)) \/ (\E i \in Invoker : EndMethods(i))
  <2>1. PICK P \in SUBSET Process : EndSegment(P)
      BY <1>1 DEF Suspend, EndMethods, QueueOf, Process
  <2> QED BY <2>1 DEF EndSegment
<1>2. CASE Promote
    BY <1>2, Zenon DEF Promote
<1>3. CASE DispatchMethod \/ DispatchThread
    BY <1>3 DEF DispatchMethod, DispatchThread
<1>4. CASE UNCHANGED vars \/ (\E q \in Controlled : Disable(q) \/ Enable(q)) \/ SkipDelivery
           \/ Predictions \/ Relax \/ Start \/ Finish
    BY <1>4 DEF vars, Disable, Enable, SkipDelivery, Predictions, Relax, Start, Finish
<1>5. CASE (\E q \in Process : \E n \in todo[q] : Notify(q, n)) \/ (\E e \in MainEvents : NotifyByMain(e))
    BY <1>5 DEF Notify, NotifyByMain
<1>6. CASE Timers
  <2> DEFINE woken == {p \in In("timed") : due[p] # <<0, 0>>} \ disabled
  <2>1. last' = [p \in Process |-> IF p \in woken /\ waits[p] # {}
                                   THEN waits[p] \X {<<ts[p], due[p]>>} ELSE last[p]]
      BY <1>6, Zenon DEF Timers
  <2>2. \A p \in Process : ~(p \in woken /\ waits[p] # {})
      BY DEF TimedAlone, In
  <2> HIDE DEF woken
  <2> QED BY <2>1, <2>2
<1>7. CASE Deliver
  <2> DEFINE takes == Deliverable({r \in Process : Takes(r)})
  <2>1. last' = [p \in Process |->
                      IF p \notin takes THEN last[p]
                      ELSE Used(p, IF all[p] THEN EventsAt(p) ELSE waits[p])]
      BY <1>7, Zenon DEF Deliver
  <2>2. \A p \in takes : Takes(p)
      BY DEF Deliverable
  <2> HIDE DEF takes
  <2> SUFFICES ASSUME NEW p \in Process, NEW r \in last'[p], r \notin last[p]
               PROVE  Takes(p) /\ \E e \in waits[p] : r = <<e, <<ts[p], EventTime(p)>>>>
      BY <1>7
  <2>3. p \in takes /\ r \in Used(p, IF all[p] THEN EventsAt(p) ELSE waits[p])
      BY <2>1
  <2>4. (IF all[p] THEN EventsAt(p) ELSE waits[p]) \subseteq waits[p]
      BY DEF EventsAt
  <2>5. r \in waits[p] \X {<<ts[p], EventTime(p)>>}
      BY <2>3, <2>4 DEF Used
  <2> QED BY <2>2, <2>3, <2>5
<1> QED BY <1>1, <1>2, <1>3, <1>4, <1>5, <1>6, <1>7 DEF Next

(* A process takes an event only when its prediction says that nobody will  *)
(* notify it before; that remains so.                                       *)
LEMMA TakenSilentStep ==
    ASSUME OoOScheduleAssumption, TablesSound, TypeOK, TypeOK', PhaseOK, WaitsOK, PredictionOK,
           TimedAlone, MainEvents = {}, TakenSilent, [Next]_vars
    PROVE  TakenSilent'
<1>1. ASSUME NEW p \in Process, NEW r \in last'[p]
      PROVE  /\ r[1] \in Event /\ r[2][2] \in AnyTimestamp
             /\ \E u \in Segment : r[1] \in WaitOf[u].events /\ Silent(NextOf[u], r[2][2])
  <2>1. CASE r \in last[p]
      BY <2>1 DEF TakenSilent
  <2>2. CASE r \notin last[p]
    <3>1. Deliver /\ Takes(p) /\ \E e \in waits[p] : r = <<e, <<ts[p], EventTime(p)>>>>
        BY <1>1, <2>2, LastChange
    <3>2. PICK e \in waits[p] : r = <<e, <<ts[p], EventTime(p)>>>>
        BY <3>1
    <3>3. r[1] = e /\ r[2][2] = EventTime(p) /\ e \in Event /\ EventTime(p) \in AnyTimestamp
        BY <3>2, EventTimeLeast, Types
    <3>4. phase = "deliver" /\ Predicted({})
        BY <3>1 DEF Deliver, PredictionOK
    <3>5. \E u \in Segment : e \in WaitOf[u].events /\ Silent(NextOf[u], EventTime(p))
        BY <3>1, <3>4, TakesSilent
    <3> QED BY <3>3, <3>5
  <2> QED BY <2>1, <2>2
<1>2. \A s \in Segment : \A b \in AnyTimestamp : Silent(s, b) =>
          \E L \in [Process -> AnyTimestamp] : Bounds(L)' /\ SilentAfter(L, s, b)'
  <2> SUFFICES ASSUME NEW s \in Segment, NEW b \in AnyTimestamp, Silent(s, b)
               PROVE  \E L \in [Process -> AnyTimestamp] : Bounds(L)' /\ SilentAfter(L, s, b)'
      OBVIOUS
  <2>1. Silent(s, b)'
      BY SilentStep
  <2> QED BY <2>1 DEF Silent
<1>3. ASSUME NEW p \in Process, NEW r \in last'[p]
      PROVE  \E u \in Segment : r[1] \in WaitOf[u].events /\
                \E L \in [Process -> AnyTimestamp] : Bounds(L)' /\ SilentAfter(L, NextOf[u], r[2][2])'
  <2>1. PICK u \in Segment : r[1] \in WaitOf[u].events /\ Silent(NextOf[u], r[2][2])
      BY <1>1
  <2>2. NextOf[u] \in Segment /\ r[2][2] \in AnyTimestamp
      BY <1>1 DEF OoOScheduleAssumption
  <2>3. \E L \in [Process -> AnyTimestamp] : Bounds(L)' /\ SilentAfter(L, NextOf[u], r[2][2])'
      BY <1>2, <2>1, <2>2
  <2> QED BY <2>1, <2>3
<1> QED BY <1>1, <1>3, Zenon DEF TakenSilent, Silent

(* What is notified for a time before t does not come to light too late.    *)
TakenInOrderBefore(t) ==
    \A p \in Process : \A r \in last[p] : \A x \in hist[r[1]] :
        Before(x, t) => Before(x, r[2][1]) \/ ~Before(x, r[2][2])

(* Neither a notification nor a delivery puts a notification before one     *)
(* that has been taken.                                                     *)
LEMMA TakenInOrderStep ==
    ASSUME OoOScheduleAssumption, TablesSound, TypeOK, TimedAlone, MainEvents = {},
           hist \in [Event -> SUBSET FiniteTimestamp], NEW t, ForgottenOld(t), TakenSilent,
           TakenInOrderBefore(t), [Next]_vars
    PROVE  TakenInOrderBefore(t)'
<1> SUFFICES ASSUME NEW p \in Process, NEW r \in last'[p], NEW x \in hist'[r[1]], Before(x, t)
             PROVE  Before(x, r[2][1]) \/ ~Before(x, r[2][2])
    BY DEF TakenInOrderBefore
<1>1. CASE r \in last[p]
  <2>1. CASE x \in hist[r[1]]
      BY <1>1, <2>1 DEF TakenInOrderBefore
  <2>2. CASE x \notin hist[r[1]]
    <3>1. PICK q \in Process : \E n \in todo[q] : Notify(q, n)
        BY <2>2, HistChange
    <3>2. PICK n \in todo[q] : Notify(q, n)
        BY <3>1
    <3>3. /\ n \in MayNotify[seg[q]] /\ state[q] = "run"
          /\ hist' = [hist EXCEPT ![n[1]] = @ \cup {Plus(ts[q], <<n[2], 0>>)}]
        BY <3>2 DEF Notify, TypeOK
    <3>4. r[1] \in Event /\ r[2][2] \in AnyTimestamp
        BY <1>1 DEF TakenSilent
    <3>5. r[1] = n[1] /\ x = Plus(ts[q], <<n[2], 0>>)
        BY <2>2, <3>3, <3>4
    <3>6. PICK u \in Segment : r[1] \in WaitOf[u].events /\ Silent(NextOf[u], r[2][2])
        BY <1>1 DEF TakenSilent
    <3>7. ~Before(x, r[2][2])
        BY <3>3, <3>4, <3>5, <3>6, NotifiedAfter
    <3> QED BY <3>7
  <2> QED BY <2>1, <2>2
<1>2. CASE r \notin last[p]
  <2>1. Deliver /\ Takes(p) /\ \E e \in waits[p] : r = <<e, <<ts[p], EventTime(p)>>>>
      BY <1>2, LastChange
  <2>2. PICK e \in waits[p] : r = <<e, <<ts[p], EventTime(p)>>>>
      BY <2>1
  <2>3. r[1] = e /\ r[2][1] = ts[p] /\ r[2][2] = EventTime(p)
      BY <2>2
  <2>4. hist' = hist /\ e \in Event /\ state[p] = "wait"
      BY <2>1, Types DEF Deliver, Takes
  <2>5. CASE x \in notified[e]
      BY <2>3, <2>5, EventTimeLeast DEF AtMost
  <2>6. CASE x \notin notified[e]
      BY <2>3, <2>4, <2>6 DEF ForgottenOld, In
  <2> QED BY <2>5, <2>6
<1> QED BY <1>1, <1>2

(* Whatever runs ahead, the notification that a process has taken for an    *)
(* event stays the first one since it began to wait: for one period in      *)
(* which sc_main notifies nothing, no process waits from the start and no   *)
(* wait has a timeout beside its events, as long as no notification is      *)
(* forgotten that somebody still waits for. The code does not ensure the    *)
(* last condition at the limit on what runs and after a pause, and without  *)
(* the others the property is false (the runs ooo_limit, ooo_paused and     *)
(* ooo_static; README).                                                     *)
THEOREM TakenInOrderHolds ==
    ASSUME TablesSound, TimesAlone, DOMAIN Static = {}, MainEvents = {}, MaxStarts <= 1
    PROVE  Spec /\ ForgottenIsStale => []TakenInOrder
<1> DEFINE Taken == /\ HistoryOK /\ TimedAlone /\ ForgottenOld(Infinite) /\ TakenSilent
                    /\ TakenInOrderBefore(Infinite)
<1>1. ASSUME Init PROVE Taken
  <2>1. /\ state = [p \in Process |-> "ready"] /\ phase = "stopped"
        /\ hist = [e \in Event |-> {}] /\ last = [p \in Process |-> {}]
      BY <1>1 DEF Init
  <2> QED BY <2>1 DEF HistoryOK, TimedAlone, ForgottenOld, TakenSilent, TakenInOrderBefore, In
<1>2. ASSUME OrderInvariant, OrderInvariant', Taken, [Next]_vars, [ForgetsStale]_vars
      PROVE  Taken'
  <2>1. HistoryOK' /\ TimedAlone' /\ TakenSilent' /\ TakenInOrderBefore(Infinite)'
    <3>1. hist \in [Event -> SUBSET FiniteTimestamp]
        BY <1>2 DEF HistoryOK
    <3> QED BY <1>2, <3>1, HistoryStep, TimedAloneStep, TakenSilentStep, TakenInOrderStep,
               OoOScheduleAssumption DEF OrderInvariant
  <2>2. CASE ForgetsStale
    <3>1. ForgetsStaleBefore(Infinite)
        BY <2>2 DEF ForgetsStale, ForgetsStaleBefore
    <3> QED BY <1>2, <2>1, <3>1, ForgottenStep, OoOScheduleAssumption DEF OrderInvariant
  <2>3. CASE UNCHANGED vars
    <3>1. UNCHANGED <<state, ts, waits, due, hist, notified>>
        BY <2>3 DEF vars, program, history
    <3>2. ForgottenOld(Infinite)'
        BY <1>2, <3>1 DEF ForgottenOld, In, Alive, Resumes
    <3> QED BY <2>1, <3>2
  <2> QED BY <1>2, <2>2, <2>3
<1>3. ASSUME Taken PROVE TakenInOrder
  <2> SUFFICES ASSUME NEW p \in Process, NEW r \in last[p], NEW x \in hist[r[1]]
               PROVE  Before(x, r[2][1]) \/ ~Before(x, r[2][2])
      BY DEF TakenInOrder
  <2>1. r[1] \in Event
      BY <1>3 DEF TakenSilent
  <2>2. Before(x, Infinite)
      BY <1>3, <2>1 DEF HistoryOK, Before, FiniteTimestamp, Infinite
  <2> QED BY <1>3, <2>2 DEF TakenInOrderBefore
<1> HIDE DEF Taken
<1> QED BY <1>1, <1>2, <1>3, OrderInvariantHolds, PTL DEF Spec, ForgottenIsStale

-----------------------------------------------------------------------------
(* Nobody is left behind when sc_main continues.  That needs the other side *)
(* of the predictions: not only is nobody woken up before its predicted     *)
(* time, that time also has a reason, so that whoever holds another process *)
(* back does so because of a process that can go on.                        *)

(* Where a process is in a plain program: it waits for no list of events, has*)
(* just begun to wait for a time, or is paused because its time is over.    *)
PlainProcess(p) ==
    /\ state[p] # "queued"
    /\ state[p] = "wait" => due[p] = <<0, 0>> /\ ~all[p]
    /\ state[p] = "timed" => /\ p \in newWaiting /\ due[p] # <<0, 0>> /\ phase \in {"idle", "timers"}
                             /\ \A s \in Segment : Predict[<<s, seg[p]>>] = Infinite
    /\ state[p] = "dead" => \A s \in Segment : Predict[<<seg[p], s>>] = Infinite
    /\ state[p] = "paused" => AtMost(duration, ts[p])
    /\ p \in Method => seg[p] = First[p]

(* Every process of a plain program.                                        *)
ProcessesPlain == \A p \in Process : PlainProcess(p)

(* How far the call of the scheduler is says what is left in its            *)
(* variables, and before the first sc_start nobody is paused.               *)
CallPlain ==
    /\ phase # "promote"
    /\ phase \in {"relax", "deliver"} => newWaiting = {}
    /\ phase \notin {"dispatch", "thread"} => tried = {}
    /\ phase \in {"stopped", "idle", "timers", "predict"} =>
          \A p \in Process : state[p] = "ready" => definer[p] = None
    /\ \A i \in running : QueueOf(i) # {}
    /\ starts = 0 => phase = "stopped" /\ \A p \in Process : state[p] # "paused"

(* Fewer threads and invokers run than the limit allows.                    *)
LEMMA NotFull ==
    ASSUME OoOScheduleAssumption, PlainUse, TypeOK
    PROVE  ~Full
<1> DEFINE R == {t \in Thread : state[t] = "run"}
<1>1. IsFiniteSet(Thread) /\ IsFiniteSet(Invoker)
  <2>1. IsFiniteSet(Process) /\ Thread \subseteq Process
      BY DEF OoOScheduleAssumption, Process
  <2> QED BY <2>1, FS_Subset DEF PlainUse
<1>2. R \subseteq Thread /\ running \subseteq Invoker
    BY DEF TypeOK
<1> HIDE DEF R
<1>3. /\ Cardinality(R) <= Cardinality(Thread)
      /\ Cardinality(running) <= Cardinality(Invoker)
      /\ IsFiniteSet(R) /\ IsFiniteSet(running)
    BY <1>1, <1>2, FS_Subset
<1>4. /\ Cardinality(R) \in Nat /\ Cardinality(running) \in Nat
      /\ Cardinality(Thread) \in Nat /\ Cardinality(Invoker) \in Nat
    BY <1>1, <1>3, FS_CardinalityType
<1>5. NumInvokers \in Nat /\ Cardinality(Thread) + Cardinality(Invoker) < NumInvokers
    BY DEF PlainUse
<1>6. Load = Cardinality(R) + Cardinality(running)
    BY DEF Load, R
<1> QED BY <1>3, <1>4, <1>5, <1>6 DEF Full

(* The processes P leave the running queue: a thread, or the methods of an  *)
(* invoker.                                                                 *)
EnterWait(P) ==
    /\ P \in SUBSET In("run") /\ EndSegment(P)
    /\ phase = "idle" /\ phase' \in {"idle", "timers"}
    /\ \/ running' = running /\ \A p \in P : p \in Thread
       \/ \E i \in running : running' = running \ {i} /\ P = QueueOf(i)

(* The steps of a plain program.                                            *)
LEMMA PlainKinds ==
    ASSUME OoOScheduleAssumption, PlainUse, TypeOK, CallPlain, [Next]_vars
    PROVE  \/ UNCHANGED vars
           \/ \E p \in Process : \E n \in todo[p] : Notify(p, n)
           \/ \E P : EnterWait(P)
           \/ Timers \/ Predictions \/ Relax \/ Deliver
           \/ DispatchMethod \/ DispatchThread \/ Finish \/ Start
<1>1. ASSUME NEW t \in Thread, Suspend(t) PROVE EnterWait({t})
    BY <1>1 DEF Suspend, EnterWait, In, Process
<1>2. ASSUME NEW i \in Invoker, EndMethods(i) PROVE EnterWait(QueueOf(i))
  <2>1. QueueOf(i) \subseteq In("run")
      BY DEF QueueOf, In, Process
  <2> QED BY <1>2, <2>1 DEF EndMethods, EnterWait
<1>3. ~SkipDelivery
    BY NotFull DEF SkipDelivery
<1>4. ~Promote
    BY DEF CallPlain, Promote
<1>5. MainEvents = {} /\ Controlled = {}
    BY DEF PlainUse
<1> QED BY <1>1, <1>2, <1>3, <1>4, <1>5 DEF Next

(* What a dispatch changes: one process that is ready runs, is paused or is *)
(* put back.                                                                *)
DispatchSame ==
    UNCHANGED <<ts, seg, waits, all, due, disabled, notified, pwt, definer, newWaiting, changed, running,
                duration, starts, hist>>

(* p runs, is paused, or is put back.                                       *)
Dispatched(p) ==
    \/ state' = [state EXCEPT ![p] = "run"] /\ tried' = tried
    \/ p \in Thread /\ IsOver(p) /\ state' = [state EXCEPT ![p] = "paused"] /\ tried' = tried
    \/ /\ state' = state /\ tried' = tried \cup {p}
       /\ \/ p \in Method /\ (InvokerOf[p] \in running \/ ~HasNoConflicts(p))
          \/ p \in Thread /\ ~IsOver(p) /\ ~HasNoConflicts(p)

(* A dispatch tries one process, or finds nobody to try.                    *)
LEMMA DispatchEffect ==
    ASSUME DispatchMethod \/ DispatchThread
    PROVE  /\ DispatchSame
           /\ phase \in {"dispatch", "thread"} /\ phase' \in {"dispatch", "thread"}
           /\ \/ state' = state /\ tried' = tried
              \/ \E p \in In("ready") \ tried : Dispatched(p)
<1> USE DEF prediction, DispatchSame
<1>1. CASE DispatchMethod
  <2>1. CASE Poppable(Method) = {}
      BY <1>1, <2>1 DEF DispatchMethod
  <2>2. CASE Poppable(Method) # {}
    <3>1. PICK m \in Poppable(Method) :
             IF HasNoConflicts(m) /\ InvokerOf[m] \notin running THEN Run(m) ELSE PutBack(m)
        BY <1>1, <2>2 DEF DispatchMethod
    <3>2. m \in In("ready") \ tried /\ m \in Method
        BY DEF Poppable
    <3>3. Dispatched(m)
        BY <3>1, <3>2 DEF Dispatched, Run, PutBack
    <3> QED BY <1>1, <3>2, <3>3 DEF DispatchMethod
  <2> QED BY <2>1, <2>2
<1>2. CASE DispatchThread
  <2>1. CASE Poppable(Thread) = {}
      BY <1>2, <2>1 DEF DispatchThread
  <2>2. CASE Poppable(Thread) # {}
    <3>1. PICK t \in Poppable(Thread) :
             IF IsOver(t) THEN Pause(t)
             ELSE IF HasNoConflicts(t) THEN Run(t) ELSE PutBack(t)
        BY <1>2, <2>2 DEF DispatchThread
    <3>2. t \in In("ready") \ tried /\ t \in Thread
        BY DEF Poppable
    <3>3. Dispatched(t)
        BY <3>1, <3>2 DEF Dispatched, Run, PutBack, Pause
    <3> QED BY <1>2, <3>2, <3>3 DEF DispatchThread
  <2> QED BY <2>1, <2>2
<1> QED BY <1>1, <1>2

(* Nobody is left that has not been tried.                                  *)
LEMMA FinishEffect ==
    ASSUME OoOScheduleAssumption, PlainUse, TypeOK, Finish
    PROVE  /\ UNCHANGED <<state, ts, seg, waits, all, due, pwt, newWaiting, changed, duration, starts, hist>>
           /\ phase = "dispatch" /\ tried' = {}
           /\ phase' = IF In("run") = {} THEN "stopped" ELSE "idle"
           /\ definer' = [p \in Process |-> IF p \in tried THEN None ELSE definer[p]]
           /\ notified' \in {notified, Kept}
           /\ running' = running \cup ReadyInvokers
           /\ \A p \in Process : state[p] = "ready" => p \in tried
<1> USE DEF program, history
<1>1. /\ UNCHANGED <<state, ts, seg, waits, all, due, pwt, newWaiting, changed, duration, starts, hist>>
      /\ phase = "dispatch" /\ tried' = {}
      /\ phase' = IF In("run") = {} THEN "stopped" ELSE "idle"
      /\ definer' = [p \in Process |-> IF p \in tried THEN None ELSE definer[p]]
      /\ running' = running \cup ReadyInvokers /\ ~Continue
    BY DEF Finish, Undefined
<1>2. notified' \in {notified, Kept}
    BY DEF Finish
<1>3. Poppable(Process) = {}
    BY <1>1, NotFull DEF Continue
<1> QED BY <1>1, <1>2, <1>3 DEF Poppable, In

(* The only sc_start comes before anybody is paused or notifies.            *)
LEMMA StartEffect ==
    ASSUME OoOScheduleAssumption, PlainUse, TypeOK, CallPlain, Start
    PROVE  /\ UNCHANGED <<state, ts, seg, waits, all, due, notified, pwt, definer, newWaiting, changed,
                          running, tried, hist>>
           /\ starts = 0 /\ starts' = 1 /\ phase = "stopped" /\ phase' = "timers"
           /\ duration' \in FiniteTimestamp
<1> USE DEF program, history
<1>1. /\ UNCHANGED <<ts, seg, waits, all, due, notified, pwt, newWaiting, changed, running, tried, hist>>
      /\ phase = "stopped" /\ phase' = "timers" /\ starts < MaxStarts /\ starts' = starts + 1
      /\ state' = [p \in Process |-> IF state[p] = "paused" THEN Woken ELSE state[p]]
      /\ definer' = MadeReady(In("paused"))
      /\ duration' = Plus(duration, <<RunTime, 0>>)
    BY DEF Start
<1>2. starts = 0
    BY <1>1 DEF PlainUse, TypeOK, OoOScheduleAssumption
<1>3. \A p \in Process : state[p] # "paused"
    BY <1>2 DEF CallPlain
<1>4. state' = state /\ definer' = definer
  <2>1. In("paused") = {}
      BY <1>3 DEF In
  <2> QED BY <1>1, <1>3, <2>1 DEF PlainUse, MadeReady, Undefined, TypeOK
<1>5. duration' \in FiniteTimestamp
    BY <1>1, DelayType DEF TypeOK, OoOScheduleAssumption
<1> QED BY <1>1, <1>2, <1>4, <1>5

(* Who waits for a time is ready at its deadline.                           *)
LEMMA TimersEffect ==
    ASSUME OoOScheduleAssumption, PlainUse, TypeOK, ProcessesPlain, Timers
    PROVE  /\ UNCHANGED <<seg, all, due, notified, pwt, newWaiting, changed, running, tried, duration,
                          starts, hist>>
           /\ phase = "timers" /\ phase' = "predict"
           /\ \A p \in Process :
                 IF state[p] = "timed"
                 THEN state'[p] = "ready" /\ ts'[p] = due[p] /\ definer'[p] = None
                 ELSE state'[p] = state[p] /\ ts'[p] = ts[p] /\ waits'[p] = waits[p]
                      /\ definer'[p] = definer[p]
<1> DEFINE expired == {p \in In("timed") : due[p] # <<0, 0>>}
<1>0. /\ UNCHANGED <<seg, all, notified, pwt, newWaiting, changed, running, tried, duration, starts, hist>>
      /\ phase = "timers" /\ phase' = "predict"
      /\ due' = [p \in Process |-> IF p \in expired \cap disabled THEN <<0, 0>> ELSE due[p]]
      /\ definer' = MadeReady(expired \ disabled)
      /\ state' = [p \in Process |-> IF p \in expired \ disabled THEN Woken ELSE state[p]]
      /\ ts' = [p \in Process |-> IF p \in expired \ disabled THEN due[p] ELSE ts[p]]
      /\ waits' = [p \in Process |-> IF p \in expired THEN {} ELSE waits[p]]
    BY Zenon DEF Timers, control
<1>1. disabled = {} /\ Woken = "ready"
    BY DEF TypeOK, PlainUse, Woken
<1>2. \A p \in Process : p \in expired <=> state[p] = "timed"
    BY DEF In, ProcessesPlain, PlainProcess
<1> HIDE DEF expired
<1>3. definer' = [p \in Process |-> IF p \in expired THEN None ELSE definer[p]]
    BY <1>0, <1>1 DEF PlainUse, MadeReady, Undefined
<1>4. due' = due
    BY <1>0, <1>1 DEF TypeOK
<1> QED BY <1>0, <1>1, <1>2, <1>3, <1>4

(* Whoever takes an event is ready one delta after it.                      *)
LEMMA DeliverEffect ==
    ASSUME OoOScheduleAssumption, PlainUse, TypeOK, ProcessesPlain, Deliver
    PROVE  /\ UNCHANGED <<seg, all, notified, pwt, changed, running, tried, duration, starts, hist>>
           /\ phase = "deliver" /\ phase' = "dispatch"
           /\ newWaiting' = {p \in Process : Takes(p)}
           /\ \A p \in Process :
                 IF Takes(p)
                 THEN state'[p] = "ready" /\ ts'[p] = Plus(EventTime(p), Delta) /\ definer'[p] = None
                 ELSE state'[p] = state[p] /\ ts'[p] = ts[p] /\ waits'[p] = waits[p] /\ due'[p] = due[p]
                      /\ definer'[p] = definer[p]
<1> DEFINE taker == {p \in Process : Takes(p)}
<1> DEFINE rest(p) == IF all[p] THEN waits[p] \ EventsAt(p) ELSE {}
<1> DEFINE takes == Deliverable(taker)
<1> DEFINE woken == {p \in takes : rest(p) = {}}
<1> DEFINE at(p) == Later(due[p], Plus(EventTime(p), Delta))
<1>0. /\ UNCHANGED <<seg, all, notified, pwt, changed, running, tried, duration, starts, hist>>
      /\ phase = "deliver" /\ newWaiting' = taker /\ definer' = MadeReady(woken)
      /\ phase' = IF Again(taker, woken) THEN "predict" ELSE Delivered
      /\ state' = [p \in Process |-> IF p \in woken THEN Woken ELSE state[p]]
      /\ ts' = [p \in Process |-> IF p \in woken THEN at(p) ELSE ts[p]]
      /\ waits' = [p \in Process |-> IF p \in takes THEN rest(p) ELSE waits[p]]
      /\ due' = [p \in Process |-> IF p \in takes THEN at(p) ELSE due[p]]
    BY Zenon DEF Deliver, control
<1>1. disabled = {} /\ Woken = "ready" /\ Delivered = "dispatch"
    BY DEF TypeOK, PlainUse, Woken, Delivered
<1>2. takes = taker
    BY <1>1 DEF Deliverable
<1>3. ASSUME NEW p \in taker PROVE rest(p) = {} /\ at(p) = Plus(EventTime(p), Delta)
  <2>1. ~all[p] /\ due[p] = <<0, 0>> /\ p \in Process
      BY DEF ProcessesPlain, PlainProcess, Takes
  <2>2. Plus(EventTime(p), Delta) \in FiniteTimestamp
    <3>1. EventTime(p) # Infinite /\ EventTime(p) \in AnyTimestamp
        BY <2>1, EventTimeType DEF Takes, Before
    <3>2. EventTime(p) \in FiniteTimestamp
        BY <3>1 DEF AnyTimestamp
    <3> QED BY <3>2, DelayType
  <2>3. Later(<<0, 0>>, Plus(EventTime(p), Delta)) = Plus(EventTime(p), Delta)
    <3> DEFINE u == Plus(EventTime(p), Delta)
    <3>1. u \in FiniteTimestamp
        BY <2>2
    <3> HIDE DEF u
    <3>2. Later(<<0, 0>>, u) = u
        BY <3>1 DEF Later, Before, FiniteTimestamp, Infinite
    <3> QED BY <3>2 DEF u
  <2> QED BY <2>1, <2>3
<1>4. woken = taker
    BY <1>2, <1>3
<1>5. phase' = "dispatch"
    BY <1>0, <1>1, <1>4 DEF Again
<1>6. definer' = [p \in Process |-> IF p \in taker THEN None ELSE definer[p]]
    BY <1>0, <1>4 DEF PlainUse, MadeReady, Undefined
<1>7. \A p \in Process : p \in taker <=> Takes(p)
    OBVIOUS
<1> HIDE DEF taker, woken, takes, rest, at
<1>8. /\ state' = [p \in Process |-> IF p \in taker THEN "ready" ELSE state[p]]
      /\ ts' = [p \in Process |-> IF p \in taker THEN at(p) ELSE ts[p]]
      /\ waits' = [p \in Process |-> IF p \in taker THEN rest(p) ELSE waits[p]]
      /\ due' = [p \in Process |-> IF p \in taker THEN at(p) ELSE due[p]]
    BY <1>0, <1>1, <1>2, <1>4
<1>9. ASSUME NEW p \in Process
      PROVE  IF Takes(p)
             THEN state'[p] = "ready" /\ ts'[p] = Plus(EventTime(p), Delta) /\ definer'[p] = None
             ELSE state'[p] = state[p] /\ ts'[p] = ts[p] /\ waits'[p] = waits[p] /\ due'[p] = due[p]
                  /\ definer'[p] = definer[p]
  <2>1. CASE Takes(p)
      BY <1>3, <1>6, <1>7, <1>8, <2>1
  <2>2. CASE ~Takes(p)
      BY <1>6, <1>7, <1>8, <2>2
  <2> QED BY <2>1, <2>2
<1>10. newWaiting' = {p \in Process : Takes(p)}
    BY <1>0 DEF taker
<1> QED BY <1>0, <1>5, <1>9, <1>10

(* What a prediction pass starts from for q, and what it computes for p.    *)
Pass(w, q) ==
    /\ AtMost(w[q], ByEvent(q))
    /\ IF q \in DefiningTree THEN w[q] = ByEvent(q)
       ELSE AtMost(w[q], pwt[q]) /\ w[q] \in {pwt[q], ByEvent(q)}

(* What a prediction pass makes of it.                                      *)
PassResult(w, p) ==
    /\ pwt'[p] \in AnyTimestamp /\ AtMost(pwt'[p], w[p])
    /\ IF p \in DefiningTree
       THEN \/ pwt'[p] = w[p]
            \/ \E d \in Process : /\ state[d] # "dead" /\ definer'[p] = d
                                  /\ pwt'[p] = Via(d, Source(d, w), p)
       ELSE pwt'[p] = w[p] /\ definer'[p] = IF Same(ByEvent(p), w[p]) THEN None ELSE definer[p]

(* The first part of a pass, process by process.                            *)
LEMMA PredictionsEffect ==
    ASSUME OoOScheduleAssumption, TypeOK, Predictions
    PROVE  /\ UNCHANGED <<state, ts, seg, waits, all, due, notified, running, tried, duration, starts, hist>>
           /\ phase = "predict" /\ phase' = "relax" /\ newWaiting' = {}
           /\ \E w \in [Process -> AnyTimestamp] : \A p \in Process : Pass(w, p) /\ PassResult(w, p)
<1>0. /\ UNCHANGED <<state, ts, seg, waits, all, due, notified, running, tried, duration, starts, hist>>
      /\ phase = "predict" /\ phase' = "relax" /\ newWaiting' = {}
    BY DEF Predictions, program, control, history
<1>a. PICK tree \in {DefiningTree} :
       LET old(p) == IF p \in tree THEN Infinite ELSE pwt[p]
       IN \E w \in {[p \in Process |-> Earliest({old(p), ByEvent(p)})]} :
          LET via(p) == IF p \in tree THEN {q \in Process : state[q] # "dead"} ELSE {}
              at(q, p) == Via(q, Source(q, w), p)
          IN \E best \in {[p \in Process |-> Earliest({w[p]} \cup {at(q, p) : q \in via(p)})]} :
             LET by(p) == {q \in via(p) : Same(at(q, p), best[p])}
             IN  /\ pwt' = best
                 /\ definer' = [p \in Process |->
                       IF by(p) # {} THEN Definer(by(p), p)
                       ELSE IF p \in tree \/ Same(ByEvent(p), w[p]) THEN None
                       ELSE definer[p]]
                 /\ changed' = {p \in Process : best[p] # old(p)}
    BY DEF Predictions
<1> DEFINE old(p) == IF p \in tree THEN Infinite ELSE pwt[p]
<1> DEFINE via(p) == IF p \in tree THEN {q \in Process : state[q] # "dead"} ELSE {}
<1>b. PICK w \in {[p \in Process |-> Earliest({old(p), ByEvent(p)})]} :
          LET at(q, p) == Via(q, Source(q, w), p)
          IN \E best \in {[p \in Process |-> Earliest({w[p]} \cup {at(q, p) : q \in via(p)})]} :
             LET by(p) == {q \in via(p) : Same(at(q, p), best[p])}
             IN  /\ pwt' = best
                 /\ definer' = [p \in Process |->
                       IF by(p) # {} THEN Definer(by(p), p)
                       ELSE IF p \in tree \/ Same(ByEvent(p), w[p]) THEN None
                       ELSE definer[p]]
                 /\ changed' = {p \in Process : best[p] # old(p)}
    BY <1>a, Zenon
<1> DEFINE at(q, p) == Via(q, Source(q, w), p)
<1>c. PICK best \in {[p \in Process |-> Earliest({w[p]} \cup {at(q, p) : q \in via(p)})]} :
             LET by(p) == {q \in via(p) : Same(at(q, p), best[p])}
             IN  /\ pwt' = best
                 /\ definer' = [p \in Process |->
                       IF by(p) # {} THEN Definer(by(p), p)
                       ELSE IF p \in tree \/ Same(ByEvent(p), w[p]) THEN None
                       ELSE definer[p]]
                 /\ changed' = {p \in Process : best[p] # old(p)}
    BY <1>b, Zenon
<1> DEFINE by(p) == {q \in via(p) : Same(at(q, p), best[p])}
<1>1. /\ w = [p \in Process |-> Earliest({old(p), ByEvent(p)})]
      /\ best = [p \in Process |-> Earliest({w[p]} \cup {at(q, p) : q \in via(p)})]
      /\ tree = DefiningTree
    OBVIOUS
<1>2. /\ pwt' = best
      /\ definer' = [p \in Process |->
                       IF by(p) # {} THEN Definer(by(p), p)
                       ELSE IF p \in tree \/ Same(ByEvent(p), w[p]) THEN None
                       ELSE definer[p]]
    BY <1>c, Zenon
<1>3. Infinite \in AnyTimestamp
    BY DEF AnyTimestamp
<1>4. ASSUME NEW p \in Process
      PROVE  /\ w[p] \in AnyTimestamp /\ Pass(w, p)
  <2>1. ByEvent(p) \in AnyTimestamp /\ pwt[p] \in AnyTimestamp
      BY EventTimeType DEF TypeOK
  <2>2. old(p) \in AnyTimestamp
      BY <1>3, <2>1
  <2>3. old(p) = IF p \in tree THEN Infinite ELSE pwt[p]
      OBVIOUS
  <2> HIDE DEF old
  <2>4. {old(p), ByEvent(p)} \in SUBSET AnyTimestamp /\ w[p] = Earliest({old(p), ByEvent(p)})
      BY <1>1, <2>1, <2>2
  <2>5. /\ w[p] \in AnyTimestamp /\ AtMost(w[p], old(p)) /\ AtMost(w[p], ByEvent(p))
        /\ w[p] # Infinite => w[p] = old(p) \/ w[p] = ByEvent(p)
      BY <2>4, EarliestIsLeast DEF AtMost
  <2>6. AtMost(Infinite, ByEvent(p)) => ByEvent(p) = Infinite
      BY <1>3, <2>1, AtMostOrder
  <2> QED BY <1>1, <2>1, <2>3, <2>5, <2>6 DEF Pass
<1>5. ASSUME NEW p \in Process, NEW q \in Process PROVE at(q, p) \in AnyTimestamp
  <2>1. Source(q, w) \in AnyTimestamp
      BY <1>4 DEF Source, TypeOK, AnyTimestamp
  <2> QED BY <2>1, ViaType
<1>6. ASSUME NEW p \in Process
      PROVE  PassResult(w, p)
  <2> DEFINE S == {w[p]} \cup {at(q, p) : q \in via(p)}
  <2>0. by(p) \in SUBSET Process /\ by(p) \subseteq via(p)
      OBVIOUS
  <2>1. /\ best[p] \in AnyTimestamp /\ AtMost(best[p], w[p])
        /\ best[p] # Infinite => best[p] = w[p] \/ \E q \in via(p) : best[p] = at(q, p)
    <3>0. best[p] = Earliest(S) /\ \A q \in via(p) : q \in Process
        BY <1>1
    <3> HIDE DEF at, via
    <3>1. S \in SUBSET AnyTimestamp
        BY <1>4, <1>5, <3>0
    <3>2. /\ best[p] \in AnyTimestamp /\ (best[p] # Infinite => best[p] \in S)
          /\ \A y \in S : AtMost(best[p], y)
      <4> HIDE DEF S
      <4> QED BY <3>0, <3>1, EarliestIsLeast DEF AtMost
    <3> QED BY <3>2
  <2>2. AtMost(Infinite, w[p]) => w[p] = Infinite
      BY <1>3, <1>4, AtMostOrder
  <2>3. definer'[p] = IF by(p) # {} THEN Definer(by(p), p)
                      ELSE IF p \in tree \/ Same(ByEvent(p), w[p]) THEN None
                      ELSE definer[p]
      BY <1>2
  <2>4. CASE p \notin tree
    <3>1. via(p) = {} /\ by(p) = {}
        BY <2>4
    <3>2. best[p] = w[p]
        BY <2>1, <2>2, <3>1
    <3> QED BY <1>1, <1>2, <2>1, <2>3, <2>4, <3>1, <3>2 DEF PassResult
  <2>5. CASE p \in tree /\ by(p) = {}
    <3>1. best[p] = w[p]
        BY <2>1, <2>2, <2>5 DEF Same
    <3> QED BY <1>1, <1>2, <2>1, <2>5, <3>1 DEF PassResult
  <2>6. CASE p \in tree /\ by(p) # {}
    <3>1. Definer(by(p), p) \in by(p)
      <4> HIDE DEF by
      <4> QED BY <2>0, <2>6, DefinerType
    <3>2. PICK d \in Process : d = Definer(by(p), p) /\ state[d] # "dead" /\ Same(at(d, p), best[p])
        BY <2>6, <3>1
    <3>3. definer'[p] = d /\ best[p] = Via(d, Source(d, w), p)
        BY <2>3, <2>6, <3>2 DEF Same
    <3> QED BY <1>1, <1>2, <2>1, <2>6, <3>2, <3>3 DEF PassResult
  <2> QED BY <2>4, <2>5, <2>6
<1>7. w \in [Process -> AnyTimestamp]
    BY <1>1, <1>4
<1> QED BY <1>0, <1>4, <1>6, <1>7

(* The second part, process by process.                                     *)
LEMMA RelaxEffect ==
    ASSUME OoOScheduleAssumption, TypeOK, Relax
    PROVE  /\ UNCHANGED <<state, ts, seg, waits, all, due, notified, newWaiting, running, tried, duration,
                          starts, hist>>
           /\ phase = "relax" /\ phase' \in {"relax", "deliver"}
           /\ \A p \in Process :
                 /\ pwt'[p] \in AnyTimestamp /\ AtMost(pwt'[p], pwt[p])
                 /\ \/ pwt'[p] = pwt[p] /\ definer'[p] = definer[p]
                    \/ /\ state[p] = "wait" /\ pwt'[p] # Infinite
                       /\ \E d \in Process : definer'[p] = d /\ pwt'[p] = Via(d, pwt[d], p)
<1> DEFINE via(p) == IF state[p] = "wait" THEN changed ELSE {}
<1> DEFINE at(q, p) == Via(q, pwt[q], p)
<1>a. PICK w \in {[p \in Process |-> Earliest({pwt[p]} \cup {at(q, p) : q \in via(p)})]} :
           LET lower == {p \in Process : w[p] # pwt[p]}
           IN  /\ pwt' = w
               /\ definer' = [p \in Process |->
                     IF p \in lower THEN Definer({q \in via(p) : at(q, p) = w[p]}, p) ELSE definer[p]]
               /\ phase' = IF lower = {} THEN "deliver" ELSE "relax"
    BY Zenon DEF Relax
<1> DEFINE lower == {p \in Process : w[p] # pwt[p]}
<1> DEFINE by(p) == {q \in via(p) : at(q, p) = w[p]}
<1>0. UNCHANGED <<state, ts, seg, waits, all, due, notified, newWaiting, running, tried, duration,
                          starts, hist>>
      /\ phase = "relax" /\ phase' \in {"relax", "deliver"}
    BY DEF Relax, program, control, history
<1>b. w = [p \in Process |-> Earliest({pwt[p]} \cup {at(q, p) : q \in via(p)})]
    OBVIOUS
<1>1. /\ pwt' = w
      /\ definer' = [p \in Process |-> IF p \in lower THEN Definer(by(p), p) ELSE definer[p]]
    BY <1>a, Zenon
<1>2. \A q, p \in Process : at(q, p) \in AnyTimestamp
    BY ViaType DEF TypeOK
<1>3. \A p \in Process : via(p) \subseteq Process /\ (state[p] # "wait" => via(p) = {})
    BY DEF TypeOK
<1> HIDE DEF at, via
<1>4. ASSUME NEW p \in Process
      PROVE  /\ w[p] \in AnyTimestamp /\ AtMost(w[p], pwt[p])
             /\ w[p] # pwt[p] => w[p] # Infinite /\ by(p) # {}
  <2> DEFINE S == {pwt[p]} \cup {at(q, p) : q \in via(p)}
  <2>1. S \in SUBSET AnyTimestamp /\ pwt[p] \in S /\ pwt[p] \in AnyTimestamp
      BY <1>2, <1>3 DEF TypeOK
  <2>2. w[p] = Earliest(S)
      BY <1>b
  <2> HIDE DEF S
  <2>3. /\ w[p] \in AnyTimestamp /\ AtMost(w[p], pwt[p])
        /\ w[p] # Infinite => w[p] \in S
      BY <2>1, <2>2, EarliestIsLeast DEF AtMost
  <2>4. w[p] = Infinite => pwt[p] = Infinite
      BY <2>1, <2>3 DEF Before, AtMost
  <2> QED BY <2>3, <2>4 DEF S
<1>5. ASSUME NEW p \in Process, w[p] # pwt[p]
      PROVE  /\ state[p] = "wait"
             /\ \E d \in Process : definer'[p] = d /\ w[p] = Via(d, pwt[d], p)
  <2>1. by(p) \in SUBSET Process /\ by(p) # {} /\ (state[p] # "wait" => by(p) = {})
      BY <1>3, <1>4, <1>5
  <2>2. Definer(by(p), p) \in by(p)
    <3> HIDE DEF by
    <3> QED BY <2>1, DefinerType
  <2>3. definer'[p] = Definer(by(p), p)
      BY <1>1, <1>5
  <2>4. w[p] = at(Definer(by(p), p), p)
      BY <2>2
  <2> QED BY <2>1, <2>2, <2>3, <2>4 DEF at
<1>6. ASSUME NEW p \in Process, w[p] = pwt[p]
      PROVE  definer'[p] = definer[p]
    BY <1>1, <1>6
<1> QED BY <1>0, <1>1, <1>4, <1>5, <1>6

(* The end of a segment where no wait is for a list of events: how long a   *)
(* wait lasts depends on its kind only.                                     *)
LEMMA EnterEffect ==
    ASSUME OoOScheduleAssumption, PlainUse, TypeOK, NEW P, EnterWait(P)
    PROVE  /\ UNCHANGED <<ts, notified, pwt, definer, changed, tried, duration, starts, hist>>
           /\ P \in SUBSET Process /\ \A q \in P : state[q] = "run"
           /\ newWaiting' = newWaiting \cup P
           /\ \A q \in Process \ P : /\ state'[q] = state[q] /\ seg'[q] = seg[q] /\ waits'[q] = waits[q]
                                     /\ due'[q] = due[q] /\ all'[q] = all[q]
           /\ \A q \in P : /\ seg'[q] = NextOf[seg[q]]
                           /\ \/ state'[q] = "wait" /\ due'[q] = <<0, 0>> /\ ~all'[q]
                              \/ state'[q] = "dead" /\ WaitOf[seg[q]].kind = "END"
                              \/ state'[q] = "timed" /\ due'[q] # <<0, 0>> /\ WaitOf[seg[q]].kind = "TIME"
<1> DEFINE w == [p \in P |-> WaitOf[seg[p]]]
<1> DEFINE On(p) == p \in P
<1>0. /\ P \in SUBSET Process /\ \A q \in P : state[q] = "run"
      /\ EndSegment(P)
    BY DEF EnterWait, In
<1>1. state' = [p \in Process |-> IF ~On(p) THEN state[p]
                        ELSE CASE w[p].kind = "TIME" -> "timed"
                               [] w[p].kind = "END" -> "dead"
                               [] OTHER -> "wait"]
    BY <1>0 DEF EndSegment
<1>2. seg' = [p \in Process |-> IF On(p) THEN NextOf[seg[p]] ELSE seg[p]]
    BY <1>0 DEF EndSegment
<1>3. waits' = [p \in Process |-> IF On(p) THEN w[p].events ELSE waits[p]]
    BY <1>0 DEF EndSegment
<1>4. due' = [p \in Process |->
                IF ~On(p) THEN due[p]
                ELSE IF w[p].kind # "TIME" THEN <<0, 0>>
                ELSE Plus(ts[p], IF w[p].time = 0 THEN Delta ELSE <<w[p].time, 0>>)]
    BY <1>0 DEF EndSegment
<1>5. all' = [p \in Process |-> IF On(p) THEN w[p].kind = "AND" ELSE all[p]]
    BY <1>0 DEF EndSegment
<1>6. /\ UNCHANGED <<ts, notified, pwt, definer, changed, tried, duration, starts, hist>>
      /\ newWaiting' = newWaiting \cup P
    BY <1>0 DEF EndSegment, history
<1>7. \A q \in P : /\ w[q] = WaitOf[seg[q]] /\ w[q].time \in Nat /\ w[q].kind # "AND"
                   /\ ts[q] \in FiniteTimestamp
    BY <1>0 DEF TypeOK, OoOScheduleAssumption, PlainUse
<1> HIDE DEF w
<1>8. ASSUME NEW q \in Process \ P
      PROVE  /\ state'[q] = state[q] /\ seg'[q] = seg[q] /\ waits'[q] = waits[q]
             /\ due'[q] = due[q] /\ all'[q] = all[q]
    BY <1>1, <1>2, <1>3, <1>4, <1>5, <1>8
<1>9. ASSUME NEW q \in P
      PROVE  /\ seg'[q] = NextOf[seg[q]]
             /\ \/ state'[q] = "wait" /\ due'[q] = <<0, 0>> /\ ~all'[q]
                \/ state'[q] = "dead" /\ WaitOf[seg[q]].kind = "END"
                \/ state'[q] = "timed" /\ due'[q] # <<0, 0>> /\ WaitOf[seg[q]].kind = "TIME"
  <2>0. q \in Process
      BY <1>0
  <2>1. seg'[q] = NextOf[seg[q]]
      BY <1>2, <2>0
  <2>2. state'[q] = CASE w[q].kind = "TIME" -> "timed" [] w[q].kind = "END" -> "dead" [] OTHER -> "wait"
      BY <1>1, <2>0
  <2>3. due'[q] = IF w[q].kind # "TIME" THEN <<0, 0>>
                  ELSE Plus(ts[q], IF w[q].time = 0 THEN Delta ELSE <<w[q].time, 0>>)
      BY <1>4, <2>0
  <2>4. all'[q] = (w[q].kind = "AND")
      BY <1>5, <2>0
  <2>5. CASE w[q].kind = "TIME"
    <3>1. state'[q] = "timed"
        BY <2>2, <2>5
    <3>2. due'[q] = Plus(ts[q], IF w[q].time = 0 THEN Delta ELSE <<w[q].time, 0>>)
        BY <2>3, <2>5
    <3>3. Plus(ts[q], Delta) # <<0, 0>>
        BY <1>7 DEF Plus, Delta, FiniteTimestamp, Infinite
    <3>4. w[q].time # 0 => Plus(ts[q], <<w[q].time, 0>>) # <<0, 0>>
        BY <1>7 DEF Plus, FiniteTimestamp, Infinite
    <3>5. due'[q] # <<0, 0>>
        BY <3>2, <3>3, <3>4
    <3> QED BY <1>7, <2>1, <2>5, <3>1, <3>5
  <2>6. CASE w[q].kind = "END"
    <3>1. state'[q] = "dead"
        BY <2>2, <2>6
    <3> QED BY <1>7, <2>1, <2>6, <3>1
  <2>7. CASE w[q].kind # "TIME" /\ w[q].kind # "END"
    <3>1. state'[q] = "wait" /\ due'[q] = <<0, 0>>
        BY <2>2, <2>3, <2>7
    <3>2. ~all'[q]
        BY <1>7, <2>4
    <3> QED BY <2>1, <3>1, <3>2
  <2> QED BY <2>5, <2>6, <2>7
<1> QED BY <1>0, <1>6, <1>8, <1>9

(* Where the program stands when a process waits, is paused or has ended.   *)
LEMMA ProcessesPlainStep ==
    ASSUME OoOScheduleAssumption, PlainUse, TablesTight, TypeOK, ProcessesPlain, CallPlain, [Next]_vars
    PROVE  ProcessesPlain'
<1> SUFFICES ASSUME NEW p \in Process
             PROVE  PlainProcess(p)'
    BY DEF ProcessesPlain
<1>0. PlainProcess(p)
    BY DEF ProcessesPlain
<1>1. CASE UNCHANGED vars \/ \E q \in Process : \E n \in todo[q] : Notify(q, n)
  <2>1. UNCHANGED <<state, ts, seg, all, due, newWaiting, phase, duration>>
      BY <1>1 DEF vars, program, prediction, control, Notify
  <2> QED BY <1>0, <2>1 DEF PlainProcess
<1>2. ASSUME NEW P, EnterWait(P) PROVE PlainProcess(p)'
  <2>0. /\ phase \in {"idle", "timers"} /\ phase' \in {"idle", "timers"}
        /\ ts' = ts /\ duration' = duration /\ newWaiting' = newWaiting \cup P
      BY <1>2, EnterEffect DEF EnterWait
  <2>1. CASE p \in P
    <3>1. /\ seg'[p] = NextOf[seg[p]] /\ seg[p] \in Segment
          /\ \/ state'[p] = "wait" /\ due'[p] = <<0, 0>> /\ ~all'[p]
             \/ state'[p] = "dead" /\ WaitOf[seg[p]].kind = "END"
             \/ state'[p] = "timed" /\ due'[p] # <<0, 0>> /\ WaitOf[seg[p]].kind = "TIME"
        BY <1>2, <2>1, EnterEffect DEF TypeOK
    <3>2. state'[p] = "dead" => \A s \in Segment : Predict[<<seg'[p], s>>] = Infinite
        BY <3>1 DEF TablesTight
    <3>3. state'[p] = "timed" => \A s \in Segment : Predict[<<s, seg'[p]>>] = Infinite
      <4> SUFFICES ASSUME state'[p] = "timed", NEW s \in Segment
                   PROVE  Predict[<<s, NextOf[seg[p]]>>] = Infinite
          BY <3>1
      <4>1. WaitOf[seg[p]].kind = "TIME"
          BY <3>1
      <4> QED BY <3>1, <4>1 DEF TablesTight
    <3>4. p \in Method => seg'[p] = First[p]
        BY <1>0, <3>1 DEF PlainProcess, PlainUse
    <3> QED BY <2>0, <2>1, <3>1, <3>2, <3>3, <3>4 DEF PlainProcess
  <2>2. CASE p \notin P
    <3>1. /\ state'[p] = state[p] /\ seg'[p] = seg[p] /\ due'[p] = due[p] /\ all'[p] = all[p]
        BY <1>2, <2>2, EnterEffect
    <3> QED BY <1>0, <2>0, <3>1 DEF PlainProcess
  <2> QED BY <2>1, <2>2
<1>3. CASE Timers
  <2>1. /\ UNCHANGED <<seg, all, due, duration>>
        /\ IF state[p] = "timed" THEN state'[p] = "ready"
           ELSE state'[p] = state[p] /\ ts'[p] = ts[p]
      BY <1>3, TimersEffect
  <2> QED BY <1>0, <2>1 DEF PlainProcess
<1>4. CASE Predictions \/ Relax
  <2>1. UNCHANGED <<state, ts, seg, all, due, duration>> /\ phase \notin {"idle", "timers"}
      BY <1>4, PredictionsEffect, RelaxEffect
  <2> QED BY <1>0, <2>1 DEF PlainProcess
<1>5. CASE Deliver
  <2>1. /\ UNCHANGED <<seg, all, duration>> /\ phase \notin {"idle", "timers"}
        /\ \/ state'[p] = "ready"
           \/ state'[p] = state[p] /\ ts'[p] = ts[p] /\ due'[p] = due[p]
      BY <1>5, DeliverEffect
  <2> QED BY <1>0, <2>1 DEF PlainProcess
<1>6. CASE DispatchMethod \/ DispatchThread
  <2>1. /\ UNCHANGED <<ts, seg, all, due, duration>> /\ phase \notin {"idle", "timers"}
        /\ \/ state'[p] = state[p]
           \/ state'[p] = "run"
           \/ state'[p] = "paused" /\ ~Before(ts[p], duration)
    <3>1. state' = state \/ \E q \in In("ready") \ tried : Dispatched(q)
        BY <1>6, DispatchEffect
    <3>2. ASSUME NEW q \in In("ready") \ tried, Dispatched(q)
          PROVE  \/ state'[p] = state[p]
                 \/ state'[p] = "run"
                 \/ state'[p] = "paused" /\ ~Before(ts[p], duration)
        BY <3>2 DEF Dispatched, IsOver, In, TypeOK
    <3> QED BY <1>6, <3>1, <3>2, DispatchEffect DEF DispatchSame
  <2> QED BY <1>0, <2>1 DEF PlainProcess, AtMost
<1>7. CASE Finish
  <2>1. UNCHANGED <<state, ts, seg, all, due, duration>> /\ phase = "dispatch"
      BY <1>7, FinishEffect
  <2> QED BY <1>0, <2>1 DEF PlainProcess
<1>8. CASE Start
  <2>1. /\ UNCHANGED <<state, ts, seg, all, due>> /\ phase = "stopped" /\ starts = 0
      BY <1>8, StartEffect
  <2>2. state[p] # "paused"
      BY <2>1 DEF CallPlain
  <2> QED BY <1>0, <2>1, <2>2 DEF PlainProcess
<1> QED BY <1>1, <1>2, <1>3, <1>4, <1>5, <1>6, <1>7, <1>8, PlainKinds

(* The phases of a call when nothing hinders it.                            *)
LEMMA CallPlainStep ==
    ASSUME OoOScheduleAssumption, PlainUse, TypeOK, TypeOK', PhaseOK, ProcessesPlain, CallPlain,
           [Next]_vars
    PROVE  CallPlain'
<1> DEFINE Ready == \A p \in Process : state[p] = "ready" => definer[p] = None
<1> DEFINE Queues == \A i \in running : QueueOf(i) # {}
<1>0. UNCHANGED <<state, running>> => (Queues => Queues')
    BY DEF QueueOf
<1>1. CASE UNCHANGED vars \/ \E q \in Process : \E n \in todo[q] : Notify(q, n)
  <2>1. UNCHANGED <<state, definer, newWaiting, phase, tried, running, starts>>
      BY <1>1 DEF vars, program, prediction, control, Notify
  <2> QED BY <1>0, <2>1 DEF CallPlain
<1>2. ASSUME NEW P, EnterWait(P) PROVE CallPlain'
  <2>0. /\ phase = "idle" /\ phase' \in {"idle", "timers"}
        /\ \/ running' = running /\ \A p \in P : p \in Thread
           \/ \E i \in running : running' = running \ {i} /\ P = QueueOf(i)
      BY <1>2 DEF EnterWait
  <2>1. /\ UNCHANGED <<definer, tried, starts>> /\ P \in SUBSET Process
        /\ \A q \in Process \ P : state'[q] = state[q]
        /\ \A q \in P : state'[q] \in {"wait", "dead", "timed"}
      BY <1>2, EnterEffect
  <2>2. Ready'
      BY <2>0, <2>1 DEF CallPlain
  <2>3. Queues'
    <3> SUFFICES ASSUME NEW i \in running' PROVE QueueOf(i)' # {}
        OBVIOUS
    <3>1. i \in running
        BY <2>0
    <3>2. PICK m \in Method : state[m] = "run" /\ InvokerOf[m] = i
        BY <3>1 DEF CallPlain, QueueOf
    <3>3. m \notin P
      <4>1. CASE \A p \in P : p \in Thread
          BY <4>1 DEF OoOScheduleAssumption
      <4>2. CASE \E j \in running : running' = running \ {j} /\ P = QueueOf(j)
          BY <3>2, <4>2 DEF QueueOf
      <4> QED BY <2>0, <4>1, <4>2
    <3>4. state'[m] = "run"
        BY <2>1, <3>2, <3>3 DEF Process
    <3> QED BY <3>2, <3>4 DEF QueueOf
  <2> QED BY <2>0, <2>1, <2>2, <2>3 DEF CallPlain
<1>3. CASE Timers
  <2>1. /\ UNCHANGED <<running, tried, starts>> /\ phase = "timers" /\ phase' = "predict"
        /\ \A p \in Process : IF state[p] = "timed"
                              THEN state'[p] = "ready" /\ definer'[p] = None
                              ELSE state'[p] = state[p] /\ definer'[p] = definer[p]
      BY <1>3, TimersEffect
  <2>2. Ready'
      BY <2>1 DEF CallPlain
  <2>3. Queues'
      BY <2>1 DEF CallPlain, QueueOf, Process
  <2> QED BY <2>1, <2>2, <2>3 DEF CallPlain
<1>4. CASE Predictions \/ Relax
  <2>1. /\ UNCHANGED <<state, running, tried, starts>>
        /\ phase \in {"predict", "relax"} /\ phase' \in {"relax", "deliver"}
        /\ newWaiting' \in {{}, newWaiting} /\ (phase = "predict" => newWaiting' = {})
      BY <1>4, PredictionsEffect, RelaxEffect
  <2> QED BY <1>0, <2>1 DEF CallPlain
<1>5. CASE Deliver
  <2>1. /\ UNCHANGED <<running, tried, starts>> /\ phase = "deliver" /\ phase' = "dispatch"
        /\ \A p \in Process : IF Takes(p) THEN state'[p] = "ready" ELSE state'[p] = state[p]
      BY <1>5, DeliverEffect
  <2>2. \A p \in Process : state[p] = "run" => state'[p] = "run"
      BY <2>1 DEF Takes
  <2>3. Queues'
      BY <2>1, <2>2 DEF CallPlain, QueueOf, Process
  <2> QED BY <2>1, <2>3 DEF CallPlain
<1>6. CASE DispatchMethod \/ DispatchThread
  <2>1. /\ UNCHANGED <<running, starts>>
        /\ phase \in {"dispatch", "thread"} /\ phase' \in {"dispatch", "thread"}
        /\ state' = state \/ \E q \in In("ready") : Dispatched(q)
      BY <1>6, DispatchEffect DEF DispatchSame
  <2>2. \A p \in Process : state[p] = "run" => state'[p] = "run"
      BY <2>1 DEF Dispatched, In, TypeOK
  <2>3. Queues'
      BY <2>1, <2>2 DEF CallPlain, QueueOf, Process
  <2> QED BY <2>1, <2>3 DEF CallPlain
<1>7. CASE Finish
  <2>1. /\ UNCHANGED <<state, starts>> /\ phase = "dispatch" /\ tried' = {}
        /\ phase' \in {"stopped", "idle"} /\ running' = running \cup ReadyInvokers
        /\ definer' = [p \in Process |-> IF p \in tried THEN None ELSE definer[p]]
        /\ \A p \in Process : state[p] = "ready" => p \in tried
      BY <1>7, FinishEffect
  <2>2. Ready'
      BY <2>1
  <2>3. Queues'
    <3> SUFFICES ASSUME NEW i \in running' PROVE QueueOf(i) # {}
        BY <2>1 DEF QueueOf
    <3>1. CASE i \in running
        BY <3>1 DEF CallPlain
    <3>2. CASE i \in ReadyInvokers
        BY <3>2 DEF ReadyInvokers, QueueOf, In
    <3> QED BY <2>1, <3>1, <3>2
  <2> QED BY <2>1, <2>2, <2>3 DEF CallPlain
<1>8. CASE Start
  <2>1. /\ UNCHANGED <<state, definer, running, tried>> /\ phase = "stopped" /\ phase' = "timers"
        /\ starts' = 1
      BY <1>8, StartEffect
  <2>2. Ready'
      BY <2>1 DEF CallPlain
  <2> QED BY <1>0, <2>1, <2>2 DEF CallPlain
<1> QED BY <1>1, <1>2, <1>3, <1>4, <1>5, <1>6, <1>7, <1>8, PlainKinds

-----------------------------------------------------------------------------
(* d is where the wake-up time of p comes from, or p has none, or got it    *)
(* from an event or from its own start.                                     *)
GivenBy(d, p) ==
    /\ state[d] # "dead"
    /\ \/ AtMost(Via(d, pwt[d], p), pwt[p])
       \/ state[d] # "wait" /\ AtMost(Via(d, ts[d], p), pwt[p])

(* The predicted wake-up time of p has a reason: never, an event, its own   *)
(* timestamp, or the process that defined it.                               *)
Grounded(p) ==
    \/ pwt[p] = Infinite
    \/ state[p] = "wait" /\ AtMost(ByEvent(p), pwt[p])
    \/ state[p] # "wait" /\ AtMost(ts[p], pwt[p])
    \/ \E d \in Process : definer[p] = d /\ GivenBy(d, p)

(* Every predicted time has a reason.                                       *)
AllGrounded == \A p \in Process : state[p] # "dead" => Grounded(p)

(* Between two prediction passes the times that the next one recomputes     *)
(* are excepted.                                                            *)
Founded ==
    \A p \in Process :
        state[p] # "dead" /\ p \notin newWaiting /\ definer[p] \notin newWaiting => Grounded(p)

(* A process that is ready is not expected before its own timestamp.        *)
ReadyRight == \A p \in Process : state[p] = "ready" /\ p \notin newWaiting => AtMost(ts[p], pwt[p])

(* When the deliveries are over nobody could take an event.                 *)
Offered ==
    phase \in {"dispatch", "thread"} => AllGrounded /\ \A p \in Process : ~Takes(p)

(* A reason stays one while the process that gave it stays what it is.      *)
LEMMA GroundedKept ==
    ASSUME NEW p \in Process, Grounded(p),
           ts'[p] = ts[p], seg'[p] = seg[p], pwt'[p] = pwt[p], definer'[p] = definer[p],
           state'[p] = "wait" <=> state[p] = "wait",
           state[p] = "wait" /\ AtMost(ByEvent(p), pwt[p]) => AtMost(ByEvent(p)', pwt[p]),
           \A d \in Process : definer[p] = d =>
              /\ seg'[d] = seg[d] /\ pwt'[d] = pwt[d] /\ (state[d] # "dead" => state'[d] # "dead")
              /\ state[d] # "wait" => state'[d] # "wait" /\ ts'[d] = ts[d]
    PROVE  Grounded(p)'
<1>1. CASE pwt[p] = Infinite
    BY <1>1 DEF Grounded
<1>2. CASE state[p] = "wait" /\ AtMost(ByEvent(p), pwt[p])
    BY <1>2 DEF Grounded
<1>3. CASE state[p] # "wait" /\ AtMost(ts[p], pwt[p])
    BY <1>3 DEF Grounded
<1>4. ASSUME NEW d \in Process, definer[p] = d, GivenBy(d, p) PROVE Grounded(p)'
  <2>1. /\ seg'[d] = seg[d] /\ pwt'[d] = pwt[d] /\ (state[d] # "dead" => state'[d] # "dead")
        /\ state[d] # "wait" => state'[d] # "wait" /\ ts'[d] = ts[d]
      BY <1>4
  <2>2. GivenBy(d, p)'
      BY <1>4, <2>1 DEF GivenBy, Via
  <2> QED BY <1>4, <2>2 DEF Grounded
<1> QED BY <1>1, <1>2, <1>3, <1>4 DEF Grounded

(* What events offer depends on the process and on the notifications.       *)
LEMMA ByEventSame ==
    ASSUME NEW p \in Process, notified' = notified, ts'[p] = ts[p], waits'[p] = waits[p]
    PROVE  /\ EventTime(p)' = EventTime(p)
           /\ state'[p] = state[p] => ByEvent(p)' = ByEvent(p)
<1>1. EventTime(p)' = EventTime(p)
    BY DEF EventTime, NextNotification
<1> QED BY <1>1 DEF ByEvent

(* The first of more timestamps is not later.                               *)
LEMMA EarliestOfMore ==
    ASSUME NEW S \in SUBSET AnyTimestamp, NEW T \in SUBSET AnyTimestamp,
           \A x \in S : \E y \in T : AtMost(y, x)
    PROVE  AtMost(Earliest(T), Earliest(S))
<1>1. /\ Earliest(S) \in AnyTimestamp /\ (Earliest(S) # Infinite => Earliest(S) \in S)
      /\ Earliest(T) \in AnyTimestamp /\ \A y \in T : AtMost(Earliest(T), y)
    BY EarliestIsLeast DEF AtMost
<1>2. CASE Earliest(S) = Infinite
    BY <1>1, <1>2, AtMostOrder
<1>3. CASE Earliest(S) # Infinite
  <2>1. PICK y \in T : AtMost(y, Earliest(S))
      BY <1>1, <1>3
  <2>2. y \in AnyTimestamp /\ AtMost(Earliest(T), y)
      BY <1>1
  <2> QED BY <1>1, <2>1, <2>2, AtMostOrder
<1> QED BY <1>2, <1>3

(* A notification can only make it earlier.                                 *)
LEMMA ByEventNotify ==
    ASSUME OoOScheduleAssumption, TypeOK, NEW p \in Process, NEW q \in Process, NEW n \in todo[q],
           Notify(q, n)
    PROVE  AtMost(ByEvent(p)', ByEvent(p)) /\ ByEvent(p)' \in AnyTimestamp
<1> DEFINE x == Plus(ts[q], <<n[2], 0>>)
<1> DEFINE new(e) == NextNotification(e, ts[p])'
<1> DEFINE old(e) == NextNotification(e, ts[p])
<1>1. /\ n \in Event \X Nat /\ UNCHANGED <<state, ts, waits>> /\ waits[p] \subseteq Event
      /\ ts[q] \in FiniteTimestamp
      /\ notified' = [notified EXCEPT ![n[1]] = @ \cup {x}]
    BY DEF Notify, TypeOK
<1>2. x \in AnyTimestamp
    BY <1>1, DelayType DEF AnyTimestamp
<1> HIDE DEF x
<1>3. \A e \in Event : /\ notified[e] \subseteq notified'[e]
                       /\ notified[e] \in SUBSET AnyTimestamp /\ notified'[e] \in SUBSET AnyTimestamp
    BY <1>1, <1>2 DEF TypeOK, AnyTimestamp
<1>4. ASSUME NEW e \in Event
      PROVE  old(e) \in AnyTimestamp /\ new(e) \in AnyTimestamp /\ AtMost(new(e), old(e))
  <2> DEFINE S == {y \in notified[e] : ~Before(y, ts[p])}
  <2> DEFINE T == {y \in notified'[e] : ~Before(y, ts[p])}
  <2>1. S \in SUBSET AnyTimestamp /\ T \in SUBSET AnyTimestamp /\ S \subseteq T
      BY <1>3
  <2>2. old(e) = Earliest(S) /\ new(e) = Earliest(T)
      BY <1>1 DEF NextNotification
  <2> HIDE DEF S, T, old, new
  <2>3. \A y \in S : \E z \in T : AtMost(z, y)
      BY <2>1, AtMostOrder
  <2> QED BY <2>1, <2>2, <2>3, EarliestOfMore, EarliestIsLeast
<1>5. AtMost(EventTime(p)', EventTime(p)) /\ EventTime(p)' \in AnyTimestamp
  <2> DEFINE S == {old(e) : e \in waits[p]}
  <2> DEFINE T == {new(e) : e \in waits[p]}
  <2>1. EventTime(p) = Earliest(S)
      BY DEF EventTime
  <2>2. EventTime(p)' = Earliest(T)
      BY <1>1 DEF EventTime
  <2> HIDE DEF old, new
  <2>3. S \in SUBSET AnyTimestamp /\ T \in SUBSET AnyTimestamp /\ \A y \in S : \E z \in T : AtMost(z, y)
      BY <1>1, <1>4
  <2> HIDE DEF S, T
  <2> QED BY <2>1, <2>2, <2>3, EarliestOfMore, EarliestIsLeast
<1>6. EventTime(p) \in AnyTimestamp /\ ByEvent(p) \in AnyTimestamp /\ Delta \in AnyTimestamp
      /\ Infinite \in AnyTimestamp
    BY EventTimeType, Types
<1>7. /\ AtMost(Plus(EventTime(p)', Delta), Plus(EventTime(p), Delta))
      /\ Plus(EventTime(p)', Delta) \in AnyTimestamp
    BY <1>5, <1>6, PlusOrder, PlusType
<1>8. CASE state[p] = "wait"
    BY <1>1, <1>7, <1>8 DEF ByEvent
<1>9. CASE state[p] # "wait"
    BY <1>1, <1>6, <1>9, AtMostOrder DEF ByEvent
<1> QED BY <1>8, <1>9

(* Who can take nothing does not owe its wake-up time to an event.          *)
LEMMA NotByEvent ==
    ASSUME OoOScheduleAssumption, TypeOK, NEW p \in Process, ~Takes(p), state[p] = "wait",
           AtMost(ByEvent(p), pwt[p])
    PROVE  pwt[p] = Infinite
<1>1. /\ EventTime(p) \in AnyTimestamp /\ ByEvent(p) = Plus(EventTime(p), Delta) /\ pwt[p] \in AnyTimestamp
      /\ AtMost(pwt[p], EventTime(p))
    BY EventTimeType, Types DEF ByEvent, Takes, AtMost
<1> QED BY <1>1 DEF AtMost, Plus, Delta, Before, AnyTimestamp, FiniteTimestamp, Infinite

(* The tree has everybody whose time was given by one of the tree.          *)
LEMMA TreeClosed ==
    ASSUME NEW p \in Process, p \notin DefiningTree, newWaiting \subseteq Process
    PROVE  p \notin newWaiting /\ definer[p] \notin DefiningTree /\ definer[p] \notin newWaiting
<1>1. PICK T \in SUBSET Process : /\ newWaiting \subseteq T /\ p \notin T
                                  /\ \A q \in Process : definer[q] \in T => q \in T
    BY DEF DefiningTree
<1>2. definer[p] \notin T
    BY <1>1
<1>3. \A q \in DefiningTree : q \in T
    BY <1>1 DEF DefiningTree
<1> QED BY <1>1, <1>2, <1>3

(* After the first part of a pass every wake-up time has a reason.          *)
LEMMA PredictionsGrounded ==
    ASSUME OoOScheduleAssumption, TypeOK, Founded, Predictions
    PROVE  AllGrounded'
<1>1. /\ UNCHANGED <<state, ts, seg, waits, notified>>
    BY PredictionsEffect
<1>2. PICK w \in [Process -> AnyTimestamp] : \A p \in Process : Pass(w, p) /\ PassResult(w, p)
    BY PredictionsEffect
<1>3. \A p, d \in Process : ByEvent(p)' = ByEvent(p) /\ \A t : Via(d, t, p)' = Via(d, t, p)
    BY <1>1, ByEventSame DEF Via
<1> SUFFICES ASSUME NEW p \in Process, state[p] # "dead"
             PROVE  Grounded(p)'
    BY <1>1 DEF AllGrounded
<1>4. /\ pwt'[p] \in AnyTimestamp /\ w[p] \in AnyTimestamp /\ ByEvent(p) \in AnyTimestamp
      /\ pwt[p] \in AnyTimestamp
    BY <1>2, EventTimeType DEF PassResult, TypeOK
<1>5. ASSUME pwt'[p] = ByEvent(p) PROVE Grounded(p)'
  <2>1. CASE state[p] = "wait"
    <3>1. AtMost(ByEvent(p)', pwt'[p])
        BY <1>3, <1>4, <1>5, AtMostOrder
    <3> QED BY <1>1, <2>1, <3>1 DEF Grounded
  <2>2. CASE state[p] # "wait"
      BY <1>5, <2>2 DEF ByEvent, Grounded
  <2> QED BY <2>1, <2>2
<1>6. ASSUME NEW d \in Process, state[d] # "dead", AtMost(Via(d, pwt[d], p), pwt'[p]),
             AtMost(pwt'[d], pwt[d]), definer'[p] = d
      PROVE  Grounded(p)'
  <2>1. /\ pwt'[d] \in AnyTimestamp /\ pwt[d] \in AnyTimestamp
      BY <1>2, Types DEF PassResult
  <2>2. /\ AtMost(Via(d, pwt'[d], p), Via(d, pwt[d], p))
        /\ Via(d, pwt'[d], p) \in AnyTimestamp /\ Via(d, pwt[d], p) \in AnyTimestamp
      BY <1>6, <2>1, ViaOrder, ViaType
  <2>3. AtMost(Via(d, pwt'[d], p), pwt'[p])
      BY <1>4, <1>6, <2>2, AtMostOrder
  <2>4. Via(d, pwt[d], p)' = Via(d, pwt'[d], p)
      BY <1>1 DEF Via
  <2>5. GivenBy(d, p)'
      BY <1>1, <1>6, <2>3, <2>4 DEF GivenBy
  <2> QED BY <1>6, <2>5 DEF Grounded
<1>7. ASSUME NEW d \in Process, state[d] \notin {"dead", "wait"}, AtMost(Via(d, ts[d], p), pwt'[p]),
             definer'[p] = d
      PROVE  Grounded(p)'
  <2>1. GivenBy(d, p)'
      BY <1>1, <1>7 DEF GivenBy, Via
  <2> QED BY <1>7, <2>1 DEF Grounded
<1>8. CASE p \in DefiningTree
  <2>1. w[p] = ByEvent(p)
      BY <1>2, <1>8 DEF Pass
  <2>2. ASSUME NEW d \in Process, state[d] # "dead", definer'[p] = d, pwt'[p] = Via(d, Source(d, w), p)
        PROVE  Grounded(p)'
    <3>1. CASE state[d] = "wait"
      <4>1. pwt'[p] = Via(d, w[d], p) /\ w[d] \in AnyTimestamp /\ pwt'[d] \in AnyTimestamp
            /\ AtMost(pwt'[d], w[d])
          BY <1>2, <2>2, <3>1 DEF Source, PassResult
      <4>2. AtMost(Via(d, pwt'[d], p), Via(d, w[d], p))
          BY <4>1, ViaOrder
      <4>3. Via(d, pwt[d], p)' = Via(d, pwt'[d], p)
          BY <1>1 DEF Via
      <4>4. GivenBy(d, p)'
          BY <1>1, <2>2, <4>1, <4>2, <4>3 DEF GivenBy
      <4> QED BY <2>2, <4>4 DEF Grounded
    <3>2. CASE state[d] # "wait"
      <4>1. pwt'[p] = Via(d, ts[d], p)
          BY <2>2, <3>2 DEF Source
      <4>2. AtMost(Via(d, ts[d], p), pwt'[p])
          BY <1>4, <4>1, AtMostOrder
      <4> QED BY <1>7, <2>2, <3>2, <4>2
    <3> QED BY <3>1, <3>2
  <2>3. \/ pwt'[p] = w[p]
        \/ \E d \in Process : state[d] # "dead" /\ definer'[p] = d /\ pwt'[p] = Via(d, Source(d, w), p)
      BY <1>2, <1>8 DEF PassResult
  <2> QED BY <1>5, <2>1, <2>2, <2>3
<1>9. CASE p \notin DefiningTree
  <2>1. /\ pwt'[p] = w[p] /\ w[p] \in {pwt[p], ByEvent(p)}
        /\ definer'[p] = IF Same(ByEvent(p), w[p]) THEN None ELSE definer[p]
        /\ AtMost(w[p], ByEvent(p))
      BY <1>2, <1>9 DEF Pass, PassResult
  <2>2. CASE w[p] = ByEvent(p)
      BY <1>5, <2>1, <2>2
  <2>3. CASE w[p] # ByEvent(p)
    <3>1. pwt'[p] = pwt[p] /\ definer'[p] = definer[p] /\ AtMost(pwt[p], ByEvent(p))
        BY <2>1, <2>3 DEF Same
    <3>2. p \notin newWaiting /\ definer[p] \notin DefiningTree /\ definer[p] \notin newWaiting
        BY <1>9, TreeClosed DEF TypeOK
    <3>3. Grounded(p)
        BY <3>2 DEF Founded
    <3>4. CASE pwt[p] = Infinite
        BY <3>1, <3>4 DEF Grounded
    <3>5. CASE state[p] = "wait" /\ AtMost(ByEvent(p), pwt[p])
        BY <1>1, <1>3, <3>1, <3>5 DEF Grounded
    <3>6. CASE state[p] # "wait" /\ AtMost(ts[p], pwt[p])
        BY <1>1, <3>1, <3>6 DEF Grounded
    <3>7. ASSUME NEW d \in Process, definer[p] = d, GivenBy(d, p) PROVE Grounded(p)'
      <4>1. AtMost(pwt'[d], pwt[d])
          BY <1>2, <3>2, <3>7 DEF Pass, PassResult
      <4> QED BY <1>6, <1>7, <3>1, <3>7, <4>1 DEF GivenBy
    <3> QED BY <3>3, <3>4, <3>5, <3>6, <3>7 DEF Grounded
  <2> QED BY <2>2, <2>3
<1> QED BY <1>8, <1>9

(* And the second part keeps it: what becomes earlier does so because of    *)
(* somebody who has become earlier.                                         *)
LEMMA RelaxGrounded ==
    ASSUME OoOScheduleAssumption, TypeOK, ProcessesPlain, AllGrounded, Relax
    PROVE  AllGrounded'
<1>1. UNCHANGED <<state, ts, seg, waits, notified>>
    BY RelaxEffect
<1>2. \A p \in Process :
        /\ pwt'[p] \in AnyTimestamp /\ AtMost(pwt'[p], pwt[p])
        /\ \/ pwt'[p] = pwt[p] /\ definer'[p] = definer[p]
           \/ /\ state[p] = "wait" /\ pwt'[p] # Infinite
              /\ \E d \in Process : definer'[p] = d /\ pwt'[p] = Via(d, pwt[d], p)
    BY RelaxEffect
<1> SUFFICES ASSUME NEW p \in Process, state[p] # "dead"
             PROVE  Grounded(p)'
    BY <1>1 DEF AllGrounded
<1>3. ASSUME NEW d \in Process, state[d] # "dead", AtMost(Via(d, pwt[d], p), pwt'[p]), definer'[p] = d
      PROVE  Grounded(p)'
  <2>1. pwt'[d] \in AnyTimestamp /\ pwt[d] \in AnyTimestamp /\ AtMost(pwt'[d], pwt[d])
        /\ pwt'[p] \in AnyTimestamp
      BY <1>2, Types
  <2>2. /\ AtMost(Via(d, pwt'[d], p), Via(d, pwt[d], p))
        /\ Via(d, pwt'[d], p) \in AnyTimestamp /\ Via(d, pwt[d], p) \in AnyTimestamp
      BY <2>1, ViaOrder, ViaType
  <2>3. AtMost(Via(d, pwt'[d], p), pwt'[p])
      BY <1>3, <2>1, <2>2, AtMostOrder
  <2>4. Via(d, pwt[d], p)' = Via(d, pwt'[d], p)
      BY <1>1 DEF Via
  <2>5. GivenBy(d, p)'
      BY <1>1, <1>3, <2>3, <2>4 DEF GivenBy
  <2> QED BY <1>3, <2>5 DEF Grounded
<1>4. CASE pwt'[p] = pwt[p] /\ definer'[p] = definer[p]
  <2>1. Grounded(p)
      BY DEF AllGrounded
  <2>2. CASE pwt[p] = Infinite
      BY <1>4, <2>2 DEF Grounded
  <2>3. CASE state[p] = "wait" /\ AtMost(ByEvent(p), pwt[p])
    <3>1. ByEvent(p)' = ByEvent(p)
        BY <1>1, ByEventSame
    <3> QED BY <1>1, <1>4, <2>3, <3>1 DEF Grounded
  <2>4. CASE state[p] # "wait" /\ AtMost(ts[p], pwt[p])
      BY <1>1, <1>4, <2>4 DEF Grounded
  <2>5. ASSUME NEW d \in Process, definer[p] = d, GivenBy(d, p) PROVE Grounded(p)'
    <3>1. CASE AtMost(Via(d, pwt[d], p), pwt[p])
        BY <1>3, <1>4, <2>5, <3>1 DEF GivenBy
    <3>2. CASE state[d] # "wait" /\ AtMost(Via(d, ts[d], p), pwt[p])
      <4>1. GivenBy(d, p)'
          BY <1>1, <1>4, <2>5, <3>2 DEF GivenBy, Via
      <4> QED BY <1>4, <2>5, <4>1 DEF Grounded
    <3> QED BY <2>5, <3>1, <3>2 DEF GivenBy
  <2> QED BY <2>1, <2>2, <2>3, <2>4, <2>5 DEF Grounded
<1>5. ASSUME pwt'[p] # Infinite, NEW d \in Process, definer'[p] = d, pwt'[p] = Via(d, pwt[d], p)
      PROVE  Grounded(p)'
  <2>1. state[d] # "dead"
    <3>1. ASSUME state[d] = "dead" PROVE FALSE
      <4>1. Predict[<<seg[d], seg[p]>>] = Infinite
          BY <3>1 DEF ProcessesPlain, PlainProcess, TypeOK
      <4> QED BY <1>5, <4>1 DEF Via, Plus
    <3> QED BY <3>1
  <2>2. AtMost(Via(d, pwt[d], p), pwt'[p])
      BY <1>2, <1>5, AtMostOrder
  <2> QED BY <1>3, <1>5, <2>1, <2>2
<1> QED BY <1>2, <1>4, <1>5

(* Whoever takes an event has its reason from then on in itself.            *)
LEMMA DeliverOffered ==
    ASSUME OoOScheduleAssumption, PlainUse, TypeOK, ProcessesPlain, AllGrounded, Deliver
    PROVE  AllGrounded' /\ (\A p \in Process : ~Takes(p))'
<1>1. /\ UNCHANGED <<seg, notified, pwt>>
      /\ \A p \in Process :
            IF Takes(p)
            THEN state'[p] = "ready" /\ ts'[p] = Plus(EventTime(p), Delta)
            ELSE state'[p] = state[p] /\ ts'[p] = ts[p] /\ waits'[p] = waits[p] /\ definer'[p] = definer[p]
    BY DeliverEffect
<1>2. ASSUME NEW p \in Process PROVE ~Takes(p)'
  <2>1. CASE Takes(p)
      BY <1>1, <2>1 DEF Takes
  <2>2. CASE ~Takes(p)
      BY <1>1, <2>2, ByEventSame DEF Takes
  <2> QED BY <2>1, <2>2
<1>3. ASSUME NEW p \in Process, state'[p] # "dead" PROVE Grounded(p)'
  <2>1. CASE Takes(p)
    <3>1. Before(EventTime(p), pwt[p]) /\ EventTime(p) \in AnyTimestamp /\ pwt[p] \in AnyTimestamp
        BY <2>1, EventTimeType, Types DEF Takes
    <3>2. AtMost(Plus(EventTime(p), Delta), pwt[p])
        BY <3>1, NextDelta DEF AtMost, Before, AnyTimestamp, FiniteTimestamp, Infinite
    <3> QED BY <1>1, <2>1, <3>2 DEF Grounded
  <2>2. CASE ~Takes(p)
    <3>1. Grounded(p) /\ state'[p] = state[p]
        BY <1>1, <1>3, <2>2 DEF AllGrounded
    <3>2. ts'[p] = ts[p] /\ seg'[p] = seg[p] /\ pwt'[p] = pwt[p] /\ definer'[p] = definer[p]
        BY <1>1, <2>2
    <3>3. ByEvent(p)' = ByEvent(p)
        BY <1>1, <2>2, ByEventSame
    <3>4. ASSUME NEW d \in Process
          PROVE  /\ seg'[d] = seg[d] /\ pwt'[d] = pwt[d] /\ (state[d] # "dead" => state'[d] # "dead")
                 /\ state[d] # "wait" => state'[d] # "wait" /\ ts'[d] = ts[d]
      <4>1. CASE Takes(d)
          BY <1>1, <4>1 DEF Takes
      <4>2. CASE ~Takes(d)
          BY <1>1, <4>2
      <4> QED BY <4>1, <4>2
    <3> QED BY <3>1, <3>2, <3>3, <3>4, GroundedKept
  <2> QED BY <2>1, <2>2
<1> QED BY <1>2, <1>3 DEF AllGrounded

(* A dispatch changes nothing of this.                                      *)
LEMMA DispatchOffered ==
    ASSUME OoOScheduleAssumption, TypeOK, Offered, DispatchMethod \/ DispatchThread
    PROVE  AllGrounded' /\ (\A p \in Process : ~Takes(p))'
<1>1. /\ UNCHANGED <<ts, seg, waits, notified, pwt, definer>> /\ phase \in {"dispatch", "thread"}
    BY DispatchEffect DEF DispatchSame
<1>2. \A p \in Process : (state'[p] = "wait" <=> state[p] = "wait") /\ (state'[p] = "dead" <=> state[p] = "dead")
  <2>1. state' = state \/ \E q \in In("ready") : Dispatched(q)
      BY DispatchEffect
  <2> QED BY <2>1 DEF Dispatched, In, TypeOK
<1>3. ASSUME NEW p \in Process PROVE ~Takes(p)'
    BY <1>1, <1>2, ByEventSame DEF Takes, Offered
<1>4. ASSUME NEW p \in Process, state'[p] # "dead" PROVE Grounded(p)'
  <2>1. Grounded(p)
      BY <1>1, <1>2, <1>4 DEF Offered, AllGrounded
  <2>2. state[p] = "wait" => ByEvent(p)' = ByEvent(p)
    <3>1. EventTime(p)' = EventTime(p)
        BY <1>1, ByEventSame
    <3> QED BY <1>2, <3>1 DEF ByEvent
  <2> QED BY <1>1, <1>2, <2>1, <2>2, GroundedKept
<1> QED BY <1>3, <1>4 DEF AllGrounded

(* When the deliveries are over the same holds until the end of the call.   *)
LEMMA OfferedStep ==
    ASSUME OoOScheduleAssumption, PlainUse, TypeOK, ProcessesPlain, CallPlain, Founded, Offered, [Next]_vars
    PROVE  Offered'
<1>1. CASE UNCHANGED vars
  <2>1. UNCHANGED <<state, ts, seg, waits, notified, pwt, definer, phase>>
      BY <1>1 DEF vars, program, prediction
  <2>2. \A p, d \in Process : (GivenBy(d, p)' <=> GivenBy(d, p)) /\ ByEvent(p)' = ByEvent(p)
                              /\ EventTime(p)' = EventTime(p)
      BY <2>1, ByEventSame DEF GivenBy, Via
  <2>3. \A p \in Process : (Grounded(p)' <=> Grounded(p)) /\ (Takes(p)' <=> Takes(p))
      BY <2>1, <2>2 DEF Grounded, Takes
  <2> QED BY <2>1, <2>3 DEF Offered, AllGrounded
<1>2. CASE Deliver
  <2>1. AllGrounded
    <3>1. newWaiting = {}
        BY <1>2, DeliverEffect DEF CallPlain
    <3> QED BY <3>1 DEF AllGrounded, Founded
  <2> QED BY <1>2, <2>1, DeliverOffered DEF Offered
<1>3. CASE DispatchMethod \/ DispatchThread
    BY <1>3, DispatchOffered DEF Offered
<1>4. CASE (\E q \in Process : \E n \in todo[q] : Notify(q, n)) \/ (\E P : EnterWait(P))
           \/ Timers \/ Predictions \/ Relax \/ Finish \/ Start
  <2>1. phase' \notin {"dispatch", "thread"}
      BY <1>4, TimersEffect, PredictionsEffect, RelaxEffect, FinishEffect, StartEffect
      DEF EnterWait, Notify
  <2> QED BY <2>1 DEF Offered
<1> QED BY <1>1, <1>2, <1>3, <1>4, PlainKinds

(* Between two calls the processes that have entered a wait, and those whose*)
(* time one of them gave, are left out.                                     *)
LEMMA FoundedStep ==
    ASSUME OoOScheduleAssumption, PlainUse, TypeOK, ProcessesPlain, CallPlain, Founded, Offered,
           ReadyRight, \A q \in tried : state[q] = "ready", [Next]_vars
    PROVE  Founded'
<1>0. newWaiting \subseteq Process
    BY DEF TypeOK
<1>1. ASSUME AllGrounded' PROVE Founded'
    BY <1>1 DEF AllGrounded, Founded
<1> DEFINE Case(p) == state'[p] # "dead" /\ p \notin newWaiting' /\ definer'[p] \notin newWaiting'
<1>2. CASE UNCHANGED vars \/ Start
  <2>1. UNCHANGED <<state, ts, seg, waits, notified, pwt, definer, newWaiting>>
      BY <1>2, StartEffect DEF vars, program, prediction
  <2>2. \A p, d \in Process : (GivenBy(d, p)' <=> GivenBy(d, p)) /\ ByEvent(p)' = ByEvent(p)
      BY <2>1, ByEventSame DEF GivenBy, Via
  <2>3. \A p \in Process : Grounded(p)' <=> Grounded(p)
      BY <2>1, <2>2 DEF Grounded
  <2> QED BY <2>1, <2>3 DEF Founded
<1>3. ASSUME NEW q \in Process, NEW n \in todo[q], Notify(q, n), NEW p \in Process, Case(p)
      PROVE  Grounded(p)'
  <2>1. UNCHANGED <<state, ts, seg, pwt, definer, newWaiting>>
      BY <1>3 DEF Notify, prediction
  <2>2. Grounded(p)
      BY <1>3, <2>1 DEF Founded
  <2>3. AtMost(ByEvent(p)', ByEvent(p)) /\ ByEvent(p)' \in AnyTimestamp
      BY <1>3, ByEventNotify
  <2>4. ByEvent(p) \in AnyTimestamp /\ pwt[p] \in AnyTimestamp
      BY EventTimeType, Types
  <2>5. AtMost(ByEvent(p), pwt[p]) => AtMost(ByEvent(p)', pwt[p])
      BY <2>3, <2>4, AtMostOrder
  <2> QED BY <2>1, <2>2, <2>5, GroundedKept
<1>4. ASSUME NEW P, EnterWait(P), NEW p \in Process, Case(p)
      PROVE  Grounded(p)'
  <2>1. /\ UNCHANGED <<ts, notified, pwt, definer>> /\ newWaiting' = newWaiting \cup P
        /\ \A q \in Process \ P : state'[q] = state[q] /\ seg'[q] = seg[q] /\ waits'[q] = waits[q]
      BY <1>4, EnterEffect
  <2>2. p \notin P /\ definer[p] \notin P /\ p \notin newWaiting /\ definer[p] \notin newWaiting
      BY <1>4, <2>1
  <2>3. Grounded(p) /\ state'[p] = state[p] /\ seg'[p] = seg[p] /\ waits'[p] = waits[p]
      BY <1>4, <2>1, <2>2 DEF Founded
  <2>4. ByEvent(p)' = ByEvent(p)
      BY <2>1, <2>3, ByEventSame
  <2>5. \A d \in Process : definer[p] = d => state'[d] = state[d] /\ seg'[d] = seg[d]
      BY <2>1, <2>2
  <2> QED BY <2>1, <2>3, <2>4, <2>5, GroundedKept
<1>5. ASSUME Timers, NEW p \in Process, Case(p)
      PROVE  Grounded(p)'
  <2>1. /\ UNCHANGED <<seg, notified, pwt, newWaiting>>
        /\ \A q \in Process : state[q] # "timed" =>
              state'[q] = state[q] /\ ts'[q] = ts[q] /\ waits'[q] = waits[q] /\ definer'[q] = definer[q]
      BY <1>5, TimersEffect
  <2>2. \A q \in Process : q \notin newWaiting => state[q] # "timed"
      BY DEF ProcessesPlain, PlainProcess
  <2>3. /\ state'[p] = state[p] /\ ts'[p] = ts[p] /\ waits'[p] = waits[p] /\ definer'[p] = definer[p]
        /\ p \notin newWaiting /\ definer[p] \notin newWaiting
      BY <1>5, <2>1, <2>2
  <2>4. Grounded(p)
      BY <1>5, <2>3 DEF Founded
  <2>5. ByEvent(p)' = ByEvent(p)
      BY <2>1, <2>3, ByEventSame
  <2>6. \A d \in Process : definer[p] = d => state'[d] = state[d] /\ ts'[d] = ts[d]
      BY <2>1, <2>2, <2>3
  <2> QED BY <2>1, <2>3, <2>4, <2>5, <2>6, GroundedKept
<1>6. CASE Predictions
    BY <1>1, <1>6, PredictionsGrounded
<1>7. CASE Relax \/ Deliver
  <2>1. AllGrounded
    <3>1. newWaiting = {}
        BY <1>7, RelaxEffect, DeliverEffect DEF CallPlain
    <3> QED BY <3>1 DEF AllGrounded, Founded
  <2> QED BY <1>1, <1>7, <2>1, RelaxGrounded, DeliverOffered
<1>8. CASE DispatchMethod \/ DispatchThread
    BY <1>1, <1>8, DispatchOffered
<1>9. ASSUME Finish, NEW p \in Process, Case(p)
      PROVE  Grounded(p)'
  <2>1. /\ UNCHANGED <<state, ts, seg, pwt, newWaiting>> /\ phase = "dispatch"
        /\ definer' = [q \in Process |-> IF q \in tried THEN None ELSE definer[q]]
      BY <1>9, FinishEffect
  <2>2. Grounded(p) /\ ~Takes(p)
      BY <1>9, <2>1 DEF Offered, AllGrounded
  <2>3. CASE p \in tried
    <3>1. state[p] = "ready" /\ AtMost(ts[p], pwt[p])
        BY <1>9, <2>1, <2>3 DEF ReadyRight
    <3> QED BY <2>1, <3>1 DEF Grounded
  <2>4. CASE p \notin tried
    <3>1. definer'[p] = definer[p]
        BY <2>1, <2>4
    <3>2. CASE pwt[p] = Infinite
        BY <2>1, <3>2 DEF Grounded
    <3>3. CASE pwt[p] # Infinite
      <4>1. ~(state[p] = "wait" /\ AtMost(ByEvent(p), pwt[p]))
          BY <2>2, <3>3, NotByEvent
      <4> QED BY <2>1, <2>2, <3>1, <4>1, GroundedKept
    <3> QED BY <3>2, <3>3
  <2> QED BY <2>3, <2>4
<1>10. ASSUME \A p \in Process : Case(p) => Grounded(p)' PROVE Founded'
    BY <1>10 DEF Founded
<1> QED BY <1>2, <1>3, <1>4, <1>5, <1>6, <1>7, <1>8, <1>9, <1>10, PlainKinds

-----------------------------------------------------------------------------
(* p took an event at time b, and L says why nobody wakes it up earlier:    *)
(* whoever waited then does not wake up before its predicted time.          *)
TakenSure(p) ==
    \E b \in AnyTimestamp : \E L \in [Process -> AnyTimestamp] :
        /\ ts[p] = Plus(b, Delta) /\ Bounds(L) /\ SilentAfter(L, seg[p], b)
        /\ \A q \in Process : state[q] = "wait" /\ q \notin newWaiting => AtMost(L[q], pwt[q])

(* Whoever has just become ready waited for a time, or took an event.       *)
WokenSure ==
    \A p \in Process : state[p] = "ready" /\ p \in newWaiting =>
        (\A s \in Segment : Predict[<<s, seg[p]>>] = Infinite) \/ TakenSure(p)

(* Nothing that others do makes the time of the event uncertain.            *)
LEMMA SureKept ==
    ASSUME OoOScheduleAssumption, TypeOK, TypeOK', Unhurried, NEW p \in Process, TakenSure(p),
           ts'[p] = ts[p], pwt' = pwt, newWaiting' = newWaiting
    PROVE  TakenSure(p)'
<1>1. PICK b \in AnyTimestamp, L \in [Process -> AnyTimestamp] :
        /\ ts[p] = Plus(b, Delta) /\ Bounds(L) /\ SilentAfter(L, seg[p], b)
        /\ \A q \in Process : state[q] = "wait" /\ q \notin newWaiting => AtMost(L[q], pwt[q])
    BY DEF TakenSure
<1>2. Bounds(L)'
    BY <1>1, BoundsKept
<1>3. SilentAfter(L, seg[p], b)'
    BY <1>1 DEF SilentAfter, Unhurried
<1>4. \A q \in Process : state'[q] = "wait" => state[q] = "wait"
    BY DEF Unhurried
<1> QED BY <1>1, <1>2, <1>3, <1>4 DEF TakenSure

(* Nor does a notification.                                                 *)
LEMMA SureNotify ==
    ASSUME OoOScheduleAssumption, TablesSound, TypeOK, WaitsOK, NEW q \in Process, NEW n \in todo[q],
           Notify(q, n), NEW p \in Process, TakenSure(p)
    PROVE  TakenSure(p)'
<1>1. PICK b \in AnyTimestamp, L \in [Process -> AnyTimestamp] :
        /\ ts[p] = Plus(b, Delta) /\ Bounds(L) /\ SilentAfter(L, seg[p], b)
        /\ \A r \in Process : state[r] = "wait" /\ r \notin newWaiting => AtMost(L[r], pwt[r])
    BY DEF TakenSure
<1>2. Bounds(L)'
    BY <1>1, SafeNotify
<1>3. UNCHANGED <<state, ts, seg, due, pwt, newWaiting>>
    BY DEF Notify, prediction
<1>4. SilentAfter(L, seg[p], b)'
    BY <1>1, <1>3 DEF SilentAfter, Alive
<1> QED BY <1>1, <1>2, <1>3, <1>4 DEF TakenSure

(* Nor the end of a segment, after which the tables say the same.           *)
LEMMA SureEnd ==
    ASSUME OoOScheduleAssumption, PlainUse, TablesSound, TypeOK, TypeOK', NEW P, EnterWait(P),
           NEW p \in Process \ P, TakenSure(p)
    PROVE  TakenSure(p)'
<1>1. PICK b \in AnyTimestamp, L \in [Process -> AnyTimestamp] :
        /\ ts[p] = Plus(b, Delta) /\ Bounds(L) /\ SilentAfter(L, seg[p], b)
        /\ \A q \in Process : state[q] = "wait" /\ q \notin newWaiting => AtMost(L[q], pwt[q])
    BY DEF TakenSure
<1>2. PICK M : M = Advanced(L, P)
    OBVIOUS
<1>3. P \in SUBSET In("run") /\ EndSegment(P)
    BY DEF EnterWait
<1>4. seg[p] \in Segment
    BY DEF TypeOK
<1>5. /\ M \in [Process -> AnyTimestamp]
      /\ \A q \in Process : Alive(q)' => Alive(q)
      /\ \A q \in Process :
            AtMost(Plus(L[q], Predict[<<seg[q], seg[p]>>]), Plus(M[q], Predict[<<seg'[q], seg[p]>>]))
    BY <1>1, <1>2, <1>3, <1>4, AdvancedBounds
<1>6. Bounds(M)'
    BY <1>1, <1>2, <1>3, AdvancedBounds DEF Bounds
<1>7. /\ UNCHANGED <<ts, pwt>> /\ newWaiting' = newWaiting \cup P
      /\ \A q \in Process \ P : state'[q] = state[q] /\ seg'[q] = seg[q]
    BY EnterEffect
<1>8. ASSUME NEW q \in Process, Alive(q)'
      PROVE  Before(b, Plus(M[q], Predict[<<seg'[q], seg[p]>>]))
  <2>1. /\ Predict[<<seg[q], seg[p]>>] \in AnyTimestamp /\ Predict[<<seg'[q], seg[p]>>] \in AnyTimestamp
        /\ L[q] \in AnyTimestamp /\ M[q] \in AnyTimestamp
      BY <1>5 DEF TypeOK, OoOScheduleAssumption
  <2>2. /\ Plus(L[q], Predict[<<seg[q], seg[p]>>]) \in AnyTimestamp
        /\ Plus(M[q], Predict[<<seg'[q], seg[p]>>]) \in AnyTimestamp
      BY <2>1, PlusType
  <2>3. Before(b, Plus(L[q], Predict[<<seg[q], seg[p]>>]))
      BY <1>1, <1>5, <1>8 DEF SilentAfter
  <2>4. AtMost(Plus(L[q], Predict[<<seg[q], seg[p]>>]), Plus(M[q], Predict[<<seg'[q], seg[p]>>]))
      BY <1>5
  <2> QED BY <2>2, <2>3, <2>4, AtMostOrder
<1>9. SilentAfter(M, seg[p], b)'
    BY <1>7, <1>8 DEF SilentAfter
<1>10. \A q \in Process : state'[q] = "wait" /\ q \notin newWaiting' => AtMost(M[q], pwt[q])
    BY <1>1, <1>2, <1>7 DEF Advanced
<1> QED BY <1>1, <1>5, <1>6, <1>7, <1>9, <1>10 DEF TakenSure

(* The delivery is what makes it certain.                                   *)
LEMMA SureDelivered ==
    ASSUME OoOScheduleAssumption, PlainUse, TypeOK, TypeOK', PhaseOK, WaitsOK, ProcessesPlain, Predicted({}),
           Deliver, NEW p \in Process, Takes(p)
    PROVE  TakenSure(p)'
<1>1. /\ UNCHANGED <<seg, pwt>> /\ phase = "deliver" /\ newWaiting' = {q \in Process : Takes(q)}
      /\ ts'[p] = Plus(EventTime(p), Delta)
    BY DeliverEffect
<1>2. state[p] = "wait" /\ Before(EventTime(p), pwt[p]) /\ EventTime(p) \in AnyTimestamp
    BY EventTimeType DEF Takes
<1>3. PICK L : L = [q \in Process |-> Source(q, pwt)]
    OBVIOUS
<1>4. /\ L \in [Process -> AnyTimestamp] /\ Bounds(L)
      /\ \A q \in Process : Alive(q) => L[q] = Floor(q, pwt)
    BY <1>1, <1>3, PredictionBounds
<1>5. ASSUME NEW q \in Process, Alive(q)
      PROVE  Before(EventTime(p), Plus(L[q], Predict[<<seg[q], seg[p]>>]))
  <2>1. AtMost(pwt[p], Via(q, L[q], p))
      BY <1>2, <1>4, <1>5 DEF Predicted, In, Covers
  <2>2. pwt[p] \in AnyTimestamp /\ Via(q, L[q], p) \in AnyTimestamp
      BY <1>4, Types
  <2> QED BY <1>2, <2>1, <2>2, AtMostOrder DEF Via
<1>6. Unhurried
    BY DeliverUnhurried
<1>7. Bounds(L)'
    BY <1>4, <1>6, BoundsKept
<1>8. SilentAfter(L, seg[p], EventTime(p))
    BY <1>5 DEF SilentAfter
<1>9. PICK b \in AnyTimestamp : b = EventTime(p)
    BY <1>2
<1>10. SilentAfter(L, seg[p], b)'
    BY <1>6, <1>8, <1>9 DEF SilentAfter, Unhurried
<1>11. ASSUME NEW q \in Process, state'[q] = "wait" PROVE AtMost(L[q], pwt'[q])
  <2>1. state[q] = "wait" /\ pwt[q] \in AnyTimestamp
      BY <1>6, <1>11, Types DEF Unhurried
  <2>2. L[q] = pwt[q]
      BY <1>3, <2>1 DEF Source
  <2> QED BY <1>1, <2>1, <2>2, AtMostOrder
<1> QED BY <1>1, <1>4, <1>7, <1>9, <1>10, <1>11 DEF TakenSure

(* Whoever is ready has taken an event that nobody could notify earlier.    *)
LEMMA WokenSureStep ==
    ASSUME OoOScheduleAssumption, PlainUse, TablesSound, TypeOK, TypeOK', PhaseOK, WaitsOK, PredictionOK,
           ProcessesPlain, CallPlain, WokenSure, [Next]_vars
    PROVE  WokenSure'
<1> SUFFICES ASSUME NEW p \in Process, state'[p] = "ready", p \in newWaiting'
             PROVE  (\A s \in Segment : Predict[<<s, seg'[p]>>] = Infinite) \/ TakenSure(p)'
    BY DEF WokenSure
<1>1. CASE UNCHANGED vars \/ Finish \/ Start \/ DispatchMethod \/ DispatchThread
  <2>1. /\ UNCHANGED <<ts, seg, pwt, newWaiting>> /\ state[p] = "ready"
    <3>1. CASE DispatchMethod \/ DispatchThread
      <4>1. state' = state \/ \E q \in In("ready") : Dispatched(q)
          BY <3>1, DispatchEffect
      <4>2. state[p] = "ready"
          BY <4>1 DEF Dispatched, In, TypeOK
      <4> QED BY <3>1, <4>2, DispatchEffect DEF DispatchSame
    <3>2. CASE UNCHANGED vars \/ Finish \/ Start
        BY <3>2, FinishEffect, StartEffect DEF vars, program, prediction
    <3> QED BY <1>1, <3>1, <3>2
  <2>2. Unhurried
      BY <1>1, OtherUnhurried
  <2> QED BY <2>1, <2>2, SureKept DEF WokenSure
<1>2. ASSUME NEW q \in Process, NEW n \in todo[q], Notify(q, n)
      PROVE  (\A s \in Segment : Predict[<<s, seg'[p]>>] = Infinite) \/ TakenSure(p)'
  <2>1. UNCHANGED <<state, seg, newWaiting>>
      BY <1>2 DEF Notify, prediction
  <2> QED BY <1>2, <2>1, SureNotify DEF WokenSure
<1>3. ASSUME NEW P, EnterWait(P)
      PROVE  (\A s \in Segment : Predict[<<s, seg'[p]>>] = Infinite) \/ TakenSure(p)'
  <2>1. /\ newWaiting' = newWaiting \cup P
        /\ \A q \in Process \ P : state'[q] = state[q] /\ seg'[q] = seg[q]
        /\ \A q \in P : state'[q] # "ready"
      BY <1>3, EnterEffect
  <2>2. p \in Process \ P /\ state[p] = "ready" /\ p \in newWaiting /\ seg'[p] = seg[p]
      BY <2>1
  <2>3. TakenSure(p) => TakenSure(p)'
      BY <1>3, <2>2, SureEnd
  <2> QED BY <2>2, <2>3 DEF WokenSure
<1>4. CASE Timers
  <2>1. /\ UNCHANGED <<seg, pwt, newWaiting>>
        /\ state[p] # "timed" => state'[p] = state[p] /\ ts'[p] = ts[p]
      BY <1>4, TimersEffect
  <2>2. CASE state[p] = "timed"
      BY <2>1, <2>2 DEF ProcessesPlain, PlainProcess
  <2>3. CASE state[p] # "timed"
    <3>1. Unhurried
        BY <1>4, TimersUnhurried
    <3> QED BY <2>1, <2>3, <3>1, SureKept DEF WokenSure
  <2> QED BY <2>2, <2>3
<1>5. CASE Predictions \/ Relax
    BY <1>5, PredictionsEffect, RelaxEffect DEF CallPlain
<1>6. CASE Deliver
  <2>1. Takes(p) /\ phase = "deliver"
      BY <1>6, DeliverEffect
  <2>2. Predicted({})
      BY <2>1 DEF PredictionOK
  <2> QED BY <1>6, <2>1, <2>2, SureDelivered
<1> QED BY <1>1, <1>2, <1>3, <1>4, <1>5, <1>6, PlainKinds

(* What a wake-up time given by others is at least.                         *)
LEMMA SureBound ==
    ASSUME OoOScheduleAssumption, TypeOK, PhaseOK, ProcessesPlain, phase = "predict",
           NEW p \in Process, TakenSure(p), NEW w \in [Process -> AnyTimestamp],
           \A q \in Process : Pass(w, q), NEW d \in Process, state[d] # "dead"
    PROVE  AtMost(ts[p], Via(d, Source(d, w), p))
<1>1. PICK b \in AnyTimestamp, L \in [Process -> AnyTimestamp] :
        /\ ts[p] = Plus(b, Delta) /\ Bounds(L) /\ SilentAfter(L, seg[p], b)
        /\ \A q \in Process : state[q] = "wait" /\ q \notin newWaiting => AtMost(L[q], pwt[q])
    BY DEF TakenSure
<1>2. state[d] # "timed"
    BY DEF ProcessesPlain, PlainProcess
<1>3. Alive(d)
    BY <1>2 DEF Alive
<1>4. /\ L[d] \in AnyTimestamp /\ w[d] \in AnyTimestamp /\ ts[d] \in AnyTimestamp /\ pwt[d] \in AnyTimestamp
      /\ ByEvent(d) \in AnyTimestamp /\ Predict[<<seg[d], seg[p]>>] \in AnyTimestamp /\ Delta \in AnyTimestamp
    BY Types, EventTimeType
<1>5. AtMost(L[d], Source(d, w)) /\ Source(d, w) \in AnyTimestamp
  <2>1. CASE state[d] = "wait"
    <3>1. EventsAllow(d, L[d])
        BY <1>1, <1>3, <2>1 DEF Bounds
    <3>2. AtMost(L[d], ByEvent(d))
        BY <1>4, <2>1, <3>1, EventsAllowTime DEF ByEvent
    <3>3. w[d] = ByEvent(d) \/ (w[d] = pwt[d] /\ d \notin newWaiting)
      <4>1. newWaiting \subseteq DefiningTree
          BY DEF DefiningTree, TypeOK
      <4> QED BY <4>1 DEF Pass
    <3> QED BY <1>1, <1>4, <2>1, <3>2, <3>3 DEF Source
  <2>2. CASE state[d] # "wait"
    <3>1. AtMost(L[d], Resumes(d)) /\ Resumes(d) = ts[d]
        BY <1>1, <1>2, <1>3, <2>2 DEF Bounds, Resumes
    <3> QED BY <1>4, <2>2, <3>1 DEF Source
  <2> QED BY <2>1, <2>2
<1>6. Before(b, Plus(L[d], Predict[<<seg[d], seg[p]>>]))
    BY <1>1, <1>3 DEF SilentAfter
<1>7. AtMost(Via(d, L[d], p), Via(d, Source(d, w), p))
    BY <1>4, <1>5, ViaOrder
<1>8. Via(d, L[d], p) \in AnyTimestamp /\ Via(d, Source(d, w), p) \in AnyTimestamp
    BY <1>4, <1>5, ViaType
<1>9. Before(b, Via(d, Source(d, w), p))
    BY <1>6, <1>7, <1>8, AtMostOrder DEF Via
<1>10. ASSUME Before(Via(d, Source(d, w), p), Plus(b, Delta)) PROVE FALSE
  <2>1. AtMost(Via(d, Source(d, w), p), b)
      BY <1>8, <1>10, NextDelta
  <2> QED BY <1>9, <2>1 DEF AtMost
<1> QED BY <1>1, <1>10 DEF AtMost

(* The wake-up time of a process that is ready is not before its timestamp, *)
(* so that what it is expected to cause is not either.                      *)
LEMMA ReadyRightStep ==
    ASSUME OoOScheduleAssumption, PlainUse, TypeOK, PhaseOK, ProcessesPlain, CallPlain, WokenSure,
           ReadyRight, [Next]_vars
    PROVE  ReadyRight'
<1> SUFFICES ASSUME NEW p \in Process, state'[p] = "ready", p \notin newWaiting'
             PROVE  AtMost(ts'[p], pwt'[p])
    BY DEF ReadyRight
<1>1. CASE UNCHANGED vars \/ Finish \/ Start \/ (\E q \in Process : \E n \in todo[q] : Notify(q, n))
           \/ DispatchMethod \/ DispatchThread
  <2>1. UNCHANGED <<ts, pwt, newWaiting>> /\ state[p] = "ready"
    <3>1. CASE DispatchMethod \/ DispatchThread
      <4>1. state' = state \/ \E q \in In("ready") : Dispatched(q)
          BY <3>1, DispatchEffect
      <4>2. state[p] = "ready"
          BY <4>1 DEF Dispatched, In, TypeOK
      <4> QED BY <3>1, <4>2, DispatchEffect DEF DispatchSame
    <3>2. CASE UNCHANGED vars \/ Finish \/ Start \/ (\E q \in Process : \E n \in todo[q] : Notify(q, n))
        BY <3>2, FinishEffect, StartEffect DEF vars, program, prediction, Notify
    <3> QED BY <1>1, <3>1, <3>2
  <2> QED BY <2>1 DEF ReadyRight
<1>2. ASSUME NEW P, EnterWait(P) PROVE AtMost(ts'[p], pwt'[p])
  <2>1. /\ UNCHANGED <<ts, pwt>> /\ newWaiting' = newWaiting \cup P
        /\ \A q \in Process \ P : state'[q] = state[q]
      BY <1>2, EnterEffect
  <2> QED BY <2>1 DEF ReadyRight
<1>3. CASE Timers
  <2>1. /\ UNCHANGED <<pwt, newWaiting>>
        /\ state[p] # "timed" => state'[p] = state[p] /\ ts'[p] = ts[p]
      BY <1>3, TimersEffect
  <2>2. state[p] # "timed"
      BY <2>1 DEF ProcessesPlain, PlainProcess
  <2> QED BY <2>1, <2>2 DEF ReadyRight
<1>4. CASE Predictions
  <2>1. UNCHANGED <<state, ts, seg>> /\ phase = "predict"
      BY <1>4, PredictionsEffect
  <2>2. PICK w \in [Process -> AnyTimestamp] : \A q \in Process : Pass(w, q) /\ PassResult(w, q)
      BY <1>4, PredictionsEffect
  <2>3. ByEvent(p) = Infinite /\ ts[p] \in AnyTimestamp /\ w[p] \in AnyTimestamp
      BY <2>1, Types DEF ByEvent
  <2>4. CASE p \notin newWaiting
    <3>1. AtMost(ts[p], pwt[p])
        BY <2>1, <2>4 DEF ReadyRight
    <3>2. p \notin DefiningTree
      <4>1. definer[p] = None
          BY <2>1 DEF CallPlain
      <4> DEFINE T == Process \ {p}
      <4>2. newWaiting \subseteq T /\ \A q \in Process : definer[q] \in T => q \in T \/ q = p
          BY <2>4 DEF TypeOK
      <4>3. None \notin T
          BY DEF OoOScheduleAssumption
      <4>4. \A q \in Process : definer[q] \in T => q \in T
          BY <4>1, <4>2, <4>3
      <4> QED BY <4>2, <4>4 DEF DefiningTree
    <3>3. pwt'[p] = w[p] /\ w[p] \in {pwt[p], Infinite}
        BY <2>2, <2>3, <3>2 DEF Pass, PassResult
    <3> QED BY <2>1, <2>3, <3>1, <3>3, AtMostOrder
  <2>5. CASE p \in newWaiting
    <3>1. p \in DefiningTree
        BY <2>5 DEF DefiningTree, TypeOK
    <3>2. w[p] = Infinite
        BY <2>2, <2>3, <3>1 DEF Pass
    <3>3. \/ pwt'[p] = Infinite
          \/ \E d \in Process : state[d] # "dead" /\ pwt'[p] = Via(d, Source(d, w), p)
        BY <2>2, <3>1, <3>2 DEF PassResult
    <3>4. CASE pwt'[p] = Infinite
        BY <2>1, <2>3, <3>4, AtMostOrder
    <3>5. ASSUME NEW d \in Process, state[d] # "dead", pwt'[p] = Via(d, Source(d, w), p)
          PROVE  AtMost(ts'[p], pwt'[p])
      <4>1. CASE \A s \in Segment : Predict[<<s, seg[p]>>] = Infinite
        <5>1. pwt'[p] = Infinite
            BY <3>5, <4>1 DEF Via, Plus, TypeOK
        <5> QED BY <2>1, <2>3, <5>1, AtMostOrder
      <4>2. CASE TakenSure(p)
          BY <2>1, <2>2, <3>5, <4>2, SureBound
      <4> QED BY <2>1, <2>5, <4>1, <4>2 DEF WokenSure
    <3> QED BY <3>3, <3>4, <3>5
  <2> QED BY <2>4, <2>5
<1>5. CASE Relax
  <2>1. UNCHANGED <<state, ts, newWaiting>>
        /\ (pwt'[p] = pwt[p] \/ state[p] = "wait")
      BY <1>5, RelaxEffect
  <2> QED BY <2>1 DEF ReadyRight
<1>6. CASE Deliver
  <2>1. ~Takes(p) /\ UNCHANGED pwt /\ state'[p] = state[p] /\ ts'[p] = ts[p] /\ phase = "deliver"
      BY <1>6, DeliverEffect
  <2> QED BY <2>1 DEF ReadyRight, CallPlain
<1> QED BY <1>1, <1>2, <1>3, <1>4, <1>5, <1>6, PlainKinds

-----------------------------------------------------------------------------
(* Somebody runs, or whoever has been put back is a thread that another     *)
(* process might still disturb.                                             *)
Blocked ==
    phase \in {"dispatch", "thread"} =>
        \A p \in tried :
            /\ state[p] = "ready"
            /\ \/ \E r \in Process : state[r] = "run"
               \/ p \in Thread /\ Before(ts[p], duration) /\ \E q \in Process \ {p} : Concurrent(q, p)

(* A method is put back only while something runs.                          *)
LEMMA MethodBlocked ==
    ASSUME OoOScheduleAssumption, PlainUse, TypeOK, ProcessesPlain, CallPlain, NEW m \in Method,
           InvokerOf[m] \in running \/ ~HasNoConflicts(m)
    PROVE  \E r \in Process : state[r] = "run"
<1>1. HasNoConflicts(m)
  <2> SUFFICES ASSUME NEW q \in Process
               PROVE  ~NotAfter(Plus(Source(q, pwt), Hazard[<<seg[q], seg[m]>>]), ts[m])
      BY DEF HasNoConflicts
  <2>1. m \in Process /\ seg[m] = First[m] /\ seg[q] \in Segment /\ ts[m] \in FiniteTimestamp
      BY DEF Process, ProcessesPlain, PlainProcess, TypeOK
  <2>2. Hazard[<<seg[q], seg[m]>>] = Infinite
      BY <2>1 DEF PlainUse
  <2> QED BY <2>1, <2>2 DEF NotAfter, Plus, Before, Same, Infinite
<1>2. QueueOf(InvokerOf[m]) # {}
    BY <1>1 DEF CallPlain
<1> QED BY <1>2 DEF QueueOf, Process

(* Putting back always has such a cause, and pausing or running others      *)
(* keeps it.                                                                *)
LEMMA BlockedStep ==
    ASSUME OoOScheduleAssumption, PlainUse, TypeOK, ProcessesPlain, CallPlain, Blocked, [Next]_vars
    PROVE  Blocked'
<1>1. CASE UNCHANGED vars
  <2>1. UNCHANGED <<state, ts, pwt, phase, tried, duration>>
      BY <1>1 DEF vars, program, prediction, control
  <2> QED BY <2>1 DEF Blocked, Concurrent
<1>2. CASE Deliver
  <2>1. tried' = {}
      BY <1>2, DeliverEffect DEF CallPlain
  <2> QED BY <2>1 DEF Blocked
<1>3. CASE DispatchMethod \/ DispatchThread
  <2>1. /\ DispatchSame /\ phase \in {"dispatch", "thread"} /\ tried \subseteq Process
        /\ state \in [Process -> {"ready", "run", "wait", "timed", "dead", "paused", "queued"}]
      BY <1>3, DispatchEffect DEF TypeOK
  <2>2. \A p \in tried :
            /\ state[p] = "ready" /\ p \in Process
            /\ \/ \E r \in Process : state[r] = "run"
               \/ p \in Thread /\ Before(ts[p], duration) /\ \E q \in Process \ {p} : Concurrent(q, p)
      BY <2>1 DEF Blocked
  <2>3. CASE state' = state /\ tried' = tried
      BY <2>1, <2>2, <2>3 DEF Blocked, Concurrent, DispatchSame
  <2>4. ASSUME NEW d \in In("ready") \ tried, Dispatched(d)
        PROVE  Blocked'
    <3>0. d \in Process /\ state[d] = "ready"
        BY DEF In
    <3>1. CASE state' = [state EXCEPT ![d] = "run"] /\ tried' = tried
      <4>1. state'[d] = "run" /\ \A p \in tried : state'[p] = state[p]
          BY <2>1, <2>2, <3>0, <3>1
      <4> QED BY <2>2, <3>0, <3>1, <4>1 DEF Blocked
    <3>2. CASE state' = [state EXCEPT ![d] = "paused"] /\ tried' = tried
      <4>1. \A q \in Process : state'[q] = IF q = d THEN "paused" ELSE state[q]
          BY <2>1, <3>0, <3>2
      <4>2. ASSUME NEW q \in Process, NEW p \in tried, Concurrent(q, p) PROVE Concurrent(q, p)'
        <5>1. UNCHANGED <<ts, pwt>> /\ p \in Process
            BY <2>1, <2>2 DEF DispatchSame
        <5>2. CASE q = d
            BY <3>0, <4>1, <4>2, <5>1, <5>2 DEF Concurrent
        <5>3. CASE q # d
            BY <4>1, <4>2, <5>1, <5>3 DEF Concurrent
        <5> QED BY <5>2, <5>3
      <4>3. ASSUME NEW p \in tried'
            PROVE  /\ state'[p] = "ready"
                   /\ \/ \E r \in Process : state'[r] = "run"
                      \/ /\ p \in Thread /\ Before(ts'[p], duration')
                         /\ \E q \in Process \ {p} : Concurrent(q, p)'
        <5>1. p \in tried /\ p # d /\ state'[p] = "ready" /\ UNCHANGED <<ts, duration>>
            BY <2>1, <2>2, <3>2, <4>1 DEF DispatchSame
        <5>2. ASSUME NEW r \in Process, state[r] = "run" PROVE state'[r] = "run"
            BY <3>0, <4>1, <5>2
        <5> QED BY <2>2, <4>2, <5>1, <5>2
      <4> QED BY <4>3 DEF Blocked
    <3>3. CASE /\ state' = state /\ tried' = tried \cup {d}
               /\ \/ d \in Method /\ (InvokerOf[d] \in running \/ ~HasNoConflicts(d))
                  \/ d \in Thread /\ ~IsOver(d) /\ ~HasNoConflicts(d)
      <4>1. \/ \E r \in Process : state[r] = "run"
            \/ d \in Thread /\ Before(ts[d], duration) /\ \E q \in Process \ {d} : Concurrent(q, d)
        <5>1. CASE d \in Method
            BY <3>3, <5>1, MethodBlocked DEF OoOScheduleAssumption
        <5>2. CASE d \in Thread
          <6>1. d \notin Method
              BY <5>2 DEF OoOScheduleAssumption
          <6>2. ~IsOver(d) /\ ~HasNoConflicts(d)
              BY <3>3, <6>1
          <6> QED BY <5>2, <6>2 DEF IsOver, HasNoConflicts
        <5> QED BY <3>0, <5>1, <5>2 DEF Process
      <4>2. \A q, p \in Process : Concurrent(q, p)' <=> Concurrent(q, p)
          BY <2>1, <3>3 DEF Concurrent, DispatchSame
      <4> QED BY <2>1, <2>2, <3>0, <3>3, <4>1, <4>2 DEF Blocked, DispatchSame
    <3> QED BY <2>4, <3>1, <3>2, <3>3 DEF Dispatched
  <2> QED BY <1>3, <2>3, <2>4, DispatchEffect
<1>4. CASE (\E q \in Process : \E n \in todo[q] : Notify(q, n)) \/ (\E P : EnterWait(P))
           \/ Timers \/ Predictions \/ Relax \/ Finish \/ Start
  <2>1. phase' \notin {"dispatch", "thread"}
      BY <1>4, TimersEffect, PredictionsEffect, RelaxEffect, FinishEffect, StartEffect
      DEF EnterWait, Notify
  <2> QED BY <2>1 DEF Blocked
<1> QED BY <1>1, <1>2, <1>3, <1>4, PlainKinds

(* A positive interval makes a time later.                                  *)
LEMMA PlusPositive ==
    ASSUME NEW a \in AnyTimestamp, NEW c \in AnyTimestamp, NEW t \in AnyTimestamp,
           Before(<<0, 0>>, c), AtMost(Plus(a, c), t), t # Infinite
    PROVE  Before(a, t)
BY DEF AtMost, Plus, Before, AnyTimestamp, FiniteTimestamp, Infinite

(* The reason of the least wake-up time is not another wake-up time.        *)
LEMMA LeastReason ==
    ASSUME OoOScheduleAssumption, TablesTight, TypeOK, AllGrounded, \A q \in Process : ~Takes(q),
           NEW r \in Process, state[r] # "dead", pwt[r] # Infinite,
           \A q \in Process : state[q] # "dead" => AtMost(pwt[r], pwt[q])
    PROVE  \/ state[r] # "wait" /\ AtMost(ts[r], pwt[r])
           \/ \E q \in Process : state[q] \notin {"wait", "dead"} /\ Before(ts[q], pwt[r])
<1>1. ~(state[r] = "wait" /\ AtMost(ByEvent(r), pwt[r]))
    BY NotByEvent
<1>2. CASE state[r] # "wait" /\ AtMost(ts[r], pwt[r])
    BY <1>2
<1>3. ASSUME NEW d \in Process, GivenBy(d, r)
      PROVE  \E q \in Process : state[q] \notin {"wait", "dead"} /\ Before(ts[q], pwt[r])
  <2>1. /\ pwt[d] \in AnyTimestamp /\ pwt[r] \in AnyTimestamp /\ ts[d] \in AnyTimestamp
        /\ Predict[<<seg[d], seg[r]>>] \in AnyTimestamp
        /\ Before(<<0, 0>>, Predict[<<seg[d], seg[r]>>])
      BY Types DEF TablesTight
  <2>2. ~AtMost(Via(d, pwt[d], r), pwt[r])
    <3>1. state[d] # "dead"
        BY <1>3 DEF GivenBy
    <3>2. AtMost(pwt[r], pwt[d])
        BY <3>1
    <3>3. ASSUME AtMost(Plus(pwt[d], Predict[<<seg[d], seg[r]>>]), pwt[r]) PROVE FALSE
        BY <2>1, <3>2, <3>3, PlusPositive DEF AtMost
    <3> QED BY <3>3 DEF Via
  <2>3. /\ state[d] \notin {"wait", "dead"}
        /\ AtMost(Plus(ts[d], Predict[<<seg[d], seg[r]>>]), pwt[r])
      BY <1>3, <2>2 DEF GivenBy, Via
  <2>4. Before(ts[d], pwt[r])
      BY <2>1, <2>3, PlusPositive
  <2> QED BY <2>3, <2>4
<1> QED BY <1>1, <1>2, <1>3 DEF AllGrounded, Grounded

(* Whoever is expected to wake up waits, in the end, for a process that     *)
(* does not wait and is earlier.                                            *)
LEMMA Cause ==
    ASSUME OoOScheduleAssumption, TablesTight, TypeOK, AllGrounded, \A q \in Process : ~Takes(q),
           NEW p \in Process, state[p] = "wait", pwt[p] # Infinite
    PROVE  \E q \in Process : state[q] \notin {"wait", "dead"} /\ Before(ts[q], pwt[p])
<1> DEFINE S == {pwt[q] : q \in {q \in Process : state[q] # "dead" /\ pwt[q] # Infinite}}
<1>1. \A q \in Process : /\ pwt[q] \in AnyTimestamp /\ ts[q] \in AnyTimestamp
                         /\ pwt[q] # Infinite => pwt[q] \in FiniteTimestamp
  <2>1. \A q \in Process : pwt[q] \in AnyTimestamp /\ ts[q] \in AnyTimestamp
      BY Types
  <2> QED BY <2>1 DEF AnyTimestamp
<1>2. S \in SUBSET FiniteTimestamp /\ pwt[p] \in S
    BY <1>1
<1>3. PICK x \in S : \A y \in S : ~Before(y, x)
    BY <1>2, FirstTimestamp
<1>4. PICK r \in Process : state[r] # "dead" /\ pwt[r] # Infinite /\ x = pwt[r]
    BY <1>3
<1>5. \A q \in Process : state[q] # "dead" => AtMost(pwt[r], pwt[q])
  <2> SUFFICES ASSUME NEW q \in Process, state[q] # "dead" PROVE AtMost(pwt[r], pwt[q])
      OBVIOUS
  <2>1. CASE pwt[q] = Infinite
      BY <1>1, <2>1, AtMostOrder
  <2>2. CASE pwt[q] # Infinite
      BY <1>3, <1>4, <2>2 DEF AtMost
  <2> QED BY <2>1, <2>2
<1> HIDE DEF S
<1>6. CASE AtMost(pwt[p], pwt[r])
  <2>1. pwt[r] = pwt[p]
      BY <1>1, <1>5, <1>6, AtMostOrder
  <2> QED BY <1>5, <2>1, LeastReason
<1>7. CASE Before(pwt[r], pwt[p])
  <2>1. \E q \in Process : state[q] \notin {"wait", "dead"} /\ AtMost(ts[q], pwt[r])
    <3>1. \A q \in Process : Before(ts[q], pwt[r]) => AtMost(ts[q], pwt[r])
        BY <1>1, AtMostOrder
    <3> QED BY <1>4, <1>5, <3>1, LeastReason
  <2> QED BY <1>1, <1>7, <2>1, AtMostOrder
<1> QED BY <1>6, <1>7 DEF AtMost

-----------------------------------------------------------------------------
(* Who waits for an event notified at x is not expected after x.            *)
LEMMA ExpectedBy ==
    ASSUME OoOScheduleAssumption, TypeOK, NEW p \in Process, ~Takes(p), state[p] = "wait",
           NEW e \in waits[p], NEW x \in notified[e], AtMost(ts[p], x)
    PROVE  AtMost(pwt[p], x) /\ pwt[p] # Infinite /\ pwt[p] \in AnyTimestamp /\ x \in AnyTimestamp
<1>1. e \in Event /\ x \in FiniteTimestamp /\ x \in AnyTimestamp /\ pwt[p] \in AnyTimestamp
    BY Types DEF TypeOK, AnyTimestamp
<1>2. EventTime(p) \in AnyTimestamp /\ AtMost(EventTime(p), x)
    BY EventTimeLeast DEF AtMost
<1>3. AtMost(pwt[p], EventTime(p))
    BY DEF Takes, AtMost
<1>4. AtMost(pwt[p], x)
    BY <1>1, <1>2, <1>3, AtMostOrder
<1>5. pwt[p] # Infinite
    BY <1>1, <1>4 DEF AtMost, Before, FiniteTimestamp, Infinite
<1> QED BY <1>1, <1>4, <1>5

(* The clean-up forgets nothing that is due in this period and that somebody*)
(* waits for.                                                               *)
LEMMA ForgetsStaleDue ==
    ASSUME OoOScheduleAssumption, PlainUse, TablesTight, TypeOK, ProcessesPlain, Offered, Finish
    PROVE  ForgetsStaleBefore(duration)
<1>1. /\ phase = "dispatch" /\ notified' \in {notified, Kept}
      /\ AllGrounded /\ \A q \in Process : ~Takes(q)
    BY FinishEffect DEF Offered
<1> SUFFICES ASSUME NEW e \in Event, NEW x \in notified[e] \ notified'[e], Before(x, duration),
                    NEW p \in Process, state[p] = "wait", e \in waits[p], AtMost(ts[p], x)
             PROVE  FALSE
    BY DEF ForgetsStaleBefore, In, AtMost
<1>2. Before(x, Oldest)
    BY <1>1 DEF Kept
<1>3. AtMost(pwt[p], x) /\ pwt[p] # Infinite /\ pwt[p] \in AnyTimestamp /\ x \in AnyTimestamp
    BY <1>1, ExpectedBy
<1>4. PICK q \in Process : state[q] \notin {"wait", "dead"} /\ Before(ts[q], pwt[p])
    BY <1>1, <1>3, Cause
<1>5. ts[q] \in AnyTimestamp /\ duration \in AnyTimestamp
    BY Types DEF TypeOK, AnyTimestamp
<1>6. Before(ts[q], x)
    BY <1>3, <1>4, <1>5, AtMostOrder
<1>7. CASE state[q] = "paused"
  <2>1. AtMost(duration, ts[q])
      BY <1>7 DEF ProcessesPlain, PlainProcess
  <2>2. AtMost(ts[q], x)
      BY <1>3, <1>5, <1>6, AtMostOrder
  <2> QED BY <1>3, <1>5, <2>1, <2>2, AtMostOrder DEF AtMost
<1>8. CASE state[q] # "paused"
  <2> DEFINE S == {ts[r] : r \in In("run") \cup In("ready") \cup In("timed") \cup In("queued")
                                 \cup {r \in In("wait") : all[r]}}
  <2>1. q \in In("run") \cup In("ready") \cup In("timed") \cup In("queued")
      BY <1>4, <1>8 DEF TypeOK, In
  <2>2. ts[q] \in S
      BY <2>1
  <2>3. S \in SUBSET AnyTimestamp
      BY DEF TypeOK, AnyTimestamp, In
  <2>4. Oldest = Earliest(S)
      BY DEF Oldest
  <2> HIDE DEF S
  <2>5. AtMost(Oldest, ts[q]) /\ Oldest \in AnyTimestamp
      BY <2>2, <2>3, <2>4, EarliestIsLeast DEF AtMost
  <2>6. Before(x, ts[q])
      BY <1>2, <1>3, <1>5, <2>5, AtMostOrder
  <2>7. AtMost(ts[q], x)
      BY <1>3, <1>5, <1>6, AtMostOrder
  <2> QED BY <2>6, <2>7 DEF AtMost
<1> QED BY <1>7, <1>8

(* The end of the period is set by sc_start.                                *)
LEMMA DurationKept ==
    ASSUME OoOScheduleAssumption, PlainUse, TypeOK, ProcessesPlain, CallPlain, [Next]_vars, ~Start
    PROVE  duration' = duration
BY PlainKinds, TimersEffect, PredictionsEffect, RelaxEffect, DeliverEffect, DispatchEffect,
   FinishEffect, EnterEffect DEF DispatchSame, Notify, control, vars

(* What has been forgotten of this period is old.                           *)
ForgottenDue == ForgottenOld(duration)

(* A notification of this period that is forgotten is older than            *)
(* everything that counts.                                                  *)
LEMMA ForgottenDueStep ==
    ASSUME OoOScheduleAssumption, PlainUse, TablesTight, TypeOK, TypeOK', PhaseOK, ProcessesPlain,
           CallPlain, Offered, HistoryOK, HistoryOK', ForgottenDue, [Next]_vars
    PROVE  ForgottenDue'
<1>1. CASE Start
  <2>1. starts = 0 /\ hist' = hist
      BY <1>1, StartEffect
  <2>2. \A e \in Event : hist'[e] = {}
      BY <2>1 DEF HistoryOK
  <2> QED BY <2>2 DEF ForgottenDue, ForgottenOld
<1>2. CASE ~Start
  <2>1. duration' = duration
      BY <1>2, DurationKept
  <2>2. PICK t : t = duration
      OBVIOUS
  <2>3. ForgottenOld(t)
      BY <2>2 DEF ForgottenDue
  <2>4. MainEvents = {} /\ MaxStarts <= 1
      BY DEF PlainUse
  <2>5. CASE Finish
    <3>1. ForgetsStaleBefore(t)
        BY <2>2, <2>5, ForgetsStaleDue DEF ForgetsStaleBefore
    <3>2. ForgottenOld(t)'
        BY <2>3, <2>4, <3>1, ForgottenStep
    <3> QED BY <2>1, <2>2, <3>2 DEF ForgottenDue
  <2>6. CASE ~Finish
    <3>1. \A e \in Event : notified[e] \subseteq notified'[e]
      <4>1. CASE notified' = notified
          BY <4>1
      <4>2. ASSUME NEW p \in Process, NEW n \in todo[p], Notify(p, n)
            PROVE  \A e \in Event : notified[e] \subseteq notified'[e]
          BY <4>2 DEF Notify, TypeOK
      <4> QED BY <2>4, <2>6, <4>1, <4>2, HistChange
    <3>2. ForgetsStaleBefore(t)
        BY <3>1 DEF ForgetsStaleBefore
    <3>3. ForgottenOld(t)'
        BY <2>3, <2>4, <3>2, ForgottenStep
    <3> QED BY <2>1, <2>2, <3>3 DEF ForgottenDue
  <2> QED BY <2>5, <2>6
<1> QED BY <1>1, <1>2

(* When nobody runs at the end of a call, all that is left before the end   *)
(* of the period is over.                                                   *)
LEMMA NobodyBefore ==
    ASSUME OoOScheduleAssumption, PlainUse, TablesTight, TypeOK, PhaseOK, ProcessesPlain, Offered, Blocked,
           Finish, In("run") = {}
    PROVE  \A q \in Process : state[q] \in {"wait", "dead"} \/ state[q] = "paused"
<1>1. /\ phase = "dispatch"
      /\ AllGrounded /\ (\A q \in Process : ~Takes(q))
      /\ \A q \in Process : state[q] = "ready" => q \in tried
    BY FinishEffect DEF Offered
<1>2. \A q \in Process : state[q] \notin {"run", "timed", "queued"}
    BY <1>1 DEF In, ProcessesPlain, PlainProcess
<1>3. ASSUME In("ready") # {} PROVE FALSE
  <2> DEFINE S == {ts[q] : q \in In("ready")}
  <2>1. S \in SUBSET FiniteTimestamp /\ S # {}
    <3>1. \A q \in In("ready") : ts[q] \in FiniteTimestamp
        BY DEF In, TypeOK
    <3> QED BY <1>3, <3>1
  <2>2. PICK x \in S : \A y \in S : ~Before(y, x)
      BY <2>1, FirstTimestamp
  <2>3. PICK p \in Process : state[p] = "ready" /\ x = ts[p]
      BY DEF In
  <2>4. \A q \in Process : state[q] = "ready" => AtMost(ts[p], ts[q])
      BY <2>2, <2>3 DEF In, AtMost
  <2> HIDE DEF S
  <2>5. /\ ts[p] \in AnyTimestamp /\ duration \in AnyTimestamp
        /\ \A q \in Process : ts[q] \in AnyTimestamp /\ pwt[q] \in AnyTimestamp
    <3>1. \A q \in Process : ts[q] \in AnyTimestamp /\ pwt[q] \in AnyTimestamp
        BY Types
    <3> QED BY <3>1 DEF TypeOK, AnyTimestamp
  <2>6. Before(ts[p], duration) /\ \E q \in Process \ {p} : Concurrent(q, p)
    <3>1. p \in tried /\ ~\E r \in Process : state[r] = "run"
        BY <1>1, <2>3 DEF In
    <3> QED BY <1>1, <3>1 DEF Blocked
  <2>7. ASSUME NEW r \in Process, state[r] \notin {"wait", "dead"}, Before(ts[r], ts[p]) PROVE FALSE
    <3>1. state[r] \in {"ready", "paused"}
        BY <1>2, <2>7 DEF TypeOK
    <3>2. CASE state[r] = "ready"
        BY <2>4, <2>7, <3>2 DEF AtMost
    <3>3. CASE state[r] = "paused"
      <4>1. AtMost(duration, ts[r])
          BY <3>3 DEF ProcessesPlain, PlainProcess
      <4>2. Before(ts[r], duration)
          BY <2>5, <2>6, <2>7, AtMostOrder
      <4> QED BY <4>1, <4>2 DEF AtMost
    <3> QED BY <3>1, <3>2, <3>3
  <2>8. PICK q \in Process : Concurrent(q, p)
      BY <2>6
  <2>9. CASE state[q] = "wait"
    <3>1. Before(pwt[q], ts[p]) /\ pwt[q] # Infinite
        BY <2>8, <2>9 DEF Concurrent, Before
    <3>2. PICK r \in Process : state[r] \notin {"wait", "dead"} /\ Before(ts[r], pwt[q])
        BY <1>1, <2>9, <3>1, Cause
    <3>3. Before(ts[r], ts[p])
        BY <2>5, <3>1, <3>2, AtMostOrder
    <3> QED BY <2>7, <3>2, <3>3
  <2>10. CASE state[q] # "wait"
    <3>1. state[q] # "dead" /\ Before(ts[q], ts[p])
        BY <1>2, <2>8, <2>10 DEF Concurrent
    <3> QED BY <2>7, <2>10, <3>1
  <2> QED BY <2>9, <2>10
<1> QED BY <1>2, <1>3 DEF In, TypeOK

(* sc_main continues after the last call of the scheduler only.             *)
LEMMA QuietStep ==
    ASSUME OoOScheduleAssumption, PlainUse, TablesTight, TypeOK, PhaseOK, ProcessesPlain, CallPlain,
           Offered, Blocked, ForgottenDue, HistoryOK, StoppedIsQuiet, [Next]_vars
    PROVE  StoppedIsQuiet'
<1>1. CASE UNCHANGED vars
  <2>1. UNCHANGED <<phase, starts, state, ts, waits, hist, duration>>
      BY <1>1 DEF vars, program, control, history
  <2> QED BY <2>1 DEF StoppedIsQuiet, In
<1>2. CASE Finish /\ In("run") = {}
  <2>1. /\ UNCHANGED <<state, ts, waits, hist, duration>> /\ phase = "dispatch"
        /\ AllGrounded /\ (\A q \in Process : ~Takes(q))
      BY <1>2, FinishEffect DEF Offered
  <2>2. \A q \in Process : state[q] \in {"wait", "dead"} \/ state[q] = "paused"
      BY <1>2, NobodyBefore
  <2>3. ASSUME NEW p \in Process, state[p] = "wait", NEW e \in waits[p], NEW x \in hist[e],
               AtMost(ts[p], x), Before(x, duration)
        PROVE  FALSE
    <3>1. e \in Event
        BY Types
    <3>2. CASE x \in notified[e]
      <4>1. AtMost(pwt[p], x) /\ pwt[p] # Infinite /\ pwt[p] \in AnyTimestamp /\ x \in AnyTimestamp
          BY <2>1, <2>3, <3>2, ExpectedBy
      <4>2. PICK q \in Process : state[q] \notin {"wait", "dead"} /\ Before(ts[q], pwt[p])
          BY <2>1, <2>3, <4>1, Cause
      <4>3. AtMost(duration, ts[q])
          BY <2>2, <4>2 DEF ProcessesPlain, PlainProcess
      <4>4. ts[q] \in AnyTimestamp /\ duration \in AnyTimestamp
          BY Types DEF TypeOK, AnyTimestamp
      <4>5. Before(ts[q], duration)
          BY <2>3, <4>1, <4>2, <4>4, AtMostOrder
      <4> QED BY <4>3, <4>5 DEF AtMost
    <3>3. CASE x \notin notified[e]
        BY <2>3, <3>1, <3>3 DEF ForgottenDue, ForgottenOld, In, AtMost
    <3> QED BY <3>2, <3>3
  <2> QED BY <2>1, <2>2, <2>3 DEF StoppedIsQuiet, In, AtMost
<1>3. CASE Finish /\ In("run") # {}
  <2>1. phase' = "idle"
      BY <1>3, FinishEffect
  <2> QED BY <2>1 DEF StoppedIsQuiet
<1>4. CASE (\E q \in Process : \E n \in todo[q] : Notify(q, n)) \/ (\E P : EnterWait(P))
           \/ Timers \/ Predictions \/ Relax \/ Deliver \/ DispatchMethod \/ DispatchThread \/ Start
  <2>1. phase' # "stopped"
      BY <1>4, TimersEffect, PredictionsEffect, RelaxEffect, DeliverEffect, DispatchEffect, StartEffect
      DEF EnterWait, Notify
  <2> QED BY <2>1 DEF StoppedIsQuiet
<1> QED BY <1>1, <1>2, <1>3, <1>4, PlainKinds

-----------------------------------------------------------------------------
(* The inductive invariant.                                                 *)
QuietInvariant ==
    /\ OrderInvariant /\ ProcessesPlain /\ CallPlain
    /\ WokenSure /\ ReadyRight /\ Founded /\ Offered /\ Blocked
    /\ HistoryOK /\ ForgottenDue /\ StoppedIsQuiet

(* At the start nothing is predicted, notified or put back.                 *)
LEMMA QuietInit ==
    ASSUME OoOScheduleAssumption, PlainUse, Init
    PROVE  /\ ProcessesPlain /\ CallPlain /\ WokenSure /\ ReadyRight /\ Founded /\ Offered /\ Blocked
           /\ HistoryOK /\ ForgottenDue /\ StoppedIsQuiet
<1>1. /\ state = [p \in Process |-> "ready"] /\ ts = [p \in Process |-> <<0, 0>>] /\ seg = First
      /\ pwt = [p \in Process |-> Infinite] /\ definer = [p \in Process |-> None] /\ newWaiting = {}
      /\ running = {} /\ phase = "stopped" /\ tried = {} /\ starts = 0 /\ hist = [e \in Event |-> {}]
    BY DEF Init, PlainUse
<1>2. ProcessesPlain
    BY <1>1 DEF ProcessesPlain, PlainProcess
<1>3. CallPlain
    BY <1>1 DEF CallPlain
<1>4. ReadyRight /\ Founded
    BY <1>1 DEF ReadyRight, Founded, Grounded, AtMost, Before
<1>5. WokenSure /\ Offered /\ Blocked
    BY <1>1 DEF WokenSure, Offered, Blocked
<1>6. HistoryOK /\ ForgottenDue /\ StoppedIsQuiet
    BY <1>1 DEF HistoryOK, ForgottenDue, ForgottenOld, StoppedIsQuiet, In
<1> QED BY <1>2, <1>3, <1>4, <1>5, <1>6

(* Every part is kept by every step with the others.                        *)
LEMMA QuietInvariantHolds ==
    ASSUME TablesSound, TablesTight, PlainUse
    PROVE  Spec => []QuietInvariant
<1> DEFINE More == /\ ProcessesPlain /\ CallPlain
                   /\ WokenSure /\ ReadyRight /\ Founded /\ Offered /\ Blocked
                   /\ HistoryOK /\ ForgottenDue /\ StoppedIsQuiet
<1>1. Init => More
    BY QuietInit, OoOScheduleAssumption
<1>2. ASSUME OrderInvariant, OrderInvariant', More, [Next]_vars
      PROVE  More'
  <2>1. /\ TypeOK /\ TypeOK' /\ PhaseOK /\ WaitsOK /\ PredictionOK
      BY <1>2 DEF OrderInvariant
  <2>2. /\ OoOScheduleAssumption /\ TablesSound /\ TablesTight /\ PlainUse /\ MainEvents = {}
      BY OoOScheduleAssumption DEF PlainUse
  <2>3. \A q \in tried : state[q] = "ready"
      BY <1>2 DEF CallPlain, Blocked
  <2>4. ProcessesPlain' /\ CallPlain'
      BY <1>2, <2>1, <2>2, ProcessesPlainStep, CallPlainStep
  <2>5. WokenSure' /\ ReadyRight'
      BY <1>2, <2>1, <2>2, WokenSureStep, ReadyRightStep
  <2>6. Founded' /\ Offered' /\ Blocked'
      BY <1>2, <2>1, <2>2, <2>3, FoundedStep, OfferedStep, BlockedStep
  <2>7. HistoryOK'
      BY <1>2, <2>1, <2>2, HistoryStep
  <2>8. ForgottenDue'
      BY <1>2, <2>1, <2>2, <2>7, ForgottenDueStep
  <2>9. StoppedIsQuiet'
      BY <1>2, <2>1, <2>2, QuietStep
  <2> QED BY <2>4, <2>5, <2>6, <2>7, <2>8, <2>9
<1>3. QuietInvariant <=> OrderInvariant /\ More
    BY DEF QuietInvariant
<1>4. Spec => []OrderInvariant
    BY OrderInvariantHolds DEF PlainUse
<1> HIDE DEF More
<1> QED BY <1>1, <1>2, <1>3, <1>4, PTL DEF Spec

(* Nobody is left behind: when sc_main continues, no process of a plain     *)
(* program is ready or waits for a time, and none that waits for an event   *)
(* has been notified before the end of the period.  The scheduler stops     *)
(* when nothing runs, and nobody counts what it has put back or not yet     *)
(* delivered: a cycle of processes that hold each other back, or a predicted*)
(* time that is too early, would end the period with work undone.           *)
THEOREM StoppedIsQuietHolds ==
    ASSUME TablesSound, TablesTight, PlainUse
    PROVE  Spec => []StoppedIsQuiet
<1>1. QuietInvariant => StoppedIsQuiet
    BY DEF QuietInvariant
<1> QED BY <1>1, QuietInvariantHolds, PTL

(* What is notified for a time in the period is forgotten only when stale.  *)
ForgetsStaleInPeriod == ForgetsStaleBefore(duration)

(* The clean-up of old notifications never forgets one that is due before   *)
(* the end of the period while somebody waits for it:                       *)
(* clean_up_old_event_notifications looks at the processes that run or are  *)
(* ready only, but whoever waits for that long is expected earlier than     *)
(* some of these. Without the restriction to the period this is false (the  *)
(* run ooo_paused).                                                         *)
THEOREM ForgottenInPeriodIsStale ==
    ASSUME TablesSound, TablesTight, PlainUse
    PROVE  Spec => [][ForgetsStaleInPeriod]_vars
<1>1. ASSUME QuietInvariant, [Next]_vars PROVE [ForgetsStaleInPeriod]_vars
  <2>1. TypeOK /\ PlainUse /\ TablesTight /\ ProcessesPlain /\ Offered /\ MainEvents = {}
      BY <1>1 DEF QuietInvariant, OrderInvariant, PlainUse
  <2>2. CASE Finish
    <3>1. ForgetsStaleBefore(duration)
        BY <2>1, <2>2, ForgetsStaleDue, OoOScheduleAssumption
    <3> QED BY <3>1 DEF ForgetsStaleInPeriod
  <2>3. CASE ~Finish
    <3>1. \A e \in Event : notified[e] \subseteq notified'[e]
      <4>1. CASE notified' = notified
          BY <4>1
      <4>2. ASSUME NEW p \in Process, NEW n \in todo[p], Notify(p, n)
            PROVE  \A e \in Event : notified[e] \subseteq notified'[e]
          BY <2>1, <4>2 DEF Notify, TypeOK
      <4> QED BY <1>1, <2>1, <2>3, <4>1, <4>2, HistChange
    <3> QED BY <3>1 DEF ForgetsStaleInPeriod, ForgetsStaleBefore
  <2> QED BY <2>2, <2>3
<1> QED BY <1>1, QuietInvariantHolds, PTL DEF Spec

(* Events of the period are taken in the order of simulated time.           *)
TakenInOrderInPeriod == TakenInOrderBefore(duration)

(* With this the order in which events are taken needs no condition on      *)
(* what is forgotten: in a plain program without timeouts no notification   *)
(* for a time in the period comes to light after the process that should    *)
(* have taken it went on.                                                   *)
THEOREM TakenInOrderInPeriodHolds ==
    ASSUME TablesSound, TablesTight, PlainUse, TimesAlone
    PROVE  Spec => []TakenInOrderInPeriod
<1> DEFINE Taken == TimedAlone /\ TakenSilent /\ TakenInOrderInPeriod
<1>1. ASSUME Init PROVE Taken
  <2>1. state = [p \in Process |-> "ready"] /\ last = [p \in Process |-> {}]
      BY <1>1 DEF Init, PlainUse
  <2> QED BY <2>1 DEF TimedAlone, TakenSilent, TakenInOrderInPeriod, TakenInOrderBefore, In
<1>2. ASSUME QuietInvariant, QuietInvariant', Taken, [Next]_vars
      PROVE  Taken'
  <2>1. /\ TypeOK /\ TypeOK' /\ PhaseOK /\ WaitsOK /\ PredictionOK /\ ProcessesPlain /\ CallPlain
        /\ HistoryOK /\ ForgottenDue /\ MainEvents = {}
        /\ hist \in [Event -> SUBSET FiniteTimestamp]
      BY <1>2 DEF QuietInvariant, OrderInvariant, PlainUse, HistoryOK
  <2>2. TimedAlone' /\ TakenSilent'
      BY <1>2, <2>1, TimedAloneStep, TakenSilentStep, OoOScheduleAssumption
  <2>3. CASE Start
    <3>1. last' = last /\ hist' = hist /\ \A e \in Event : hist[e] = {}
        BY <2>1, <2>3, StartEffect, OoOScheduleAssumption DEF Start, HistoryOK, history
    <3>2. \A p \in Process : \A r \in last[p] : r[1] \in Event
        BY <1>2 DEF TakenSilent
    <3> QED BY <2>2, <3>1, <3>2 DEF TakenInOrderInPeriod, TakenInOrderBefore
  <2>4. CASE ~Start
    <3>1. PICK t : t = duration
        OBVIOUS
    <3>2. ForgottenOld(t) /\ TakenInOrderBefore(t)
        BY <1>2, <2>1, <3>1 DEF ForgottenDue, TakenInOrderInPeriod
    <3>3. TakenInOrderBefore(t)'
        BY <1>2, <2>1, <3>2, TakenInOrderStep, OoOScheduleAssumption
    <3>4. duration' = duration
        BY <1>2, <2>1, <2>4, DurationKept, OoOScheduleAssumption
    <3> QED BY <2>2, <3>1, <3>3, <3>4 DEF TakenInOrderInPeriod
  <2> QED BY <2>3, <2>4
<1>3. Taken => TakenInOrderInPeriod
    OBVIOUS
<1> HIDE DEF Taken
<1> QED BY <1>1, <1>2, <1>3, QuietInvariantHolds, PTL DEF Spec

=============================================================================
