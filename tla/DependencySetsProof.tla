------------------------- MODULE DependencySetsProof -------------------------
(***************************************************************************)
(* The dependency sets are complete for every set of processes, segments    *)
(* and tables, provided that no thread waits from the start.                *)
(*                                                                          *)
(* DependentComplete alone is not inductive: that a method which returns is *)
(* already known to the waiting threads that may notify it rests on what    *)
(* those threads did when they suspended (ThreadsKnow), that a thread which *)
(* suspends a second time in a segment finds the methods that may notify it *)
(* rests on what it did the first time (MethodsKept).                       *)
(*                                                                          *)
(* In the second part, the linked lists of sc_runnable are shown to         *)
(* implement the ready queue.                                               *)
(***************************************************************************)
EXTENDS DependencySets, Integers, Sequences, FiniteSetTheorems, WellFoundedInduction, TLAPS

(* Every pair, whether anybody waits or not.                                *)
ContingentPairs ==
    \A p, q \in Process : May(seg, q, p) => q \in contingent[p][seg[p]]

(* What was found out about the methods when a segment was first checked    *)
(* stays.                                                                   *)
MethodsKept ==
    \A t \in Thread, m \in Method : \A s \in checked[t] :
        /\ <<First[m], s>> \in Notifies => m \in contingent[t][s]
        /\ <<s, First[m]>> \in Clashes => t \in conflict[m][First[m]]

MethodsStay == \A m \in Method : seg[m] = First[m]

(* A thread that waits knows everybody it may notify.                       *)
ThreadsKnow ==
    \A q \in Thread \cap waiting, p \in Process :
        May(seg, q, p) => p \in dependent[q][seg[q]]

(* A method knows everybody that waits and that it may notify.              *)
MethodsKnow ==
    \A q \in Method, p \in waiting :
        May(seg, q, p) => p \in dependent[q][seg[q]]

IInv ==
    /\ TypeOK
    /\ MethodsStay
    /\ MethodsKept
    /\ ContingentPairs
    /\ ConflictComplete
    /\ ThreadsKnow
    /\ MethodsKnow

(* A step of update_dependency_set changes the segment of t only.           *)
LEMMA SegAfter ==
    ASSUME TypeOK, NEW t \in Thread, NEW s \in Segment
    PROVE  /\ [seg EXCEPT ![t] = s] \in [Process -> Segment]
           /\ [seg EXCEPT ![t] = s][t] = s
           /\ \A p \in Process : p # t => [seg EXCEPT ![t] = s][p] = seg[p]
BY DEF TypeOK, Process

-----------------------------------------------------------------------------
(* The three sets after an update, point by point.                          *)

LEMMA ContingentPoint ==
    ASSUME TypeOK, NEW t \in Thread, NEW g \in [Process -> Segment],
           NEW p \in Process, NEW s \in Segment
    PROVE  ContingentAfter(t, g)[p][s] = contingent[p][s] \cup
              (IF s # g[p] THEN {}
               ELSE IF p = t THEN {q \in Process : May(g, q, t) /\
                                     (q \in Method => g[t] \notin checked[t])}
               ELSE IF May(g, t, p) THEN {t} ELSE {})
BY DEF ContingentAfter

LEMMA ConflictPoint ==
    ASSUME TypeOK, NEW t \in Thread, NEW g \in [Process -> Segment],
           NEW p \in Process, NEW s \in Segment
    PROVE  ConflictAfter(t, g)[p][s] = conflict[p][s] \cup
              (IF s # g[p] THEN {}
               ELSE IF p = t THEN {q \in Process : Conflict(g, q, t)}
               ELSE IF Conflict(g, t, p) /\ (p \in Method => g[t] \notin checked[t])
                    THEN {t} ELSE {})
BY DEF ConflictAfter

LEMMA DependentPoint ==
    ASSUME TypeOK, NEW t \in Thread, NEW g \in [Process -> Segment],
           NEW p \in Process, NEW s \in Segment
    PROVE  DependentAfter(t, g)[p][s] =
              IF p = t THEN IF s = g[t] THEN {q \in Process : May(g, t, q)} ELSE {}
              ELSE IF s = g[p] /\ (IF p \in Method /\ g[t] \in checked[t]
                                   THEN p \in contingent[t][g[t]] ELSE May(g, p, t))
                   THEN dependent[p][s] \cup {t}
              ELSE dependent[p][s]
BY DEF DependentAfter

(* Who is in the dependent set of q afterwards.                             *)
LEMMA DependentMember ==
    ASSUME TypeOK, NEW t \in Thread, NEW g \in [Process -> Segment], NEW q \in Process
    PROVE  /\ q = t => \A p \in Process : May(g, q, p) =>
                          p \in DependentAfter(t, g)[q][g[q]]
           /\ q # t => \A p \in dependent[q][g[q]] : p \in DependentAfter(t, g)[q][g[q]]
           /\ q # t /\ May(g, q, t) /\ ~(q \in Method /\ g[t] \in checked[t])
                 => t \in DependentAfter(t, g)[q][g[q]]
           /\ q # t /\ q \in Method /\ g[t] \in checked[t] /\ q \in contingent[t][g[t]]
                 => t \in DependentAfter(t, g)[q][g[q]]
<1>1. g[q] \in Segment
  OBVIOUS
<1>2. CASE q = t
  <2>1. DependentAfter(t, g)[q][g[q]] = {p \in Process : May(g, t, p)}
    BY <1>1, <1>2, DependentPoint
  <2>2. QED
    BY <1>2, <2>1
<1>3. CASE q # t
  <2>1. CASE q \in Method /\ g[t] \in checked[t]
    <3>1. DependentAfter(t, g)[q][g[q]] =
             IF q \in contingent[t][g[t]] THEN dependent[q][g[q]] \cup {t}
             ELSE dependent[q][g[q]]
      BY <1>1, <1>3, <2>1, DependentPoint
    <3>2. QED
      BY <1>3, <2>1, <3>1
  <2>2. CASE ~(q \in Method /\ g[t] \in checked[t])
    <3>1. DependentAfter(t, g)[q][g[q]] =
             IF May(g, q, t) THEN dependent[q][g[q]] \cup {t} ELSE dependent[q][g[q]]
      BY <1>1, <1>3, <2>2 DEF DependentAfter, May
    <3>2. QED
      BY <1>3, <2>2, <3>1
  <2>3. QED
    BY <2>1, <2>2
<1>4. QED
  BY <1>2, <1>3

LEMMA UpdateType ==
    ASSUME TypeOK, NEW t \in Thread, NEW g \in [Process -> Segment]
    PROVE  /\ ContingentAfter(t, g) \in SetsBySegment
           /\ DependentAfter(t, g) \in SetsBySegment
           /\ ConflictAfter(t, g) \in SetsBySegment
<1>0. t \in Process
  BY DEF Process
<1>1. ContingentAfter(t, g) \in SetsBySegment
  BY <1>0 DEF ContingentAfter, SetsBySegment, TypeOK
<1>2. DependentAfter(t, g) \in SetsBySegment
  BY <1>0 DEF DependentAfter, SetsBySegment, TypeOK
<1>3. ConflictAfter(t, g) \in SetsBySegment
  BY <1>0 DEF ConflictAfter, SetsBySegment, TypeOK
<1>4. QED
  BY <1>1, <1>2, <1>3

-----------------------------------------------------------------------------
LEMMA InitInv ==
    ASSUME Init, Late \cap Thread = {}
    PROVE  IInv
<1>0. First \in [Process -> Segment] /\ Late \subseteq Process
  BY DependencySetsAssumption
<1>1. TypeOK
  <2>1. contingent \in SetsBySegment
    BY <1>0 DEF Init, SetsBySegment
  <2>2. dependent \in SetsBySegment
    BY <1>0 DEF Init, SetsBySegment
  <2>3. conflict \in SetsBySegment
    BY <1>0 DEF Init, SetsBySegment
  <2>4. QED
    BY <1>0, <2>1, <2>2, <2>3 DEF Init, TypeOK, Process
<1>2. MethodsStay
  BY DEF Init, MethodsStay
<1>3. ContingentPairs
  BY <1>0 DEF Init, ContingentPairs
<1>4. ConflictComplete
  BY <1>0 DEF Init, ConflictComplete
<1>5. MethodsKept
  <2> SUFFICES ASSUME NEW t \in Thread, NEW m \in Method, NEW s \in checked[t]
               PROVE  /\ <<First[m], s>> \in Notifies => m \in contingent[t][s]
                      /\ <<s, First[m]>> \in Clashes => t \in conflict[m][First[m]]
    BY DEF MethodsKept
  <2>1. s = First[t] /\ t \in Process /\ m \in Process
    BY DEF Init, Process
  <2>2. First[t] \in Segment /\ First[m] \in Segment
    BY <1>0, <2>1
  <2>3. seg[t] = First[t] /\ seg[m] = First[m]
    BY DEF Init
  <2>4. <<First[m], s>> \in Notifies => m \in contingent[t][s]
    BY <1>3, <2>1, <2>2, <2>3 DEF ContingentPairs, May
  <2>5. <<s, First[m]>> \in Clashes => t \in conflict[m][First[m]]
    BY <1>4, <2>1, <2>2, <2>3 DEF ConflictComplete, Conflict
  <2>6. QED
    BY <2>4, <2>5
<1>6. ThreadsKnow
  BY DEF Init, ThreadsKnow
<1>7. MethodsKnow
  BY <1>0 DEF Init, MethodsKnow, Process
<1>8. QED
  BY <1>1, <1>2, <1>3, <1>4, <1>5, <1>6, <1>7 DEF IInv

(* wait() of a thread.                                                      *)
LEMMA SuspendInv ==
    ASSUME IInv, NEW t \in Thread, NEW s \in Segment, NEW timed \in BOOLEAN,
           Suspend(t, s, timed)
    PROVE  IInv'
<1> DEFINE g == [seg EXCEPT ![t] = s]
<1>0. TypeOK /\ t \in Process /\ t \notin Method
  BY DependencySetsAssumption DEF IInv, Process
<1>1. /\ g \in [Process -> Segment]
      /\ g[t] = s
      /\ \A p \in Process : p # t => g[p] = seg[p]
  BY <1>0, SegAfter
<1>2. /\ seg' = g
      /\ contingent' = ContingentAfter(t, g)
      /\ dependent' = DependentAfter(t, g)
      /\ conflict' = ConflictAfter(t, g)
      /\ checked' = [checked EXCEPT ![t] = @ \cup {s}]
      /\ waiting' \subseteq waiting \cup {t}
  BY DEF Suspend
<1> HIDE DEF g
<1>3. TypeOK'
  <2>1. contingent' \in SetsBySegment /\ dependent' \in SetsBySegment
           /\ conflict' \in SetsBySegment
    BY <1>0, <1>1, <1>2, UpdateType
  <2>2. checked' \in [Thread -> SUBSET Segment]
           /\ \A u \in Thread : seg'[u] \in checked'[u]
    BY <1>0, <1>1, <1>2 DEF TypeOK, Process
  <2>3. QED
    BY <1>0, <1>1, <1>2, <2>1, <2>2 DEF TypeOK
<1>4. MethodsStay'
  BY <1>0, <1>1, <1>2 DEF IInv, MethodsStay, Process
<1>5. ContingentPairs'
  <2> SUFFICES ASSUME NEW p \in Process, NEW q \in Process, May(g, q, p)
               PROVE  q \in contingent'[p][g[p]]
    BY <1>2 DEF ContingentPairs, May
  <2>0. g[p] \in Segment
    BY <1>1
  <2>1. CASE p = t /\ (q \in Method => s \notin checked[t])
    BY <1>0, <1>1, <1>2, <2>0, <2>1, ContingentPoint
  <2>2. CASE p = t /\ q \in Method /\ s \in checked[t]
    <3>1. g[q] = First[q]
      BY <1>0, <1>1, <2>2 DEF IInv, MethodsStay
    <3>2. q \in contingent[t][s]
      BY <1>1, <2>2, <3>1 DEF IInv, MethodsKept, May
    <3>3. QED
      BY <1>0, <1>1, <1>2, <2>0, <2>2, <3>2, ContingentPoint
  <2>3. CASE p # t /\ q = t
    BY <1>0, <1>1, <1>2, <2>0, <2>3, ContingentPoint
  <2>4. CASE p # t /\ q # t
    <3>1. g[p] = seg[p] /\ g[q] = seg[q]
      BY <1>1, <2>4
    <3>2. q \in contingent[p][g[p]]
      BY <3>1 DEF IInv, ContingentPairs, May
    <3>3. QED
      BY <1>0, <1>1, <1>2, <2>0, <3>2, ContingentPoint
  <2>5. QED
    BY <2>1, <2>2, <2>3, <2>4
<1>6. ConflictComplete'
  <2> SUFFICES ASSUME NEW p \in Process, NEW q \in Process, Conflict(g, q, p)
               PROVE  q \in conflict'[p][g[p]]
    BY <1>2 DEF ConflictComplete, Conflict
  <2>0. g[p] \in Segment
    BY <1>1
  <2>1. CASE p = t
    BY <1>0, <1>1, <1>2, <2>0, <2>1, ConflictPoint
  <2>2. CASE p # t /\ q = t /\ (p \in Method => s \notin checked[t])
    BY <1>0, <1>1, <1>2, <2>0, <2>2, ConflictPoint
  <2>3. CASE p # t /\ q = t /\ p \in Method /\ s \in checked[t]
    <3>1. g[p] = First[p]
      BY <1>0, <1>1, <2>3 DEF IInv, MethodsStay
    <3>2. t \in conflict[p][g[p]]
      BY <1>1, <2>3, <3>1 DEF IInv, MethodsKept, Conflict
    <3>3. QED
      BY <1>0, <1>1, <1>2, <2>0, <2>3, <3>2, ConflictPoint
  <2>4. CASE p # t /\ q # t
    <3>1. g[p] = seg[p] /\ g[q] = seg[q]
      BY <1>1, <2>4
    <3>2. q \in conflict[p][g[p]]
      BY <3>1 DEF IInv, ConflictComplete, Conflict
    <3>3. QED
      BY <1>0, <1>1, <1>2, <2>0, <3>2, ConflictPoint
  <2>5. QED
    BY <2>1, <2>2, <2>3, <2>4
<1>7. MethodsKept'
  <2> SUFFICES ASSUME NEW u \in Thread, NEW m \in Method, NEW x \in checked'[u]
               PROVE  /\ <<First[m], x>> \in Notifies => m \in contingent'[u][x]
                      /\ <<x, First[m]>> \in Clashes => u \in conflict'[m][First[m]]
    BY DEF MethodsKept
  <2>0. /\ u \in Process /\ m \in Process /\ x \in Segment /\ First[m] \in Segment
        /\ g[m] = First[m]
    BY <1>0, <1>1, <1>3, DependencySetsAssumption DEF TypeOK, Process, IInv, MethodsStay
  <2>1. CASE x \in checked[u]
    <3>1. /\ <<First[m], x>> \in Notifies => m \in contingent[u][x]
          /\ <<x, First[m]>> \in Clashes => u \in conflict[m][First[m]]
      BY <2>1 DEF IInv, MethodsKept
    <3>2. m \in contingent[u][x] => m \in contingent'[u][x]
      BY <1>0, <1>1, <1>2, <2>0, ContingentPoint
    <3>3. u \in conflict[m][First[m]] => u \in conflict'[m][First[m]]
      BY <1>0, <1>1, <1>2, <2>0, ConflictPoint
    <3>4. QED
      BY <3>1, <3>2, <3>3
  <2>2. CASE x \notin checked[u]
    <3>1. u = t /\ x = s
      BY <1>0, <1>2, <2>2 DEF TypeOK
    <3>2. <<First[m], x>> \in Notifies => m \in contingent'[u][x]
      BY <1>1, <1>2, <1>5, <2>0, <3>1 DEF ContingentPairs, May
    <3>3. <<x, First[m]>> \in Clashes => u \in conflict'[m][First[m]]
      BY <1>1, <1>2, <1>6, <2>0, <3>1 DEF ConflictComplete, Conflict
    <3>4. QED
      BY <3>2, <3>3
  <2>3. QED
    BY <2>1, <2>2
<1>8. ThreadsKnow'
  <2> SUFFICES ASSUME NEW q \in Thread, q \in waiting', NEW p \in Process, May(g, q, p)
               PROVE  p \in dependent'[q][g[q]]
    BY <1>2 DEF ThreadsKnow, May
  <2>0. q \in Process /\ g[q] \in Segment /\ q \notin Method
    BY <1>1, DependencySetsAssumption DEF Process
  <2>1. CASE q = t
    BY <1>0, <1>1, <1>2, <2>0, <2>1, DependentMember
  <2>2. CASE q # t /\ p = t
    BY <1>0, <1>1, <1>2, <2>0, <2>2, DependentMember
  <2>3. CASE q # t /\ p # t
    <3>1. g[p] = seg[p] /\ g[q] = seg[q] /\ q \in waiting
      BY <1>1, <1>2, <2>0, <2>3
    <3>2. p \in dependent[q][g[q]]
      BY <3>1 DEF IInv, ThreadsKnow, May
    <3>3. QED
      BY <1>0, <1>1, <1>2, <2>0, <3>2, <2>3, DependentMember
  <2>4. QED
    BY <2>1, <2>2, <2>3
<1>9. MethodsKnow'
  <2> SUFFICES ASSUME NEW q \in Method, NEW p \in waiting', May(g, q, p)
               PROVE  p \in dependent'[q][g[q]]
    BY <1>2 DEF MethodsKnow, May
  <2>0. /\ q \in Process /\ p \in Process /\ q # t
        /\ g[q] \in Segment /\ g[q] = First[q] /\ g[q] = seg[q]
    BY <1>0, <1>1, <1>3 DEF Process, IInv, MethodsStay, TypeOK
  <2>1. CASE p = t /\ s \in checked[t]
    <3>1. q \in contingent[t][g[t]]
      BY <1>1, <2>0, <2>1 DEF IInv, MethodsKept, May
    <3>2. QED
      BY <1>0, <1>1, <1>2, <2>0, <2>1, <3>1, DependentMember
  <2>2. CASE p = t /\ s \notin checked[t]
    BY <1>0, <1>1, <1>2, <2>0, <2>2, DependentMember
  <2>3. CASE p # t
    <3>1. g[p] = seg[p] /\ p \in waiting
      BY <1>1, <1>2, <2>0, <2>3
    <3>2. p \in dependent[q][g[q]]
      BY <2>0, <3>1 DEF IInv, MethodsKnow, May
    <3>3. QED
      BY <1>0, <1>1, <1>2, <2>0, <3>2, DependentMember
  <2>4. QED
    BY <2>1, <2>2, <2>3
<1>10. QED
  BY <1>3, <1>4, <1>5, <1>6, <1>7, <1>8, <1>9 DEF IInv

(* What Return and PushRunnable leave alone, and the type of what they set. *)
LEMMA OnlyDependent ==
    ASSUME IInv, UNCHANGED <<seg, checked, contingent, conflict>>,
           waiting' \subseteq Process, dependent' \in SetsBySegment
    PROVE  TypeOK' /\ MethodsStay' /\ MethodsKept' /\ ContingentPairs'
              /\ ConflictComplete'
<1>1. TypeOK'
  BY DEF IInv, TypeOK
<1>2. MethodsStay' /\ MethodsKept'
  BY DEF IInv, MethodsStay, MethodsKept
<1>3. ContingentPairs' /\ ConflictComplete'
  BY DEF IInv, ContingentPairs, ConflictComplete, May, Conflict
<1>4. QED
  BY <1>1, <1>2, <1>3

(* A method returns to its invoker.                                         *)
LEMMA ReturnInv ==
    ASSUME IInv, NEW m \in Method, Return(m)
    PROVE  IInv'
<1>0. /\ m \in Process /\ TypeOK /\ waiting' = waiting \cup {m}
      /\ UNCHANGED <<seg, checked, contingent, conflict>>
      /\ Thread \subseteq Process /\ Method \subseteq Process
  BY DEF IInv, Process, Return
<1>1. \A q \in Process, s \in Segment :
         dependent'[q][s] = IF q \in Method \cap contingent[m][seg[m]]
                            THEN dependent[q][s] \cup {m} ELSE dependent[q][s]
  BY DEF Return
<1>2. dependent' \in SetsBySegment
  BY <1>0 DEF Return, TypeOK, SetsBySegment
<1>3. waiting' \subseteq Process
  BY <1>0 DEF TypeOK
<1>4. ThreadsKnow'
  <2> SUFFICES ASSUME NEW q \in Thread, q \in waiting', NEW p \in Process, May(seg, q, p)
               PROVE  p \in dependent'[q][seg[q]]
    BY <1>0 DEF ThreadsKnow, May
  <2>1. q \in waiting /\ q \in Process /\ seg[q] \in Segment
    BY <1>0, DependencySetsAssumption DEF TypeOK
  <2>2. p \in dependent[q][seg[q]]
    BY <2>1 DEF IInv, ThreadsKnow
  <2>3. QED
    BY <1>1, <2>1, <2>2
<1>5. MethodsKnow'
  <2> SUFFICES ASSUME NEW q \in Method, NEW p \in waiting', May(seg, q, p)
               PROVE  p \in dependent'[q][seg[q]]
    BY <1>0 DEF MethodsKnow, May
  <2>1. q \in Process /\ seg[q] \in Segment
    BY <1>0 DEF TypeOK
  <2>2. CASE p = m
    <3>1. q \in contingent[m][seg[m]]
      BY <1>0, <2>1, <2>2 DEF IInv, ContingentPairs
    <3>2. QED
      BY <1>1, <2>1, <2>2, <3>1
  <2>3. CASE p # m
    <3>1. p \in dependent[q][seg[q]]
      BY <1>0, <2>3 DEF IInv, MethodsKnow
    <3>2. QED
      BY <1>1, <2>1, <3>1
  <2>4. QED
    BY <2>2, <2>3
<1>6. QED
  BY <1>0, <1>2, <1>3, <1>4, <1>5, OnlyDependent DEF IInv

(* A process becomes runnable.                                              *)
LEMMA PushRunnableInv ==
    ASSUME IInv, NEW r \in Process, PushRunnable(r)
    PROVE  IInv'
<1>0. /\ TypeOK /\ waiting' = waiting \ {r}
      /\ UNCHANGED <<seg, checked, contingent, conflict>>
      /\ Thread \subseteq Process /\ Method \subseteq Process
  BY DEF IInv, Process, PushRunnable
<1>1. \A q \in Process, s \in Segment :
         dependent'[q][s] = IF q \in Method \cap contingent[r][seg[r]]
                            THEN dependent[q][s] \ {r} ELSE dependent[q][s]
  BY DEF PushRunnable
<1>2. dependent' \in SetsBySegment
  BY <1>0 DEF PushRunnable, TypeOK, SetsBySegment
<1>3. waiting' \subseteq Process
  BY <1>0 DEF TypeOK
<1>4. ThreadsKnow'
  <2> SUFFICES ASSUME NEW q \in Thread, q \in waiting', NEW p \in Process, May(seg, q, p)
               PROVE  p \in dependent'[q][seg[q]]
    BY <1>0 DEF ThreadsKnow, May
  <2>1. q \in waiting /\ q \in Process /\ seg[q] \in Segment /\ q \notin Method
    BY <1>0, DependencySetsAssumption DEF TypeOK
  <2>2. p \in dependent[q][seg[q]]
    BY <2>1 DEF IInv, ThreadsKnow
  <2>3. QED
    BY <1>1, <2>1, <2>2
<1>5. MethodsKnow'
  <2> SUFFICES ASSUME NEW q \in Method, NEW p \in waiting', May(seg, q, p)
               PROVE  p \in dependent'[q][seg[q]]
    BY <1>0 DEF MethodsKnow, May
  <2>1. q \in Process /\ seg[q] \in Segment /\ p # r /\ p \in waiting
    BY <1>0 DEF TypeOK
  <2>2. p \in dependent[q][seg[q]]
    BY <2>1 DEF IInv, MethodsKnow
  <2>3. QED
    BY <1>1, <2>1, <2>2
<1>6. QED
  BY <1>0, <1>2, <1>3, <1>4, <1>5, OnlyDependent DEF IInv

LEMMA StepInv ==
    ASSUME IInv, [Next]_vars
    PROVE  IInv'
<1>1. CASE UNCHANGED vars
  BY <1>1 DEF vars, IInv, TypeOK, MethodsStay, MethodsKept, ContingentPairs,
              ConflictComplete, ThreadsKnow, MethodsKnow, May, Conflict
<1>2. CASE Next
  BY <1>2, SuspendInv, ReturnInv, PushRunnableInv DEF Next
<1>3. QED
  BY <1>1, <1>2

-----------------------------------------------------------------------------
(* The sets are well formed and every thread has checked its segment.       *)
THEOREM TypeCorrect ==
    ASSUME Late \cap Thread = {}
    PROVE  Spec => []TypeOK
<1>1. Init => IInv
  BY InitInv
<1>2. IInv /\ [Next]_vars => IInv'
  BY StepInv
<1>3. IInv => TypeOK
  BY DEF IInv
<1>4. QED
  BY <1>1, <1>2, <1>3, PTL DEF Spec

(* The prediction at the start of a wait misses nobody, for every table.    *)
THEOREM ContingentHolds ==
    ASSUME Late \cap Thread = {}
    PROVE  Spec => []ContingentComplete
<1>1. Init => IInv
  BY InitInv
<1>2. IInv /\ [Next]_vars => IInv'
  BY StepInv
<1>3. IInv => ContingentComplete
  BY DEF IInv, ContingentPairs, ContingentComplete, TypeOK
<1>4. QED
  BY <1>1, <1>2, <1>3, PTL DEF Spec

(* Waiting processes hand their times on to all waiting processes they may  *)
(* notify, for every table, unless a thread waits from the start.           *)
THEOREM DependentHolds ==
    ASSUME Late \cap Thread = {}
    PROVE  Spec => []DependentComplete
<1>1. Init => IInv
  BY InitInv
<1>2. IInv /\ [Next]_vars => IInv'
  BY StepInv
<1>3. IInv => DependentComplete
  BY DEF IInv, ThreadsKnow, MethodsKnow, DependentComplete, TypeOK, Process
<1>4. QED
  BY <1>1, <1>2, <1>3, PTL DEF Spec

(* The conflict check looks at everybody it has to look at.                 *)
THEOREM ConflictHolds ==
    ASSUME Late \cap Thread = {}
    PROVE  Spec => []ConflictComplete
<1>1. Init => IInv
  BY InitInv
<1>2. IInv /\ [Next]_vars => IInv'
  BY StepInv
<1>3. IInv => ConflictComplete
  BY DEF IInv
<1>4. QED
  BY <1>1, <1>2, <1>3, PTL DEF Spec

(* Unless a thread waits from the start, the caches are complete for every  *)
(* program and every pair of tables.                                        *)
THEOREM TablesCompleteHolds ==
    ASSUME Late \cap Thread = {}
    PROVE  Spec => []TablesComplete
<1>1. TypeOK /\ ContingentComplete /\ DependentComplete /\ ConflictComplete => TablesComplete
  BY DEF TablesComplete
<1> QED
  BY <1>1, TypeCorrect, ContingentHolds, DependentHolds, ConflictHolds, PTL

-----------------------------------------------------------------------------
(* The ready queue of sc_runnable: the linked lists, whose pointers the     *)
(* processes share, are two sequences.  The proof follows the pointers      *)
(* from the two heads: they come by the processes of each list in turn and  *)
(* reach its end (Linked), a process is queued exactly if its pointer is    *)
(* set (Encodes), and each operation on the pointers is one on sequences.   *)
CONSTANTS Listed, Lazy, Early, Null, End, PushHead
VARIABLES next, pop, tail, unpushed

Lists == INSTANCE RunnableLists WITH Process <- Listed

NatLess == OpToRel(<, Nat)

LEMMA LeastNumber ==
    ASSUME NEW S \in SUBSET Nat, S # {}
    PROVE  \E k \in S : \A j \in S : ~(j < k)
<1>1. IsWellFoundedOn(NatLess, Nat)
    BY NatLessThanWellFounded DEF NatLess
<1>2. PICK k \in S : \A j \in S : <<j, k>> \notin NatLess
    BY <1>1, WFMin
<1> QED BY <1>2 DEF NatLess, OpToRel


(* How many numbers an interval has.                                        *)
LEMMA IntervalSize ==
    ASSUME NEW n \in Nat
    PROVE  Cardinality(1 .. n) = n /\ Cardinality(0 .. (n - 1)) = n
<1>1. \A a, b \in Int : Cardinality(a .. b) = IF a > b THEN 0 ELSE b - a + 1
    BY FS_Interval
<1> QED BY <1>1

(* Where element i of s points to; element 0 is the head of the list.       *)
Link(s, i) == IF i < Len(s) THEN s[i + 1] ELSE End

(* The list that begins at n is s.                                          *)
Linked(nx, n, s) ==
    /\ s \in Seq(Listed)
    /\ n = Link(s, 0)
    /\ \A i \in 1 .. Len(s) : nx[s[i]] = Link(s, i)
    /\ \A i, j \in 1 .. Len(s) : s[i] = s[j] => i = j

(* FiniteSets is the same in an instance.                                   *)
LEMMA SameSize == \A S : Lists!Cardinality(S) = Cardinality(S)
BY DEF Lists!Cardinality, Cardinality

(* A pointer leads to a process unless it is the last one.                  *)
LEMMA LinkType ==
    ASSUME NEW s \in Seq(Listed), NEW i \in Nat
    PROVE  /\ Link(s, i) \in Listed \cup {End}
           /\ Lists!ListAssumption => (Link(s, i) \in Listed <=> i < Len(s))
BY DEF Link, Lists!ListAssumption

(* Following the pointers gives back the list, within as many steps as      *)
(* there are processes.                                                     *)
LEMMA ChainIs ==
    ASSUME Lists!ListAssumption, IsFiniteSet(Listed),
           NEW nx, NEW n, NEW s, Linked(nx, n, s)
    PROVE  Lists!Follow(nx, n) = s
PROOF
<1> DEFINE N == Lists!Cardinality(Listed)
           Step(F) == [k \in 0 .. N |->
               IF k = 0 THEN n ELSE IF F[k - 1] \in Listed THEN nx[F[k - 1]] ELSE End]
           W == [k \in 0 .. N |-> Link(s, k)]
<1>s. s \in Seq(Listed) /\ Len(s) \in Nat
    BY DEF Linked
<1>N. N \in Nat
    BY FS_CardinalityType, SameSize
<1>1. Len(s) <= N
    <2>1. s \in Injection(1 .. Len(s), Listed)
        BY <1>s DEF Linked, Injection, IsInjective
    <2>2. Cardinality(1 .. Len(s)) <= N
        BY <2>1, FS_Injection, SameSize
    <2>3. Cardinality(1 .. Len(s)) = Len(s)
        BY <1>s, IntervalSize
    <2> QED BY <2>2, <2>3
<1>2. \A k \in 0 .. N : k > 0 =>
          Link(s, k) = IF Link(s, k - 1) \in Listed THEN nx[Link(s, k - 1)] ELSE End
    <2> SUFFICES ASSUME NEW k \in 1 .. N
                 PROVE  Link(s, k) = IF Link(s, k - 1) \in Listed THEN nx[Link(s, k - 1)]
                                                                  ELSE End
        BY <1>N
    <2>1. CASE k <= Len(s)
        BY <2>1, <1>N, <1>s DEF Link, Linked
    <2>2. CASE k > Len(s)
        BY <2>2, <1>N, <1>s DEF Link, Linked, Lists!ListAssumption
    <2> QED BY <2>1, <2>2, <1>N, <1>s
<1>3. n = Link(s, 0)
    BY DEF Linked
<1>4. W = Step(W)
    BY <1>2, <1>3, <1>N
<1>5. ASSUME NEW F, F = Step(F)
      PROVE  F = W
    <2>1. \A k \in 0 .. N : F[k] = Link(s, k)
        <3> DEFINE Bad == {k \in 0 .. N : F[k] # Link(s, k)}
        <3> SUFFICES ASSUME Bad # {} PROVE FALSE
            OBVIOUS
        <3>1. PICK k \in Bad : \A i \in Bad : ~(i < k)
            <4>1. Bad \in SUBSET Nat
                BY <1>N
            <4> HIDE DEF Bad
            <4> QED BY <4>1, LeastNumber
        <3>2. k # 0
            BY <3>1, <1>5, <1>3
        <3>3. k - 1 \in 0 .. N /\ k - 1 \notin Bad /\ k \in 0 .. N
            BY <3>1, <3>2, <1>N
        <3>4. F[k - 1] = Link(s, k - 1)
            BY <3>3
        <3>5. F[k] = IF F[k - 1] \in Listed THEN nx[F[k - 1]] ELSE End
            BY <3>3, <1>5, <3>2
        <3> QED BY <3>1, <3>2, <3>3, <3>4, <3>5, <1>2, <1>N
    <2>2. F = [k \in 0 .. N |-> F[k]]
        BY <1>5
    <2> QED BY <2>1, <2>2
<1>6. (CHOOSE F : F = Step(F)) = W
    BY <1>4, <1>5
<1>7. {k \in DOMAIN W : W[k] \in Listed} = 0 .. (Len(s) - 1)
    BY <1>1, <1>N, <1>s, LinkType
<1>8. Lists!Cardinality({k \in DOMAIN W : W[k] \in Listed}) = Len(s)
    BY <1>7, <1>s, IntervalSize, SameSize
<1>9. [k \in 1 .. Len(s) |-> W[k - 1]] = s
    BY <1>1, <1>N, <1>s DEF Link
<1>10. Lists!Follow(nx, n) =
          LET At == CHOOSE F : F = Step(F)
              Length == Lists!Cardinality({k \in DOMAIN At : At[k] \in Listed})
          IN  [k \in 1 .. Length |-> At[k - 1]]
    BY DEF Lists!Follow
<1> HIDE DEF W, Step
<1> QED BY <1>6, <1>8, <1>9, <1>10

-----------------------------------------------------------------------------
(* What the operations on a list do to it.                                  *)

Within(s, p) == \E i \in 1 .. Len(s) : s[i] = p

(* s without its element i.                                                 *)
Drop(s, i) == [k \in 1 .. (Len(s) - 1) |-> IF k < i THEN s[k] ELSE s[k + 1]]

(* It is one shorter, and what follows has moved up.                        *)
LEMMA DropIs ==
    ASSUME NEW s \in Seq(Listed), NEW i \in 1 .. Len(s)
    PROVE  /\ Drop(s, i) \in Seq(Listed)
           /\ Len(Drop(s, i)) = Len(s) - 1
           /\ \A k \in 1 .. (Len(s) - 1) :
                 Drop(s, i)[k] = IF k < i THEN s[k] ELSE s[k + 1]
<1>1. Len(s) - 1 \in Nat
    OBVIOUS
<1>2. Drop(s, i) \in [1 .. (Len(s) - 1) -> Listed]
    BY DEF Drop
<1>3. Drop(s, i) \in Seq(Listed)
    BY <1>1, <1>2
<1> QED BY <1>1, <1>2, <1>3 DEF Drop

(* A list in which nothing has changed.                                     *)
LEMMA Unchanged ==
    ASSUME NEW nx, NEW mx, NEW n, NEW s, Linked(nx, n, s),
           \A i \in 1 .. Len(s) : mx[s[i]] = nx[s[i]]
    PROVE  Linked(mx, n, s)
BY DEF Linked

(* A list of nobody.                                                        *)
LEMMA LinkedEmpty ==
    ASSUME NEW nx
    PROVE  Linked(nx, End, <<>>)
BY DEF Linked, Link

(* A process at the head.                                                   *)
LEMMA LinkedFront ==
    ASSUME NEW nx, NEW mx, NEW n, NEW s, Linked(nx, n, s),
           NEW p \in Listed, ~Within(s, p), mx[p] = n,
           \A i \in 1 .. Len(s) : mx[s[i]] = nx[s[i]]
    PROVE  Linked(mx, p, <<p>> \o s)
<1> DEFINE r == <<p>> \o s
<1>1. s \in Seq(Listed)
    BY DEF Linked
<1>2. r \in Seq(Listed) /\ Len(r) = Len(s) + 1
    BY <1>1
<1>3. r[1] = p /\ \A i \in 1 .. Len(s) : r[i + 1] = s[i]
    BY <1>1
<1>4. \A i \in 2 .. Len(r) : i - 1 \in 1 .. Len(s) /\ r[i] = s[i - 1]
    <2> SUFFICES ASSUME NEW i \in 2 .. Len(r)
                 PROVE  i - 1 \in 1 .. Len(s) /\ r[i] = s[i - 1]
        OBVIOUS
    <2>1. i - 1 \in 1 .. Len(s) /\ (i - 1) + 1 = i
        BY <1>1, <1>2
    <2> HIDE DEF r
    <2> QED BY <2>1, <1>3
<1> HIDE DEF r
<1>5. p = Link(r, 0)
    BY <1>1, <1>2, <1>3 DEF Link
<1>6. ASSUME NEW i \in 1 .. Len(r)
      PROVE  mx[r[i]] = Link(r, i)
    <2>1. CASE i = 1
        BY <2>1, <1>1, <1>2, <1>3 DEF Link, Linked
    <2>2. CASE i # 1
        BY <2>2, <1>1, <1>2, <1>3, <1>4 DEF Link, Linked
    <2> QED BY <2>1, <2>2
<1>7. \A i, j \in 1 .. Len(r) : r[i] = r[j] => i = j
    <2> SUFFICES ASSUME NEW i \in 1 .. Len(r), NEW j \in 1 .. Len(r), r[i] = r[j]
                 PROVE  i = j
        OBVIOUS
    <2>1. CASE i = 1 \/ j = 1
        <3>1. \A k \in 2 .. Len(r) : r[k] # p
            BY <1>4 DEF Within
        <3> QED BY <2>1, <3>1, <1>1, <1>2, <1>3
    <2>2. CASE i # 1 /\ j # 1
        <3>0. i \in 2 .. Len(r) /\ j \in 2 .. Len(r)
            BY <2>2, <1>1, <1>2
        <3>1. i - 1 \in 1 .. Len(s) /\ j - 1 \in 1 .. Len(s) /\ s[i - 1] = s[j - 1]
            BY <3>0, <1>4
        <3>2. i - 1 = j - 1
            BY <3>1 DEF Linked
        <3> QED BY <3>2, <1>1, <1>2
    <2> QED BY <2>1, <2>2
<1> QED BY <1>2, <1>5, <1>6, <1>7 DEF Linked, r

(* A process at the tail.                                                   *)
LEMMA LinkedBack ==
    ASSUME NEW nx, NEW mx, NEW n, NEW s, Linked(nx, n, s),
           NEW p \in Listed, ~Within(s, p), mx[p] = End,
           \A i \in 1 .. (Len(s) - 1) : mx[s[i]] = nx[s[i]],
           Len(s) > 0 => mx[s[Len(s)]] = p
    PROVE  Linked(mx, IF Len(s) = 0 THEN p ELSE n, Append(s, p))
<1> DEFINE r == Append(s, p)
<1>1. s \in Seq(Listed)
    BY DEF Linked
<1>2. r \in Seq(Listed) /\ Len(r) = Len(s) + 1
    BY <1>1
<1>3. r[Len(r)] = p /\ \A i \in 1 .. Len(s) : r[i] = s[i]
    BY <1>1
<1> HIDE DEF r
<1>5. (IF Len(s) = 0 THEN p ELSE n) = Link(r, 0)
    BY <1>1, <1>2, <1>3 DEF Link, Linked
<1>6. ASSUME NEW i \in 1 .. Len(r)
      PROVE  mx[r[i]] = Link(r, i)
    <2>1. CASE i = Len(r)
        BY <2>1, <1>1, <1>2, <1>3 DEF Link, Linked
    <2>2. CASE i = Len(s)
        BY <2>2, <1>1, <1>2, <1>3 DEF Link, Linked
    <2>3. CASE i < Len(s)
        BY <2>3, <1>1, <1>2, <1>3 DEF Link, Linked
    <2> QED BY <2>1, <2>2, <2>3, <1>2, <1>1
<1>7. \A i, j \in 1 .. Len(r) : r[i] = r[j] => i = j
    BY <1>1, <1>2, <1>3 DEF Linked, Within
<1> QED BY <1>2, <1>5, <1>6, <1>7 DEF Linked, r

(* Element i is taken out: its predecessor now points to its successor.     *)
LEMMA LinkedDrop ==
    ASSUME NEW nx, NEW mx, NEW n, NEW s, Linked(nx, n, s),
           NEW i \in 1 .. Len(s),
           i > 1 => mx[s[i - 1]] = nx[s[i]],
           \A k \in 1 .. Len(s) : k # i - 1 /\ k # i => mx[s[k]] = nx[s[k]]
    PROVE  Linked(mx, IF i = 1 THEN nx[s[1]] ELSE n, Drop(s, i))
<1> DEFINE r == Drop(s, i)
<1>1. s \in Seq(Listed) /\ Len(s) \in Nat
    BY DEF Linked
<1>2. /\ r \in Seq(Listed)
      /\ Len(r) = Len(s) - 1
      /\ \A k \in 1 .. (Len(s) - 1) : r[k] = IF k < i THEN s[k] ELSE s[k + 1]
    BY <1>1, DropIs
<1> HIDE DEF r
<1>5. (IF i = 1 THEN nx[s[1]] ELSE n) = Link(r, 0)
    BY <1>1, <1>2 DEF Link, Linked
<1>6. ASSUME NEW k \in 1 .. Len(r)
      PROVE  mx[r[k]] = Link(r, k)
    <2>0. \A j \in 1 .. Len(s) : nx[s[j]] = Link(s, j)
        BY DEF Linked
    <2>1. CASE k < i - 1
        <3>1. r[k] = s[k] /\ r[k + 1] = s[k + 1] /\ k + 1 \in 1 .. (Len(s) - 1)
            BY <2>1, <1>1, <1>2
        <3>2. mx[s[k]] = nx[s[k]] /\ nx[s[k]] = Link(s, k)
            BY <2>0, <2>1, <1>1
        <3> QED BY <3>1, <3>2, <1>1, <1>2 DEF Link
    <2>2. CASE k = i - 1
        <3>1. r[k] = s[k] /\ Link(r, k) = Link(s, i)
            BY <2>2, <1>1, <1>2 DEF Link
        <3>2. mx[s[k]] = nx[s[i]] /\ nx[s[i]] = Link(s, i)
            BY <2>0, <2>2, <1>1
        <3> QED BY <3>1, <3>2
    <2>3. CASE k >= i
        <3>1. r[k] = s[k + 1] /\ k + 1 \in 1 .. Len(s) /\ Link(r, k) = Link(s, k + 1)
            BY <2>3, <1>1, <1>2 DEF Link
        <3>2. mx[s[k + 1]] = nx[s[k + 1]] /\ nx[s[k + 1]] = Link(s, k + 1)
            BY <2>0, <2>3, <3>1, <1>1
        <3> QED BY <3>1, <3>2
    <2> QED BY <2>1, <2>2, <2>3, <1>1, <1>2
<1>7. \A k, j \in 1 .. Len(r) : r[k] = r[j] => k = j
    <2> SUFFICES ASSUME NEW k \in 1 .. Len(r), NEW j \in 1 .. Len(r), r[k] = r[j]
                 PROVE  k = j
        OBVIOUS
    <2> DEFINE At(m) == IF m < i THEN m ELSE m + 1
    <2>1. At(k) \in 1 .. Len(s) /\ At(j) \in 1 .. Len(s) /\ r[k] = s[At(k)] /\ r[j] = s[At(j)]
        BY <1>1, <1>2
    <2>2. \A a, b \in 1 .. Len(s) : s[a] = s[b] => a = b
        BY DEF Linked
    <2>3. At(k) = At(j)
        <3> HIDE DEF At
        <3> QED BY <2>1, <2>2
    <2> QED BY <2>3, <1>1, <1>2
<1> QED BY <1>2, <1>5, <1>6, <1>7 DEF Linked, r

(* Who is left in it.                                                       *)
LEMMA DropWithin ==
    ASSUME NEW nx, NEW n, NEW s, Linked(nx, n, s), NEW i \in 1 .. Len(s), NEW p
    PROVE  Within(Drop(s, i), p) <=> Within(s, p) /\ p # s[i]
<1>1. s \in Seq(Listed) /\ Len(s) \in Nat
    BY DEF Linked
<1>2. /\ Len(Drop(s, i)) = Len(s) - 1
      /\ \A k \in 1 .. (Len(s) - 1) : Drop(s, i)[k] = IF k < i THEN s[k] ELSE s[k + 1]
    BY <1>1, DropIs
<1>3. ASSUME Within(Drop(s, i), p)
      PROVE  Within(s, p) /\ p # s[i]
    <2>1. PICK k \in 1 .. (Len(s) - 1) : p = IF k < i THEN s[k] ELSE s[k + 1]
        BY <1>2, <1>3 DEF Within
    <2> QED BY <2>1, <1>1 DEF Within, Linked
<1>4. ASSUME Within(s, p), p # s[i]
      PROVE  Within(Drop(s, i), p)
    <2>1. PICK k \in 1 .. Len(s) : s[k] = p
        BY <1>4 DEF Within
    <2>2. CASE k < i
        BY <2>1, <2>2, <1>1, <1>2 DEF Within
    <2>3. CASE k > i
        <3>1. k - 1 \in 1 .. Len(Drop(s, i)) /\ Drop(s, i)[k - 1] = s[k]
            BY <2>1, <2>3, <1>1, <1>2
        <3> QED BY <3>1, <2>1 DEF Within
    <2> QED BY <2>1, <2>2, <2>3, <1>4, <1>1
<1> QED BY <1>3, <1>4

-----------------------------------------------------------------------------
(* The pointers nx, the head pp of the pop list and the tail tl of the push *)
(* list represent the sequences f and l.                                    *)
Encodes(nx, pp, tl, f, l) ==
    /\ nx \in [Listed \cup {PushHead} -> Listed \cup {Null, End}]
    /\ Linked(nx, pp, f)
    /\ Linked(nx, nx[PushHead], l)
    /\ tl = IF Len(l) = 0 THEN PushHead ELSE l[Len(l)]
    /\ \A p \in Listed : ~(Within(f, p) /\ Within(l, p))
    /\ \A p \in Listed : nx[p] # Null <=> Within(f, p) \/ Within(l, p)

(* They are what is found by following the pointers.                        *)
LEMMA EncodesChains ==
    ASSUME Lists!ListAssumption, IsFiniteSet(Listed),
           NEW nx, NEW pp, NEW tl, NEW f, NEW l, Encodes(nx, pp, tl, f, l)
    PROVE  f = Lists!Follow(nx, pp) /\ l = Lists!Follow(nx, nx[PushHead])
BY ChainIs DEF Encodes

(* The members of a list are processes, and the pointer of each is set.     *)
LEMMA MembersAre ==
    ASSUME NEW nx, NEW n, NEW s, Linked(nx, n, s)
    PROVE  /\ s \in Seq(Listed)
           /\ \A i \in 1 .. Len(s) : s[i] \in Listed /\ Within(s, s[i])
           /\ \A i \in 1 .. Len(s) : nx[s[i]] \in Listed \cup {End}
           /\ n = IF Len(s) = 0 THEN End ELSE s[1]
<1>1. s \in Seq(Listed)
    BY DEF Linked
<1>2. \A i \in 1 .. Len(s) : nx[s[i]] \in Listed \cup {End}
    BY <1>1, LinkType DEF Linked
<1>3. n = IF Len(s) = 0 THEN End ELSE s[1]
    BY <1>1 DEF Linked, Link
<1> QED BY <1>1, <1>2, <1>3 DEF Within

(* Who is in a list with a new member.                                      *)
LEMMA NewWithin ==
    ASSUME NEW s \in Seq(Listed), NEW p \in Listed
    PROVE  /\ \A q : Within(Append(s, p), q) <=> Within(s, q) \/ q = p
           /\ \A q : Within(<<p>> \o s, q) <=> Within(s, q) \/ q = p
<1>1. \A q : Within(Append(s, p), q) <=> Within(s, q) \/ q = p
    <2> DEFINE r == Append(s, p)
    <2>1. Len(r) = Len(s) + 1 /\ r[Len(s) + 1] = p /\ \A i \in 1 .. Len(s) : r[i] = s[i]
        OBVIOUS
    <2> HIDE DEF r
    <2>2. \A i \in 1 .. Len(r) : i \in 1 .. Len(s) \/ i = Len(s) + 1
        BY <2>1
    <2>3. \A i \in 1 .. Len(s) : i \in 1 .. Len(r)
        BY <2>1
    <2>4. Len(s) + 1 \in 1 .. Len(r)
        BY <2>1
    <2>5. \A q : Within(r, q) <=> Within(s, q) \/ q = p
        BY <2>1, <2>2, <2>3, <2>4 DEF Within
    <2> QED BY <2>5 DEF r
<1>2. \A q : Within(<<p>> \o s, q) <=> Within(s, q) \/ q = p
    <2> DEFINE r == <<p>> \o s
    <2>1. Len(r) = Len(s) + 1 /\ r[1] = p /\ \A i \in 1 .. Len(s) : r[i + 1] = s[i]
        OBVIOUS
    <2> HIDE DEF r
    <2>2. ASSUME NEW q, Within(r, q), q # p
          PROVE  Within(s, q)
        <3>1. PICK i \in 1 .. Len(r) : r[i] = q
            BY <2>2 DEF Within
        <3>2. i - 1 \in 1 .. Len(s) /\ (i - 1) + 1 = i
            BY <3>1, <2>1, <2>2
        <3>3. s[i - 1] = q
            BY <3>1, <3>2, <2>1
        <3> QED BY <3>2, <3>3 DEF Within
    <2>3. ASSUME NEW q, Within(s, q)
          PROVE  Within(r, q)
        <3>1. PICK i \in 1 .. Len(s) : s[i] = q
            BY <2>3 DEF Within
        <3>2. i + 1 \in 1 .. Len(r)
            BY <2>1
        <3> QED BY <3>1, <3>2, <2>1 DEF Within
    <2>4. Within(r, p)
        <3>1. 1 \in 1 .. Len(r)
            BY <2>1
        <3> QED BY <3>1, <2>1 DEF Within
    <2> QED BY <2>2, <2>3, <2>4 DEF r
<1> QED BY <1>1, <1>2

(* Before prepare_to_simulate(), both lists are empty.                      *)
LEMMA EncodesInit ==
    ASSUME Lists!ListAssumption
    PROVE  Lists!Init => Encodes(next, pop, tail, <<>>, <<>>)
BY LinkedEmpty DEF Lists!Init, Encodes, Within, Lists!ListAssumption

(* push_back appends to the push list.                                      *)
LEMMA PushBackStep ==
    ASSUME Lists!ListAssumption, NEW f, NEW l, Encodes(next, pop, tail, f, l),
           NEW p \in Listed, next[p] = Null, Lists!push_back(p)
    PROVE  Encodes(next', pop', tail', f, Append(l, p))
<1> USE DEF Encodes
<1>1. ~Within(f, p) /\ ~Within(l, p)
    OBVIOUS
<1>2. /\ f \in Seq(Listed) /\ l \in Seq(Listed)
      /\ \A i \in 1 .. Len(f) : f[i] \in Listed /\ Within(f, f[i])
      /\ \A i \in 1 .. Len(l) : l[i] \in Listed /\ Within(l, l[i])
    BY MembersAre
<1>3. /\ next' = [next EXCEPT ![p] = End, ![tail] = p] /\ tail' = p /\ pop' = pop
      /\ tail \in Listed \cup {PushHead} /\ tail # p
    BY <1>1, <1>2 DEF Lists!push_back, Lists!ListAssumption
<1>4. next' \in [Listed \cup {PushHead} -> Listed \cup {Null, End}]
    BY <1>3
<1>5. \A x \in Listed \cup {PushHead} :
          next'[x] = IF x = tail THEN p ELSE IF x = p THEN End ELSE next[x]
    BY <1>3
<1>6. Linked(next', pop', f)
    <2>1. \A i \in 1 .. Len(f) : f[i] # tail /\ f[i] # p
        BY <1>1, <1>2 DEF Lists!ListAssumption
    <2>2. \A i \in 1 .. Len(f) : next'[f[i]] = next[f[i]]
        BY <2>1, <1>2, <1>5
    <2>3. Linked(next', pop, f)
        <3>1. Linked(next, pop, f)
            OBVIOUS
        <3> HIDE DEF Encodes
        <3> QED BY <2>2, <3>1, Unchanged
    <2> QED BY <2>3, <1>3
<1>7. Linked(next', next'[PushHead], Append(l, p))
    <2>1. next'[p] = End
        BY <1>3, <1>5
    <2>2. \A i \in 1 .. (Len(l) - 1) : next'[l[i]] = next[l[i]]
        <3>1. \A i \in 1 .. (Len(l) - 1) : l[i] # l[Len(l)] /\ l[i] # p /\ i \in 1 .. Len(l)
            BY <1>1, <1>2 DEF Linked
        <3> QED BY <3>1, <1>2, <1>5
    <2>3. Len(l) > 0 => next'[l[Len(l)]] = p
        BY <1>5, <1>2
    <2>4. next'[PushHead] = IF Len(l) = 0 THEN p ELSE next[PushHead]
        BY <1>5, <1>2 DEF Lists!ListAssumption
    <2> QED BY <2>1, <2>2, <2>3, <2>4, <1>1, LinkedBack
<1>8. Len(Append(l, p)) # 0 /\ Append(l, p)[Len(Append(l, p))] = p
    BY <1>2
<1>9. \A q \in Listed : ~(Within(f, q) /\ Within(Append(l, p), q))
    BY <1>1, <1>2, NewWithin
<1>10. \A q \in Listed : next'[q] # Null <=> Within(f, q) \/ Within(Append(l, p), q)
    <2> TAKE q \in Listed
    <2>1. Within(Append(l, p), q) <=> Within(l, q) \/ q = p
        BY <1>2, NewWithin
    <2>2. q = tail => Within(l, q)
        BY <1>2 DEF Lists!ListAssumption
    <2> QED BY <2>1, <2>2, <1>5 DEF Lists!ListAssumption
<1> QED BY <1>3, <1>4, <1>6, <1>7, <1>8, <1>9, <1>10

(* push_front puts a process before the others of the push list.            *)
LEMMA PushFrontStep ==
    ASSUME Lists!ListAssumption, NEW f, NEW l, Encodes(next, pop, tail, f, l),
           NEW p \in Listed, next[p] = Null, Lists!push_front(p)
    PROVE  Encodes(next', pop', tail', f, <<p>> \o l)
<1> USE DEF Encodes
<1>1. ~Within(f, p) /\ ~Within(l, p)
    OBVIOUS
<1>2. /\ f \in Seq(Listed) /\ l \in Seq(Listed)
      /\ \A i \in 1 .. Len(f) : f[i] \in Listed /\ Within(f, f[i])
      /\ \A i \in 1 .. Len(l) : l[i] \in Listed /\ Within(l, l[i])
      /\ next[PushHead] \in Listed \cup {End}
    BY MembersAre
<1>3. /\ next' = [next EXCEPT ![p] = next[PushHead], ![PushHead] = p] /\ pop' = pop
      /\ tail' = IF tail = PushHead THEN p ELSE tail
    BY DEF Lists!push_front
<1>4. next' \in [Listed \cup {PushHead} -> Listed \cup {Null, End}]
    BY <1>3
<1>5. \A x \in Listed \cup {PushHead} :
          next'[x] = IF x = PushHead THEN p ELSE IF x = p THEN next[PushHead] ELSE next[x]
    BY <1>3, <1>4
<1>6. Linked(next', pop', f)
    <2>2. \A i \in 1 .. Len(f) : next'[f[i]] = next[f[i]]
        BY <1>1, <1>2, <1>5 DEF Lists!ListAssumption
    <2>3. Linked(next', pop, f)
        <3>1. Linked(next, pop, f)
            OBVIOUS
        <3> HIDE DEF Encodes
        <3> QED BY <2>2, <3>1, Unchanged
    <2> QED BY <2>3, <1>3
<1>7. Linked(next', next'[PushHead], <<p>> \o l)
    <2>1. next'[PushHead] = p /\ next'[p] = next[PushHead]
        BY <1>5 DEF Lists!ListAssumption
    <2>2. \A i \in 1 .. Len(l) : next'[l[i]] = next[l[i]]
        BY <1>1, <1>2, <1>5 DEF Lists!ListAssumption
    <2> QED BY <2>1, <2>2, <1>1, LinkedFront
<1>8. /\ Len(<<p>> \o l) = Len(l) + 1
      /\ (<<p>> \o l)[Len(l) + 1] = IF Len(l) = 0 THEN p ELSE l[Len(l)]
    BY <1>2
<1>9. tail' = (<<p>> \o l)[Len(<<p>> \o l)] /\ Len(<<p>> \o l) # 0
    BY <1>2, <1>3, <1>8 DEF Lists!ListAssumption
<1>10. \A q \in Listed : ~(Within(f, q) /\ Within(<<p>> \o l, q))
    BY <1>1, <1>2, NewWithin
<1>11. \A q \in Listed : next'[q] # Null <=> Within(f, q) \/ Within(<<p>> \o l, q)
    <2> TAKE q \in Listed
    <2>1. Within(<<p>> \o l, q) <=> Within(l, q) \/ q = p
        BY <1>2, NewWithin
    <2> QED BY <2>1, <1>2, <1>5 DEF Lists!ListAssumption
<1> HIDE DEF Encodes
<1> QED BY <1>3, <1>4, <1>6, <1>7, <1>9, <1>10, <1>11 DEF Encodes

(* The pointers after element i is taken out of a list: of the pop list,    *)
(* and of the push list.                                                    *)
FirstUnlinked(nx, f, i) ==
    IF i = 1 THEN [nx EXCEPT ![f[1]] = Null]
    ELSE [nx EXCEPT ![f[i - 1]] = nx[f[i]], ![f[i]] = Null]
Prior(l, i) == IF i = 1 THEN PushHead ELSE l[i - 1]
LaterUnlinked(nx, l, i) == [nx EXCEPT ![Prior(l, i)] = nx[l[i]], ![l[i]] = Null]

(* Element i of f is taken out.                                             *)
LEMMA DropFirst ==
    ASSUME Lists!ListAssumption, NEW nx, NEW pp, NEW tl, NEW f, NEW l, Encodes(nx, pp, tl, f, l),
           NEW i \in 1 .. Len(f),
           NEW mx, mx = FirstUnlinked(nx, f, i)
    PROVE  Encodes(mx, IF i = 1 THEN nx[f[1]] ELSE pp, tl, Drop(f, i), l)
<1>0. /\ nx \in [Listed \cup {PushHead} -> Listed \cup {Null, End}]
      /\ Linked(nx, pp, f) /\ Linked(nx, nx[PushHead], l)
      /\ tl = IF Len(l) = 0 THEN PushHead ELSE l[Len(l)]
      /\ \A p \in Listed : ~(Within(f, p) /\ Within(l, p))
      /\ \A p \in Listed : nx[p] # Null <=> Within(f, p) \/ Within(l, p)
    BY DEF Encodes
<1>2. /\ f \in Seq(Listed) /\ l \in Seq(Listed)
      /\ \A k \in 1 .. Len(f) : f[k] \in Listed /\ Within(f, f[k])
      /\ \A k \in 1 .. Len(l) : l[k] \in Listed /\ Within(l, l[k])
    BY <1>0, MembersAre
<1>3. \A k, j \in 1 .. Len(f) : f[k] = f[j] => k = j
    BY <1>0 DEF Linked
<1>4. i > 1 => i - 1 \in 1 .. Len(f) /\ f[i - 1] # f[i]
    BY <1>3, <1>2
<1>5. /\ mx \in [Listed \cup {PushHead} -> Listed \cup {Null, End}]
      /\ \A x \in Listed \cup {PushHead} :
            mx[x] = IF x = f[i] THEN Null
                    ELSE IF i > 1 /\ x = f[i - 1] THEN nx[f[i]] ELSE nx[x]
    BY <1>0, <1>2, <1>4 DEF Lists!ListAssumption, FirstUnlinked
<1>6. Linked(mx, IF i = 1 THEN nx[f[1]] ELSE pp, Drop(f, i))
    <2>1. i > 1 => mx[f[i - 1]] = nx[f[i]]
        BY <1>4, <1>5, <1>2
    <2>2. \A k \in 1 .. Len(f) : k # i - 1 /\ k # i => mx[f[k]] = nx[f[k]]
        BY <1>3, <1>4, <1>5, <1>2
    <2>3. Linked(nx, pp, f)
        BY <1>0
    <2> QED BY <2>1, <2>2, <2>3, LinkedDrop
<1>7. Linked(mx, mx[PushHead], l)
    <2>1. mx[PushHead] = nx[PushHead]
        BY <1>5, <1>2, <1>4 DEF Lists!ListAssumption
    <2>2. \A k \in 1 .. Len(l) : mx[l[k]] = nx[l[k]]
        <3>1. \A k \in 1 .. Len(l) : l[k] # f[i] /\ (i > 1 => l[k] # f[i - 1])
            BY <1>0, <1>2, <1>4
        <3> QED BY <3>1, <1>5, <1>2
    <2>3. Linked(nx, nx[PushHead], l)
        BY <1>0
    <2>4. Linked(mx, nx[PushHead], l)
        BY <2>2, <2>3, Unchanged
    <2> QED BY <2>1, <2>4
<1>8. \A q : Within(Drop(f, i), q) <=> Within(f, q) /\ q # f[i]
    BY <1>0, DropWithin
<1>9. \A q \in Listed : mx[q] # Null <=> Within(Drop(f, i), q) \/ Within(l, q)
    <2> TAKE q \in Listed
    <2>1. CASE q = f[i]
        BY <2>1, <1>0, <1>2, <1>5, <1>8
    <2>2. CASE q # f[i] /\ i > 1 /\ q = f[i - 1]
        <3>1. nx[f[i]] \in Listed \cup {End}
            BY <1>0, MembersAre
        <3> QED BY <2>2, <3>1, <1>4, <1>2, <1>5, <1>8 DEF Lists!ListAssumption
    <2>3. CASE q # f[i] /\ ~(i > 1 /\ q = f[i - 1])
        BY <2>3, <1>0, <1>5, <1>8
    <2> QED BY <2>1, <2>2, <2>3
<1> QED BY <1>0, <1>5, <1>6, <1>7, <1>8, <1>9 DEF Encodes

(* Element i of l is taken out.                                             *)
LEMMA DropLater ==
    ASSUME Lists!ListAssumption, NEW nx, NEW pp, NEW tl, NEW f, NEW l, Encodes(nx, pp, tl, f, l),
           NEW i \in 1 .. Len(l),
           NEW mx, mx = LaterUnlinked(nx, l, i)
    PROVE  Encodes(mx, pp, IF tl = l[i] THEN Prior(l, i) ELSE tl, f, Drop(l, i))
<1> DEFINE prior == Prior(l, i)
<1>0. /\ nx \in [Listed \cup {PushHead} -> Listed \cup {Null, End}]
      /\ Linked(nx, pp, f) /\ Linked(nx, nx[PushHead], l)
      /\ tl = IF Len(l) = 0 THEN PushHead ELSE l[Len(l)]
      /\ \A p \in Listed : ~(Within(f, p) /\ Within(l, p))
      /\ \A p \in Listed : nx[p] # Null <=> Within(f, p) \/ Within(l, p)
    BY DEF Encodes
<1>2. /\ f \in Seq(Listed) /\ l \in Seq(Listed)
      /\ \A k \in 1 .. Len(f) : f[k] \in Listed /\ Within(f, f[k])
      /\ \A k \in 1 .. Len(l) : l[k] \in Listed /\ Within(l, l[k])
    BY <1>0, MembersAre
<1>3. \A k, j \in 1 .. Len(l) : l[k] = l[j] => k = j
    BY <1>0 DEF Linked
<1>4. /\ i > 1 => i - 1 \in 1 .. Len(l) /\ prior = l[i - 1]
      /\ i = 1 => prior = PushHead
      /\ prior # l[i] /\ prior \in Listed \cup {PushHead}
    BY <1>3, <1>2 DEF Lists!ListAssumption, Prior
<1> HIDE DEF prior
<1>10. nx[l[i]] \in Listed \cup {End}
    BY <1>0, MembersAre
<1>5. /\ mx \in [Listed \cup {PushHead} -> Listed \cup {Null, End}]
      /\ \A x \in Listed \cup {PushHead} :
            mx[x] = IF x = l[i] THEN Null ELSE IF x = prior THEN nx[l[i]] ELSE nx[x]
    BY <1>0, <1>2, <1>4, <1>10 DEF LaterUnlinked, prior
<1>6. Linked(mx, mx[PushHead], Drop(l, i))
    <2>1. i > 1 => mx[l[i - 1]] = nx[l[i]]
        BY <1>4, <1>5, <1>2
    <2>2. \A k \in 1 .. Len(l) : k # i - 1 /\ k # i => mx[l[k]] = nx[l[k]]
        <3>1. \A k \in 1 .. Len(l) : k # i - 1 /\ k # i => l[k] # l[i] /\ l[k] # prior
            BY <1>3, <1>2, <1>4 DEF Lists!ListAssumption
        <3> QED BY <3>1, <1>5, <1>2
    <2>3. mx[PushHead] = IF i = 1 THEN nx[l[1]] ELSE nx[PushHead]
        BY <1>5, <1>2, <1>4 DEF Lists!ListAssumption, Prior, prior
    <2>4. Linked(nx, nx[PushHead], l)
        BY <1>0
    <2>5. Linked(mx, IF i = 1 THEN nx[l[1]] ELSE nx[PushHead], Drop(l, i))
        BY <2>1, <2>2, <2>4, LinkedDrop
    <2> QED BY <2>3, <2>5
<1>7. Linked(mx, pp, f)
    <2>2. \A k \in 1 .. Len(f) : mx[f[k]] = nx[f[k]]
        <3>1. \A k \in 1 .. Len(f) : f[k] # l[i] /\ f[k] # prior
            BY <1>0, <1>2, <1>4 DEF Lists!ListAssumption
        <3> QED BY <3>1, <1>5, <1>2
    <2>3. Linked(nx, pp, f)
        BY <1>0
    <2> QED BY <2>2, <2>3, Unchanged
<1>8. \A q : Within(Drop(l, i), q) <=> Within(l, q) /\ q # l[i]
    BY <1>0, DropWithin
<1>9. \A q \in Listed : mx[q] # Null <=> Within(f, q) \/ Within(Drop(l, i), q)
    <2> TAKE q \in Listed
    <2>1. CASE q = l[i]
        BY <2>1, <1>0, <1>2, <1>5, <1>8
    <2>2. CASE q # l[i] /\ q = prior
        BY <2>2, <1>10, <1>4, <1>2, <1>5, <1>8 DEF Lists!ListAssumption
    <2>3. CASE q # l[i] /\ q # prior
        BY <2>3, <1>0, <1>5, <1>8
    <2> QED BY <2>1, <2>2, <2>3
<1>11. (IF tl = l[i] THEN prior ELSE tl)
          = IF Len(Drop(l, i)) = 0 THEN PushHead ELSE Drop(l, i)[Len(Drop(l, i))]
    <2>1. /\ Len(Drop(l, i)) = Len(l) - 1
          /\ \A k \in 1 .. (Len(l) - 1) : Drop(l, i)[k] = IF k < i THEN l[k] ELSE l[k + 1]
        BY <1>2, DropIs
    <2>2. CASE i = Len(l)
        BY <2>1, <2>2, <1>0, <1>2, <1>4
    <2>3. CASE i # Len(l)
        <3>1. i < Len(l) /\ tl = l[Len(l)] /\ tl # l[i]
            BY <2>3, <1>0, <1>2, <1>3
        <3>2. Drop(l, i)[Len(l) - 1] = l[Len(l)]
            <4>1. /\ Len(l) - 1 \in 1 .. (Len(l) - 1)
                  /\ ~(Len(l) - 1 < i) /\ (Len(l) - 1) + 1 = Len(l)
                BY <3>1, <1>2
            <4> QED BY <4>1, <2>1
        <3> QED BY <3>1, <3>2, <2>1, <1>2
    <2> QED BY <2>2, <2>3
<1> QED BY <1>0, <1>5, <1>6, <1>7, <1>8, <1>9, <1>11 DEF Encodes, prior

(* A process that is in no list becomes the next one.                       *)
LEMMA FrontOfFirst ==
    ASSUME Lists!ListAssumption, NEW nx, NEW pp, NEW tl, NEW f, NEW l, Encodes(nx, pp, tl, f, l),
           NEW p \in Listed, nx[p] = Null,
           NEW mx, mx = [nx EXCEPT ![p] = pp]
    PROVE  Encodes(mx, p, tl, <<p>> \o f, l)
<1>0. /\ nx \in [Listed \cup {PushHead} -> Listed \cup {Null, End}]
      /\ Linked(nx, pp, f) /\ Linked(nx, nx[PushHead], l)
      /\ tl = IF Len(l) = 0 THEN PushHead ELSE l[Len(l)]
      /\ \A q \in Listed : ~(Within(f, q) /\ Within(l, q))
      /\ \A q \in Listed : nx[q] # Null <=> Within(f, q) \/ Within(l, q)
    BY DEF Encodes
<1>1. ~Within(f, p) /\ ~Within(l, p)
    BY <1>0
<1>2. /\ f \in Seq(Listed) /\ l \in Seq(Listed)
      /\ \A k \in 1 .. Len(f) : f[k] \in Listed /\ Within(f, f[k])
      /\ \A k \in 1 .. Len(l) : l[k] \in Listed /\ Within(l, l[k])
      /\ pp \in Listed \cup {End}
    BY <1>0, MembersAre
<1>3. /\ mx \in [Listed \cup {PushHead} -> Listed \cup {Null, End}]
      /\ \A x \in Listed \cup {PushHead} : mx[x] = IF x = p THEN pp ELSE nx[x]
    BY <1>0, <1>2
<1>4. Linked(mx, p, <<p>> \o f)
    <2>1. mx[p] = pp
        BY <1>3
    <2>2. \A k \in 1 .. Len(f) : mx[f[k]] = nx[f[k]]
        BY <1>1, <1>2, <1>3
    <2>3. Linked(nx, pp, f)
        BY <1>0
    <2> QED BY <2>1, <2>2, <2>3, <1>1, LinkedFront
<1>5. Linked(mx, mx[PushHead], l)
    <2>1. mx[PushHead] = nx[PushHead]
        BY <1>3 DEF Lists!ListAssumption
    <2>2. \A k \in 1 .. Len(l) : mx[l[k]] = nx[l[k]]
        BY <1>1, <1>2, <1>3
    <2>3. Linked(nx, nx[PushHead], l)
        BY <1>0
    <2>4. Linked(mx, nx[PushHead], l)
        BY <2>2, <2>3, Unchanged
    <2> QED BY <2>1, <2>4
<1>6. \A q : Within(<<p>> \o f, q) <=> Within(f, q) \/ q = p
    BY <1>2, NewWithin
<1>7. \A q \in Listed : mx[q] # Null <=> Within(<<p>> \o f, q) \/ Within(l, q)
    BY <1>0, <1>2, <1>3, <1>6 DEF Lists!ListAssumption
<1> QED BY <1>0, <1>1, <1>3, <1>4, <1>5, <1>6, <1>7 DEF Encodes

(* toggle_threads(): the push list becomes the pop list.                    *)
LEMMA ToggleStep ==
    ASSUME Lists!ListAssumption, NEW nx, NEW tl, NEW f, NEW l, Encodes(nx, End, tl, f, l)
    PROVE  /\ f = <<>>
           /\ Encodes([nx EXCEPT ![PushHead] = End], nx[PushHead], PushHead, l, <<>>)
<1> DEFINE mx == [nx EXCEPT ![PushHead] = End]
<1>0. /\ nx \in [Listed \cup {PushHead} -> Listed \cup {Null, End}]
      /\ Linked(nx, End, f) /\ Linked(nx, nx[PushHead], l)
      /\ \A q \in Listed : nx[q] # Null <=> Within(f, q) \/ Within(l, q)
    BY DEF Encodes
<1>1. f = <<>>
    <2>1. f \in Seq(Listed) /\ End = Link(f, 0) /\ Len(f) \in Nat
        BY <1>0 DEF Linked
    <2>2. Len(f) = 0
        BY <2>1, LinkType
    <2> QED BY <2>1, <2>2
<1>2. /\ l \in Seq(Listed)
      /\ \A k \in 1 .. Len(l) : l[k] \in Listed /\ Within(l, l[k])
    BY <1>0, MembersAre
<1>3. /\ mx \in [Listed \cup {PushHead} -> Listed \cup {Null, End}]
      /\ mx[PushHead] = End
      /\ \A x \in Listed : mx[x] = nx[x]
    BY <1>0 DEF Lists!ListAssumption
<1>4. Linked(mx, nx[PushHead], l)
    <2>2. \A k \in 1 .. Len(l) : mx[l[k]] = nx[l[k]]
        BY <1>2, <1>3
    <2>3. Linked(nx, nx[PushHead], l)
        BY <1>0
    <2> HIDE DEF mx
    <2> QED BY <2>2, <2>3, Unchanged
<1>5. Linked(mx, mx[PushHead], <<>>)
    BY <1>3, LinkedEmpty
<1>6. \A q : ~Within(<<>>, q)
    BY DEF Within
<1>7. Len(<<>>) = 0
    OBVIOUS
<1>8. \A q \in Listed : mx[q] # Null <=> Within(l, q) \/ Within(<<>>, q)
    BY <1>0, <1>1, <1>3, <1>6
<1> HIDE DEF mx
<1> QED BY <1>1, <1>3, <1>4, <1>5, <1>6, <1>7, <1>8 DEF Encodes, mx

(* The search for the predecessor of p finds its place.                     *)
LEMMA PriorFound ==
    ASSUME Lists!ListAssumption, NEW nx, NEW pp, NEW tl, NEW f, NEW l, Encodes(nx, pp, tl, f, l),
           NEW p \in Listed, pp # p, NEW prior \in DOMAIN nx, nx[prior] = p
    PROVE  \/ \E i \in 2 .. Len(f) : p = f[i] /\ prior = f[i - 1]
           \/ \E i \in 1 .. Len(l) : p = l[i] /\ prior = IF i = 1 THEN PushHead ELSE l[i - 1]
<1>0. /\ nx \in [Listed \cup {PushHead} -> Listed \cup {Null, End}]
      /\ Linked(nx, pp, f) /\ Linked(nx, nx[PushHead], l)
      /\ \A q \in Listed : nx[q] # Null <=> Within(f, q) \/ Within(l, q)
    BY DEF Encodes
<1>1. f \in Seq(Listed) /\ l \in Seq(Listed) /\ Len(f) \in Nat /\ Len(l) \in Nat
    BY <1>0 DEF Linked
<1>2. CASE prior = PushHead
    <2>1. p = Link(l, 0)
        BY <1>0, <1>2 DEF Linked
    <2>2. 0 < Len(l)
        BY <2>1, <1>1, LinkType
    <2> QED BY <2>1, <2>2, <1>1, <1>2 DEF Link
<1>3. CASE prior # PushHead /\ Within(f, prior)
    <2>1. PICK k \in 1 .. Len(f) : f[k] = prior
        BY <1>3 DEF Within
    <2>2. p = Link(f, k)
        BY <2>1, <1>0 DEF Linked
    <2>3. k < Len(f) /\ k \in Nat
        BY <2>1, <2>2, <1>1, LinkType
    <2>4. k + 1 \in 2 .. Len(f) /\ p = f[k + 1] /\ (k + 1) - 1 = k
        BY <2>1, <2>2, <2>3, <1>1 DEF Link
    <2> QED BY <2>1, <2>4
<1>4. CASE prior # PushHead /\ Within(l, prior)
    <2>1. PICK k \in 1 .. Len(l) : l[k] = prior
        BY <1>4 DEF Within
    <2>2. p = Link(l, k)
        BY <2>1, <1>0 DEF Linked
    <2>3. k < Len(l) /\ k \in Nat
        BY <2>1, <2>2, <1>1, LinkType
    <2>4. k + 1 \in 1 .. Len(l) /\ k + 1 # 1 /\ p = l[k + 1] /\ (k + 1) - 1 = k
        BY <2>1, <2>2, <2>3, <1>1 DEF Link
    <2> QED BY <2>1, <2>4
<1>5. prior \in Listed \cup {PushHead} /\ nx[prior] # Null
    BY <1>0 DEF Lists!ListAssumption
<1> QED BY <1>0, <1>2, <1>3, <1>4, <1>5

-----------------------------------------------------------------------------
(* The sequences of ReadyQueue.                                             *)

LEMMA MembersWithin ==
    ASSUME NEW s \in Seq(Listed), NEW p
    PROVE  p \in Lists!Queue!Members(s) <=> Within(s, p)
BY DEF Lists!Queue!Members, Within

(* Nobody is removed who is not there.                                      *)
LEMMA WithoutOther ==
    ASSUME NEW s \in Seq(Listed), NEW p, ~Within(s, p)
    PROVE  Lists!Queue!Without(s, p) = s
BY MembersWithin DEF Lists!Queue!Without

(* A member is removed from its one place.                                  *)
LEMMA WithoutMember ==
    ASSUME NEW nx, NEW n, NEW s, Linked(nx, n, s), NEW i \in 1 .. Len(s)
    PROVE  Lists!Queue!Without(s, s[i]) = Drop(s, i)
<1>1. s \in Seq(Listed) /\ DOMAIN s = 1 .. Len(s)
    BY DEF Linked
<1>2. s[i] \in Lists!Queue!Members(s)
    BY <1>1 DEF Lists!Queue!Members
<1>3. (CHOOSE k \in DOMAIN s : s[k] = s[i]) = i
    BY <1>1 DEF Linked
<1> QED BY <1>2, <1>3 DEF Lists!Queue!Without, Drop

(* Without its first element, a list is its tail.                           *)
LEMMA DropHead ==
    ASSUME NEW s \in Seq(Listed), Len(s) > 0
    PROVE  Drop(s, 1) = Tail(s)
<1>1. /\ Drop(s, 1) \in Seq(Listed)
      /\ Len(Drop(s, 1)) = Len(s) - 1
      /\ \A k \in 1 .. (Len(s) - 1) : Drop(s, 1)[k] = s[k + 1]
    BY DropIs
<1>2. /\ Tail(s) \in Seq(Listed)
      /\ Len(Tail(s)) = Len(s) - 1
      /\ \A k \in 1 .. (Len(s) - 1) : Tail(s)[k] = s[k + 1]
    OBVIOUS
<1> QED BY <1>1, <1>2

-----------------------------------------------------------------------------
(* The operations of the lists and those of the sequences.                  *)

(* The first process of the pop list is taken out.                          *)
LEMMA HeadRemoved ==
    ASSUME Lists!ListAssumption, NEW f, NEW l, Encodes(next, pop, tail, f, l),
           NEW p \in Listed, pop = p
    PROVE  /\ Len(f) > 0 /\ f[1] = p
           /\ Lists!Queue!Without(f, p) = Tail(f) /\ Lists!Queue!Without(l, p) = l
           /\ Encodes([next EXCEPT ![p] = Null], next[p], tail,
                      Lists!Queue!Without(f, p), Lists!Queue!Without(l, p))
<1>1. Linked(next, pop, f) /\ Linked(next, next[PushHead], l)
    BY DEF Encodes
<1>2. f \in Seq(Listed) /\ l \in Seq(Listed) /\ Len(f) \in Nat
    BY <1>1 DEF Linked
<1>3. pop = IF Len(f) = 0 THEN End ELSE f[1]
    BY <1>1, MembersAre
<1>4. Len(f) > 0 /\ f[1] = p
    BY <1>2, <1>3 DEF Lists!ListAssumption
<1>5. 1 \in 1 .. Len(f)
    BY <1>2, <1>4
<1>6. Lists!Queue!Without(f, p) = Drop(f, 1)
    BY <1>1, <1>4, <1>5, WithoutMember
<1>7. ~Within(l, p)
    BY <1>4, <1>5 DEF Encodes, Within
<1>8. Lists!Queue!Without(l, p) = l
    BY <1>2, <1>7, WithoutOther
<1>9. Encodes([next EXCEPT ![p] = Null], next[p], tail, Drop(f, 1), l)
    <2> DEFINE mx == [next EXCEPT ![p] = Null]
    <2>1. mx = FirstUnlinked(next, f, 1)
        BY <1>4 DEF FirstUnlinked
    <2> HIDE DEF mx
    <2>2. Encodes(mx, IF 1 = 1 THEN next[f[1]] ELSE pop, tail, Drop(f, 1), l)
        BY <2>1, <1>5, DropFirst
    <2> QED BY <2>2, <1>4 DEF mx
<1> QED BY <1>2, <1>4, <1>6, <1>8, <1>9, DropHead

(* Another process is taken out, whose predecessor is prior.                *)
LEMMA OtherRemoved ==
    ASSUME Lists!ListAssumption, NEW f, NEW l, Encodes(next, pop, tail, f, l),
           NEW p \in Listed, pop # p, NEW prior \in DOMAIN next, next[prior] = p
    PROVE  Encodes(Lists!Unlinked(p, prior), pop, IF tail = p THEN prior ELSE tail,
                   Lists!Queue!Without(f, p), Lists!Queue!Without(l, p))
<1>1. Linked(next, pop, f) /\ Linked(next, next[PushHead], l)
    BY DEF Encodes
<1>2. f \in Seq(Listed) /\ l \in Seq(Listed) /\ Len(f) \in Nat /\ Len(l) \in Nat
    BY <1>1 DEF Linked
<1>3. CASE \E i \in 2 .. Len(f) : p = f[i] /\ prior = f[i - 1]
    <2>1. PICK i \in 2 .. Len(f) : p = f[i] /\ prior = f[i - 1]
        BY <1>3
    <2>2. i \in 1 .. Len(f) /\ i # 1
        BY <2>1, <1>2
    <2>3. Within(f, p)
        BY <2>1, <2>2 DEF Within
    <2>4. ~Within(l, p)
        BY <2>3 DEF Encodes
    <2>5. tail # p
        <3>1. tail = IF Len(l) = 0 THEN PushHead ELSE l[Len(l)]
            BY DEF Encodes
        <3> QED BY <3>1, <2>4, <1>2 DEF Within, Lists!ListAssumption
    <2>6. Lists!Queue!Without(f, p) = Drop(f, i) /\ Lists!Queue!Without(l, p) = l
        BY <1>1, <1>2, <2>1, <2>2, <2>4, WithoutMember, WithoutOther
    <2> DEFINE mx == Lists!Unlinked(p, prior)
    <2>7. mx = FirstUnlinked(next, f, i)
        BY <2>1, <2>2 DEF Lists!Unlinked, FirstUnlinked
    <2> HIDE DEF mx
    <2>8. Encodes(mx, IF i = 1 THEN next[f[1]] ELSE pop, tail, Drop(f, i), l)
        BY <2>2, <2>7, DropFirst
    <2> QED BY <2>2, <2>5, <2>6, <2>8 DEF mx
<1>4. CASE \E i \in 1 .. Len(l) : p = l[i] /\ prior = IF i = 1 THEN PushHead ELSE l[i - 1]
    <2>1. PICK i \in 1 .. Len(l) : p = l[i] /\ prior = IF i = 1 THEN PushHead ELSE l[i - 1]
        BY <1>4
    <2>2. ~Within(f, p)
        BY <2>1 DEF Encodes, Within
    <2>3. Lists!Queue!Without(f, p) = f /\ Lists!Queue!Without(l, p) = Drop(l, i)
        BY <1>1, <1>2, <2>1, <2>2, WithoutMember, WithoutOther
    <2> DEFINE mx == Lists!Unlinked(p, prior)
    <2>4. mx = LaterUnlinked(next, l, i) /\ prior = Prior(l, i)
        BY <2>1 DEF Lists!Unlinked, LaterUnlinked, Prior
    <2> HIDE DEF mx
    <2>5. Encodes(mx, pop, IF tail = l[i] THEN Prior(l, i) ELSE tail, f, Drop(l, i))
        BY <2>1, <2>4, DropLater
    <2> QED BY <2>1, <2>3, <2>4, <2>5 DEF mx
<1> QED BY <1>3, <1>4, PriorFound

(* remove takes a process out of the list that it is in.                    *)
LEMMA RemoveStep ==
    ASSUME Lists!ListAssumption, NEW f, NEW l, Encodes(next, pop, tail, f, l),
           NEW p \in Listed, Lists!remove(p)
    PROVE  Encodes(next', pop', tail', Lists!Queue!Without(f, p), Lists!Queue!Without(l, p))
<1>1. CASE pop = p
    BY <1>1, HeadRemoved DEF Lists!remove
<1>2. CASE pop # p
    <2>1. PICK prior \in DOMAIN next :
              /\ next[prior] = p
              /\ next' = Lists!Unlinked(p, prior)
              /\ tail' = IF tail = p THEN prior ELSE tail
              /\ pop' = pop
        BY <1>2 DEF Lists!remove
    <2>2. Encodes(Lists!Unlinked(p, prior), pop, IF tail = p THEN prior ELSE tail,
                  Lists!Queue!Without(f, p), Lists!Queue!Without(l, p))
        BY <1>2, <2>1, OtherRemoved
    <2> QED BY <2>1, <2>2
<1> QED BY <1>1, <1>2

(* execute_next makes it the first of the pop list, wherever it was.        *)
LEMMA ExecuteNextStep ==
    ASSUME Lists!ListAssumption, NEW f, NEW l, Encodes(next, pop, tail, f, l),
           NEW p \in Listed, Lists!execute_next(p)
    PROVE  Encodes(next', pop', tail',
                   <<p>> \o Lists!Queue!Without(f, p), Lists!Queue!Without(l, p))
<1>1. f \in Seq(Listed) /\ l \in Seq(Listed)
    BY DEF Encodes, Linked
<1>2. CASE ~Lists!is_runnable(p)
    <2>1. next[p] = Null /\ next' = [next EXCEPT ![p] = pop] /\ pop' = p /\ tail' = tail
        BY <1>2 DEF Lists!execute_next, Lists!is_runnable
    <2>2. ~Within(f, p) /\ ~Within(l, p)
        BY <2>1 DEF Encodes
    <2>3. Lists!Queue!Without(f, p) = f /\ Lists!Queue!Without(l, p) = l
        BY <1>1, <2>2, WithoutOther
    <2>4. Encodes(next', p, tail, <<p>> \o f, l)
        BY <2>1, FrontOfFirst
    <2> QED BY <2>1, <2>3, <2>4
<1>3. CASE Lists!is_runnable(p) /\ pop = p
    <2>1. next' = next /\ pop' = pop /\ tail' = tail
        BY <1>3 DEF Lists!execute_next, Lists!lists
    <2>2. /\ Lists!Queue!Without(f, p) = Tail(f) /\ Lists!Queue!Without(l, p) = l
          /\ Len(f) > 0 /\ f[1] = p
        BY <1>3, HeadRemoved
    <2>3. <<p>> \o Tail(f) = f
        BY <1>1, <2>2
    <2> QED BY <2>1, <2>2, <2>3
<1>4. CASE Lists!is_runnable(p) /\ pop # p
    <2>1. PICK prior \in DOMAIN next :
              /\ next[prior] = p
              /\ next' = [Lists!Unlinked(p, prior) EXCEPT ![p] = pop]
              /\ tail' = IF tail = p THEN prior ELSE tail
              /\ pop' = p
        BY <1>4 DEF Lists!execute_next
    <2> DEFINE mx == Lists!Unlinked(p, prior)
               F == Lists!Queue!Without(f, p)
               L == Lists!Queue!Without(l, p)
    <2>2. Encodes(mx, pop, tail', F, L)
        BY <1>4, <2>1, OtherRemoved
    <2>3. mx[p] = Null
        BY <2>2 DEF Lists!Unlinked, Encodes
    <2>4. next' = [mx EXCEPT ![p] = pop]
        BY <2>1
    <2> HIDE DEF mx, F, L
    <2>5. Encodes(next', p, tail', <<p>> \o F, L)
        BY <2>2, <2>3, <2>4, FrontOfFirst
    <2> QED BY <2>1, <2>5 DEF F, L
<1> QED BY <1>2, <1>3, <1>4

(* A dispatch takes the first of the pop list, or of the push list which    *)
(* then becomes the pop list.                                               *)
LEMMA PopStep ==
    ASSUME Lists!ListAssumption, NEW f, NEW l, Encodes(next, pop, tail, f, l), Lists!Pop
    PROVE  \/ f # <<>> /\ Encodes(next', pop', tail', Tail(f), l)
           \/ f = <<>> /\ l # <<>> /\ Encodes(next', pop', tail', Tail(l), <<>>)
<1>0. /\ next \in [Listed \cup {PushHead} -> Listed \cup {Null, End}]
      /\ Linked(next, pop, f) /\ Linked(next, next[PushHead], l)
    BY DEF Encodes
<1>1. f \in Seq(Listed) /\ l \in Seq(Listed)
    BY <1>0 DEF Linked
<1>2. CASE pop # End
    <2>1. pop \in Listed
        BY <1>0, <1>1, <1>2, MembersAre
    <2>2. next' = [next EXCEPT ![pop] = Null] /\ pop' = next[pop] /\ tail' = tail
        BY <1>2, <1>0, <2>1 DEF Lists!Pop
    <2>3. /\ Encodes([next EXCEPT ![pop] = Null], next[pop], tail,
                     Lists!Queue!Without(f, pop), Lists!Queue!Without(l, pop))
          /\ Lists!Queue!Without(f, pop) = Tail(f) /\ Lists!Queue!Without(l, pop) = l /\ Len(f) > 0
        BY <2>1, HeadRemoved
    <2> QED BY <2>2, <2>3
<1>3. CASE pop = End
    <2> DEFINE p == next[PushHead]
               mx == [next EXCEPT ![PushHead] = End]
    <2>1. p # End /\ p \in Listed
        BY <1>3, <1>0, MembersAre DEF Lists!Pop
    <2>2. f = <<>> /\ Encodes(mx, p, PushHead, l, <<>>)
        BY <1>3, ToggleStep
    <2>3. /\ next' = [mx EXCEPT ![p] = Null]
          /\ pop' = mx[p] /\ tail' = PushHead
        BY <1>3, <1>0, <2>1 DEF Lists!Pop, Lists!ListAssumption
    <2>4. Linked(mx, p, l)
        BY <2>2 DEF Encodes
    <2>5. Len(l) > 0 /\ l[1] = p /\ 1 \in 1 .. Len(l)
        <3>1. Len(l) \in Nat /\ p = IF Len(l) = 0 THEN End ELSE l[1]
            BY <1>0, <1>1, MembersAre
        <3> QED BY <3>1, <2>1
    <2> HIDE DEF mx, p
    <2>6. Encodes(next', mx[p], PushHead, Drop(l, 1), <<>>)
        <3>1. next' = FirstUnlinked(mx, l, 1)
            BY <2>3, <2>5 DEF FirstUnlinked
        <3>2. Encodes(next', IF 1 = 1 THEN mx[l[1]] ELSE p, PushHead, Drop(l, 1), <<>>)
            BY <2>2, <2>5, <3>1, DropFirst
        <3> QED BY <3>2, <2>5
    <2>7. Drop(l, 1) = Tail(l)
        BY <1>1, <2>5, DropHead
    <2>8. pop' = mx[p] /\ tail' = PushHead
        BY <2>3
    <2>9. Encodes(next', pop', tail', Tail(l), <<>>)
        BY <2>6, <2>7, <2>8
    <2>10. l # <<>>
        BY <2>5
    <2> QED BY <2>2, <2>9, <2>10
<1> QED BY <1>2, <1>3

-----------------------------------------------------------------------------
(* The whole.                                                               *)

(* What an asynchronous reset reaches before the start is not queued then:  *)
(* without this a process is queued twice (the last case of Early).         *)
EarlyIsLazy == Early \subseteq Lazy

Represented(f, l) == Encodes(next, pop, tail, f, l)

(* The pointers represent the sequences that are read off them, and whoever *)
(* prepare_to_simulate() has still to queue is in neither.                  *)
ListsInv ==
    /\ Represented(Lists!Chain(pop), Lists!Chain(next[PushHead]))
    /\ unpushed \subseteq Listed \ Lazy
    /\ \A p \in unpushed : next[p] = Null

(* It is enough that they represent any.                                    *)
LEMMA RepresentedNow ==
    ASSUME Lists!ListAssumption, IsFiniteSet(Listed), NEW f, NEW l, Represented(f, l)
    PROVE  f = Lists!Chain(pop) /\ l = Lists!Chain(next[PushHead])
BY EncodesChains DEF Represented, Lists!Chain

(* The same after a step.                                                   *)
LEMMA RepresentedNext ==
    ASSUME Lists!ListAssumption, IsFiniteSet(Listed), NEW f, NEW l,
           Encodes(next', pop', tail', f, l)
    PROVE  f = Lists!Chain(pop)' /\ l = Lists!Chain(next[PushHead])'
<1>1. f = Lists!Follow(next', pop') /\ l = Lists!Follow(next', next'[PushHead])
    BY EncodesChains
<1>2. Lists!Chain(pop)' = Lists!Follow(next', pop')
    BY DEF Lists!Chain
<1>3. Lists!Chain(next[PushHead])' = Lists!Follow(next', next'[PushHead])
    BY DEF Lists!Chain
<1> QED BY <1>1, <1>2, <1>3

(* It holds at first, when both sequences are empty.                        *)
LEMMA ListsInvInit ==
    ASSUME Lists!ListAssumption, IsFiniteSet(Listed), Lists!Init
    PROVE  ListsInv /\ Lists!Queue!Init
<1>1. Represented(<<>>, <<>>)
    BY EncodesInit DEF Represented
<1>2. <<>> = Lists!Chain(pop) /\ <<>> = Lists!Chain(next[PushHead])
    BY <1>1, RepresentedNow
<1>3. unpushed \subseteq Listed \ Lazy /\ \A p \in unpushed : next[p] = Null
    BY DEF Lists!Init, Lists!ListAssumption
<1> QED BY <1>1, <1>2, <1>3 DEF ListsInv, Lists!Queue!Init

(* The processes whose pointer is set are the members of the sequences.     *)
LEMMA QueuedIsSet ==
    ASSUME Lists!ListAssumption, NEW f, NEW l, Encodes(next, pop, tail, f, l), NEW p \in Listed
    PROVE  /\ next[p] # Null <=> p \in Lists!Queue!Members(f) \cup Lists!Queue!Members(l)
           /\ f \in Seq(Listed) /\ l \in Seq(Listed)
<1>1. f \in Seq(Listed) /\ l \in Seq(Listed)
    BY DEF Encodes, Linked
<1> QED BY <1>1, MembersWithin DEF Encodes

(* Every step of the lists is a step of the queue, or none.                 *)
LEMMA ListsStep ==
    ASSUME Lists!ListAssumption, IsFiniteSet(Listed), EarlyIsLazy, ListsInv, [Lists!Next]_(Lists!vars)
    PROVE  ListsInv' /\ [Lists!Queue!Next]_(Lists!Queue!vars)
<1> DEFINE f == Lists!Chain(pop)
           l == Lists!Chain(next[PushHead])
<1>0. Encodes(next, pop, tail, f, l)
    BY DEF ListsInv, Represented
<1>a. ASSUME NEW g, NEW m, Encodes(next', pop', tail', g, m)
      PROVE  f' = g /\ l' = m /\ Represented(f, l)'
    BY <1>a, RepresentedNext DEF Represented
<1>u. /\ unpushed \subseteq Listed \ Lazy
      /\ \A p \in unpushed : next[p] = Null
    BY DEF ListsInv
<1>q. \A p \in Listed : next[p] # Null <=> p \in Lists!Queue!Queued
    BY <1>0, QueuedIsSet DEF Lists!Queue!Queued
<1> HIDE DEF f, l
<1>r. Lists!Queue!Members(f) \cup Lists!Queue!Members(l) = Lists!Queue!Queued
    BY DEF f, l, Lists!Queue!Queued
<1>v. Lists!Queue!vars = <<f, l>> /\ (f' = f /\ l' = l => UNCHANGED Lists!Queue!vars)
    BY DEF f, l, Lists!Queue!vars
<1>b. \A p : p \notin Lists!Queue!Queued /\ l' = Append(l, p) /\ f' = f => Lists!Queue!PushBack(p)
    BY DEF f, l, Lists!Queue!PushBack
<1>f. \A p : p \notin Lists!Queue!Queued /\ l' = <<p>> \o l /\ f' = f => Lists!Queue!PushFront(p)
    BY DEF f, l, Lists!Queue!PushFront
<1>w. \A p : /\ p \in Lists!Queue!Queued
             /\ f' = Lists!Queue!Without(f, p) /\ l' = Lists!Queue!Without(l, p)
             => Lists!Queue!Withdraw(p)
    BY DEF f, l, Lists!Queue!Withdraw
<1>x. \A p : f' = <<p>> \o Lists!Queue!Without(f, p) /\ l' = Lists!Queue!Without(l, p)
              => Lists!Queue!ExecuteNext(p)
    BY DEF f, l, Lists!Queue!ExecuteNext
<1>p. /\ f # <<>> /\ f' = Tail(f) /\ l' = l => Lists!Queue!Pop
      /\ f = <<>> /\ l # <<>> /\ f' = Tail(l) /\ l' = <<>> => Lists!Queue!Pop
    BY DEF f, l, Lists!Queue!Pop
<1>1. ASSUME NEW p \in Listed, Lists!EarlyReset(p)
      PROVE  ListsInv' /\ Lists!Queue!ExecuteNext(p)
    <2>1. Lists!execute_next(p) /\ unpushed' = unpushed /\ p \in Lazy
        BY <1>1 DEF Lists!EarlyReset, EarlyIsLazy
    <2>2. Encodes(next', pop', tail', <<p>> \o Lists!Queue!Without(f, p), Lists!Queue!Without(l, p))
        BY <2>1, <1>0, ExecuteNextStep
    <2>3. /\ f' = <<p>> \o Lists!Queue!Without(f, p) /\ l' = Lists!Queue!Without(l, p)
          /\ Represented(f, l)'
        BY <2>2, <1>a
    <2>4. \A q \in unpushed : next'[q] = Null
        <3> SUFFICES ASSUME NEW q \in unpushed PROVE next'[q] = Null
            OBVIOUS
        <3>1. q \in Listed /\ q # p /\ next[q] = Null
            BY <1>u, <2>1
        <3>2. \A prior \in DOMAIN next : next[prior] = p => prior # q
            BY <3>1, <2>1 DEF Lists!ListAssumption
        <3>3. next \in [Listed \cup {PushHead} -> Listed \cup {Null, End}]
            BY <1>0 DEF Encodes
        <3> QED BY <2>1, <3>1, <3>2, <3>3 DEF Lists!execute_next, Lists!Unlinked, Lists!lists
    <2> QED BY <2>1, <2>3, <2>4, <1>u, <1>x DEF ListsInv, f, l
<1>2. ASSUME NEW p \in Listed, Lists!Prepare(p)
      PROVE  ListsInv' /\ Lists!Queue!PushFront(p)
    <2>1. Lists!push_front(p) /\ unpushed' = unpushed \ {p} /\ p \in unpushed /\ next[p] = Null
        BY <1>2, <1>u DEF Lists!Prepare
    <2>2. Encodes(next', pop', tail', f, <<p>> \o l)
        BY <2>1, <1>0, PushFrontStep
    <2>3. f' = f /\ l' = <<p>> \o l /\ Represented(f, l)'
        BY <2>2, <1>a
    <2>4. \A q \in unpushed' : next'[q] = Null
        <3>1. \A q \in unpushed' : q \in Listed /\ q # p /\ q # PushHead /\ next[q] = Null
            BY <1>u, <2>1 DEF Lists!ListAssumption
        <3>2. next \in [Listed \cup {PushHead} -> Listed \cup {Null, End}]
            BY <1>0 DEF Encodes
        <3> QED BY <2>1, <3>1, <3>2 DEF Lists!push_front
    <2>5. p \notin Lists!Queue!Queued
        BY <2>1, <1>q
    <2> QED BY <2>1, <2>3, <2>4, <2>5, <1>u, <1>f DEF ListsInv, f, l
<1>s. Lists!Simulating /\ UNCHANGED unpushed /\ Represented(f, l)' => ListsInv'
    BY DEF Lists!Simulating, ListsInv, f, l
<1>3. ASSUME NEW p \in Listed, Lists!Trigger(p)
      PROVE  ListsInv' /\ Lists!Queue!PushBack(p)
    <2>1. Lists!Simulating /\ Lists!push_back(p) /\ UNCHANGED unpushed /\ next[p] = Null
        BY <1>3 DEF Lists!Trigger, Lists!is_runnable
    <2>2. Encodes(next', pop', tail', f, Append(l, p))
        BY <2>1, <1>0, PushBackStep
    <2>3. f' = f /\ l' = Append(l, p) /\ Represented(f, l)'
        BY <2>2, <1>a
    <2>4. p \notin Lists!Queue!Queued
        BY <2>1, <1>q
    <2> QED BY <2>1, <2>3, <2>4, <1>s, <1>b
<1>4. ASSUME NEW p \in Listed, Lists!Conflict(p)
      PROVE  ListsInv' /\ Lists!Queue!PushFront(p)
    <2>1. Lists!Simulating /\ Lists!push_front(p) /\ UNCHANGED unpushed /\ next[p] = Null
        BY <1>4 DEF Lists!Conflict, Lists!is_runnable
    <2>2. Encodes(next', pop', tail', f, <<p>> \o l)
        BY <2>1, <1>0, PushFrontStep
    <2>3. f' = f /\ l' = <<p>> \o l /\ Represented(f, l)'
        BY <2>2, <1>a
    <2>4. p \notin Lists!Queue!Queued
        BY <2>1, <1>q
    <2> QED BY <2>1, <2>3, <2>4, <1>s, <1>f
<1>5. ASSUME NEW p \in Listed, Lists!Disable(p)
      PROVE  ListsInv' /\ Lists!Queue!Withdraw(p)
    <2>1. Lists!Simulating /\ Lists!remove(p) /\ UNCHANGED unpushed /\ next[p] # Null
        BY <1>5 DEF Lists!Disable, Lists!is_runnable
    <2>2. Encodes(next', pop', tail', Lists!Queue!Without(f, p), Lists!Queue!Without(l, p))
        BY <2>1, <1>0, RemoveStep
    <2>3. f' = Lists!Queue!Without(f, p) /\ l' = Lists!Queue!Without(l, p) /\ Represented(f, l)'
        BY <2>2, <1>a
    <2>4. p \in Lists!Queue!Queued
        BY <2>1, <1>q
    <2> QED BY <2>1, <2>3, <2>4, <1>s, <1>w
<1>6. ASSUME NEW p \in Listed, Lists!Reset(p)
      PROVE  ListsInv' /\ Lists!Queue!ExecuteNext(p)
    <2>1. Lists!Simulating /\ Lists!execute_next(p) /\ UNCHANGED unpushed
        BY <1>6 DEF Lists!Reset
    <2>2. Encodes(next', pop', tail', <<p>> \o Lists!Queue!Without(f, p), Lists!Queue!Without(l, p))
        BY <2>1, <1>0, ExecuteNextStep
    <2>3. /\ f' = <<p>> \o Lists!Queue!Without(f, p) /\ l' = Lists!Queue!Without(l, p)
          /\ Represented(f, l)'
        BY <2>2, <1>a
    <2> QED BY <2>1, <2>3, <1>s, <1>x
<1>7. ASSUME Lists!Dispatch
      PROVE  ListsInv' /\ Lists!Queue!Pop
    <2>1. Lists!Simulating /\ Lists!Pop /\ UNCHANGED unpushed
        BY <1>7 DEF Lists!Dispatch
    <2>2. \/ f # <<>> /\ Encodes(next', pop', tail', Tail(f), l)
          \/ f = <<>> /\ l # <<>> /\ Encodes(next', pop', tail', Tail(l), <<>>)
        BY <2>1, <1>0, PopStep
    <2>3. CASE f # <<>> /\ Encodes(next', pop', tail', Tail(f), l)
        <3>1. f' = Tail(f) /\ l' = l /\ Represented(f, l)'
            BY <2>3, <1>a
        <3> QED BY <2>1, <2>3, <3>1, <1>s, <1>p
    <2>4. CASE f = <<>> /\ l # <<>> /\ Encodes(next', pop', tail', Tail(l), <<>>)
        <3>1. f' = Tail(l) /\ l' = <<>> /\ Represented(f, l)'
            BY <2>4, <1>a
        <3> QED BY <2>1, <2>4, <3>1, <1>s, <1>p
    <2> QED BY <2>2, <2>3, <2>4
<1>8. ASSUME UNCHANGED Lists!vars
      PROVE  ListsInv' /\ UNCHANGED Lists!Queue!vars
    <2>1. next' = next /\ pop' = pop /\ tail' = tail /\ unpushed' = unpushed
        BY <1>8 DEF Lists!vars, Lists!lists
    <2>2. f' = f /\ l' = l /\ Represented(f, l)'
        BY <2>1, <1>0, <1>a
    <2> QED BY <2>1, <2>2, <1>u, <1>v DEF ListsInv, f, l
<1>9. ASSUME Lists!Next
      PROVE  ListsInv' /\ Lists!Queue!Next
    BY <1>9, <1>1, <1>2, <1>3, <1>4, <1>5, <1>6, <1>7 DEF Lists!Next, Lists!Queue!Next
<1> QED BY <1>8, <1>9

(* The sequences have no process twice, and say who is runnable.            *)
LEMMA ListsInvSafe ==
    ASSUME Lists!ListAssumption, ListsInv
    PROVE  Lists!QueuedOnce /\ Lists!RunnableIsQueued
<1> DEFINE f == Lists!Chain(pop)
           l == Lists!Chain(next[PushHead])
<1>0. Encodes(next, pop, tail, f, l)
    BY DEF ListsInv, Represented
<1>1. /\ Linked(next, pop, f) /\ Linked(next, next[PushHead], l)
      /\ f \in Seq(Listed) /\ l \in Seq(Listed)
      /\ \A p \in Listed : ~(Within(f, p) /\ Within(l, p))
      /\ \A p \in Listed : next[p] # Null <=> Within(f, p) \/ Within(l, p)
    BY <1>0 DEF Encodes, Linked
<1> HIDE DEF f, l
<1> DEFINE all == f \o l
<1>2. Lists!QueuedOnce
    <2>1. /\ Len(all) = Len(f) + Len(l) /\ Len(f) \in Nat /\ Len(l) \in Nat
          /\ \A i \in 1 .. Len(all) :
                \/ i \in 1 .. Len(f) /\ all[i] = f[i]
                \/ i > Len(f) /\ i - Len(f) \in 1 .. Len(l) /\ all[i] = l[i - Len(f)]
        BY <1>1
    <2>2. \A i, j \in 1 .. Len(f) : f[i] = f[j] => i = j
        BY <1>1 DEF Linked
    <2>3. \A i, j \in 1 .. Len(l) : l[i] = l[j] => i = j
        BY <1>1 DEF Linked
    <2>4. \A i \in 1 .. Len(f), j \in 1 .. Len(l) : f[i] # l[j]
        BY <1>1 DEF Within
    <2> HIDE DEF all
    <2>5. ASSUME NEW i \in 1 .. Len(all), NEW j \in 1 .. Len(all), all[i] = all[j]
          PROVE  i = j
        <3>1. CASE i <= Len(f) /\ j <= Len(f)
            BY <3>1, <2>1, <2>2, <2>5
        <3>2. CASE i <= Len(f) /\ j > Len(f)
            BY <3>2, <2>1, <2>4, <2>5
        <3>3. CASE i > Len(f) /\ j <= Len(f)
            BY <3>3, <2>1, <2>4, <2>5
        <3>4. CASE i > Len(f) /\ j > Len(f)
            <4>1. /\ i - Len(f) \in 1 .. Len(l) /\ j - Len(f) \in 1 .. Len(l)
                  /\ l[i - Len(f)] = l[j - Len(f)]
                BY <3>4, <2>1, <2>5
            <4>2. i - Len(f) = j - Len(f)
                BY <4>1, <2>3
            <4> QED BY <4>2, <2>1
        <3> QED BY <3>1, <3>2, <3>3, <3>4, <2>1
    <2> QED BY <2>5 DEF Lists!QueuedOnce, all, f, l
<1>3. Lists!RunnableIsQueued
    <2> DEFINE set == {f[i] : i \in DOMAIN f} \cup {l[i] : i \in DOMAIN l}
    <2>1. \A p \in Listed : Lists!is_runnable(p) <=> p \in set
        BY <1>1 DEF Within, Lists!is_runnable
    <2>2. Lists!is_empty <=> set = {}
        <3>1. pop = (IF Len(f) = 0 THEN End ELSE f[1]) /\ \A i \in 1 .. Len(f) : f[i] \in Listed
            BY <1>1, MembersAre
        <3>2. /\ next[PushHead] = IF Len(l) = 0 THEN End ELSE l[1]
              /\ \A i \in 1 .. Len(l) : l[i] \in Listed
            BY <1>1, MembersAre
        <3>3. set = {} <=> Len(f) = 0 /\ Len(l) = 0
            <4>1. ASSUME set = {} PROVE Len(f) = 0 /\ Len(l) = 0
                <5>1. Len(f) > 0 => 1 \in DOMAIN f /\ f[1] \in set
                    BY <1>1
                <5>2. Len(l) > 0 => 1 \in DOMAIN l /\ l[1] \in set
                    BY <1>1
                <5>3. Len(f) \in Nat /\ Len(l) \in Nat
                    BY <1>1
                <5> HIDE DEF set
                <5> QED BY <4>1, <5>1, <5>2, <5>3
            <4>2. ASSUME Len(f) = 0, Len(l) = 0 PROVE set = {}
                BY <4>2, <1>1
            <4> QED BY <4>1, <4>2
        <3>4. Len(f) \in Nat /\ Len(l) \in Nat
            BY <1>1
        <3>5. pop = End <=> Len(f) = 0
            BY <3>1, <3>4 DEF Lists!ListAssumption
        <3>6. next[PushHead] = End <=> Len(l) = 0
            BY <3>2, <3>4 DEF Lists!ListAssumption
        <3> QED BY <3>3, <3>5, <3>6 DEF Lists!is_empty
    <2> HIDE DEF set
    <2> QED BY <2>1, <2>2 DEF Lists!RunnableIsQueued, set, f, l
<1> QED BY <1>2, <1>3

(* No process is in the ready queue twice, is_runnable() tells who is in it *)
(* and is_empty() whether anybody is, for every set of processes.           *)
THEOREM ListsSafe ==
    ASSUME Lists!ListAssumption, IsFiniteSet(Listed), EarlyIsLazy
    PROVE  Lists!Spec => [](Lists!QueuedOnce /\ Lists!RunnableIsQueued)
<1>1. Lists!Init => ListsInv
    BY ListsInvInit
<1>2. ListsInv /\ [Lists!Next]_(Lists!vars) => ListsInv'
    BY ListsStep
<1>3. ListsInv => Lists!QueuedOnce /\ Lists!RunnableIsQueued
    BY ListsInvSafe
<1> QED BY <1>1, <1>2, <1>3, PTL DEF Lists!Spec

(* The linked lists with their shared pointers implement the two sequences  *)
(* of ReadyQueue: no removal loses a process, and the order is kept.        *)
THEOREM ListsImplement ==
    ASSUME Lists!ListAssumption, IsFiniteSet(Listed), EarlyIsLazy
    PROVE  Lists!Spec => Lists!ListsAreQueue
<1>1. Lists!Init => ListsInv /\ Lists!Queue!Init
    BY ListsInvInit
<1>2. ListsInv /\ [Lists!Next]_(Lists!vars) => ListsInv' /\ [Lists!Queue!Next]_(Lists!Queue!vars)
    BY ListsStep
<1> QED BY <1>1, <1>2, PTL DEF Lists!Spec, Lists!ListsAreQueue, Lists!Queue!Spec
=============================================================================
