--------------------------- MODULE DependencySets ---------------------------
(***************************************************************************)
(* The sets with which the scheduler avoids looking at all pairs of         *)
(* processes.  Each process keeps, by segment,                              *)
(*   contingent  those that may notify it: where its possible wake-up time  *)
(*               comes from when it enters a wait,                          *)
(*   dependent   those it may notify: to whom its wake-up time is handed on,*)
(*   conflict    those whose data may clash with its own.                   *)
(* prepare_to_simulate fills them for the first segments.  Afterwards only  *)
(* a thread that suspends brings them up to date (update_dependency_set),   *)
(* for itself and for the segments in which the others are at that moment;  *)
(* a method invoker adds a method that waits, and whoever becomes runnable  *)
(* is taken out of the sets of the methods.                                 *)
(*                                                                          *)
(* The sets of methods and of threads, apart in the code, are one set here, *)
(* and a method, which has one segment, has its sets under it.              *)
(***************************************************************************)
EXTENDS FiniteSets

CONSTANTS
    Thread,
    Method,
    Segment,
    First,      \* the segment each process starts in
    Flow,       \* pairs of successive segments of a thread
    Notifies,   \* pairs of segments: the first may lead to a notification
                \* that wakes a process waiting in the second
    Clashes,    \* entries of the combined data conflict table
    Late        \* processes that wait from the start (dont_initialize)

Process == Thread \cup Method

ASSUME DependencySetsAssumption ==
    /\ Thread \cap Method = {}
    /\ First \in [Process -> Segment]
    /\ Flow \subseteq Segment \X Segment
    /\ Notifies \subseteq Segment \X Segment
    /\ Clashes \subseteq Segment \X Segment
    /\ Late \subseteq Process

VARIABLES
    seg,        \* the segment a process executes, or will when it wakes
    waiting,    \* the processes that wait for events (m_process_state 2)
    checked,    \* dependency_checked_segs of the threads
    contingent, dependent, conflict

vars == <<seg, waiting, checked, contingent, dependent, conflict>>

SetsBySegment == [Process -> [Segment -> SUBSET Process]]

TypeOK ==
    /\ seg \in [Process -> Segment]
    /\ waiting \subseteq Process
    /\ checked \in [Thread -> SUBSET Segment]
    /\ contingent \in SetsBySegment
    /\ dependent \in SetsBySegment
    /\ conflict \in SetsBySegment
    /\ \A t \in Thread : seg[t] \in checked[t]

(* The predictions and conflicts of two processes in the segments g.        *)
May(g, q, p) == <<g[q], g[p]>> \in Notifies
Conflict(g, q, p) == <<g[q], g[p]>> \in Clashes

-----------------------------------------------------------------------------
(* prepare_to_simulate: the threads hand their times on to the threads they *)
(* may notify; to a method only if it waits from the start.                 *)
Init ==
    LET only(p, S) == [s \in Segment |-> IF s = First[p] THEN S ELSE {}]
    IN  /\ seg = First
        /\ waiting = Late
        /\ checked = [t \in Thread |-> {First[t]}]
        /\ contingent = [p \in Process |-> only(p, {q \in Process : May(First, q, p)})]
        /\ dependent = [q \in Process |-> only(q,
              {p \in Process : May(First, q, p) /\ (p \in Late \/ {p, q} \subseteq Thread)})]
        /\ conflict = [p \in Process |-> only(p, {q \in Process : Conflict(First, q, p)})]

(* update_dependency_set by the thread t, with g the segments after its     *)
(* step.  The methods that may notify t in a segment are looked for the     *)
(* first time it suspends there, they stay the same.                        *)
ContingentAfter(t, g) ==
    [p \in Process |-> [s \in Segment |-> contingent[p][s] \cup
        IF s # g[p] THEN {}
        ELSE IF p = t THEN {q \in Process : May(g, q, t) /\
                               (q \in Method => g[t] \notin checked[t])}
        ELSE IF May(g, t, p) THEN {t} ELSE {}]]

(* Faulty: t is not handed to those that may notify it.                     *)
DependentOwn(t, g) ==
    [dependent EXCEPT ![t] =
        [s \in Segment |-> IF s = g[t] THEN {q \in Process : May(g, t, q)} ELSE {}]]

(* t's own sets are made anew; the others get t added.                      *)
DependentAfter(t, g) ==
    LET notify(q) == IF q \in Method /\ g[t] \in checked[t]
                     THEN q \in contingent[t][g[t]] ELSE May(g, q, t)
    IN  [p \in Process |-> [s \in Segment |->
            IF p = t THEN IF s = g[t] THEN {q \in Process : May(g, t, q)} ELSE {}
            ELSE IF s = g[p] /\ notify(p) THEN dependent[p][s] \cup {t}
            ELSE dependent[p][s]]]

ConflictAfter(t, g) ==
    [p \in Process |-> [s \in Segment |-> conflict[p][s] \cup
        IF s # g[p] THEN {}
        ELSE IF p = t THEN {q \in Process : Conflict(g, q, t)}
        ELSE IF Conflict(g, t, p) /\ (p \in Method => g[t] \notin checked[t])
             THEN {t} ELSE {}]]

(* wait() of a thread: with timed it waits for time only and is not among   *)
(* the processes an event can wake.                                         *)
Suspend(t, s, timed) ==
    /\ t \notin waiting
    /\ <<seg[t], s>> \in Flow
    /\ LET g == [seg EXCEPT ![t] = s]
       IN  /\ seg' = g
           /\ contingent' = ContingentAfter(t, g)
           /\ dependent' = DependentAfter(t, g)
           /\ conflict' = ConflictAfter(t, g)
    /\ checked' = [checked EXCEPT ![t] = @ \cup {s}]
    /\ waiting' = IF timed THEN waiting ELSE waiting \cup {t}

(* A method returns to its invoker, which makes it wait.                    *)
Return(m) ==
    /\ m \notin waiting
    /\ waiting' = waiting \cup {m}
    /\ dependent' = [q \in Process |-> [s \in Segment |->
            IF q \in Method \cap contingent[m][seg[m]] THEN dependent[q][s] \cup {m}
            ELSE dependent[q][s]]]
    /\ UNCHANGED <<seg, checked, contingent, conflict>>

(* push_runnable_thread, push_runnable_method                               *)
PushRunnable(p) ==
    /\ p \in waiting
    /\ waiting' = waiting \ {p}
    /\ dependent' = [q \in Process |-> [s \in Segment |->
            IF q \in Method \cap contingent[p][seg[p]] THEN dependent[q][s] \ {p}
            ELSE dependent[q][s]]]
    /\ UNCHANGED <<seg, checked, contingent, conflict>>

Next ==
    \/ \E t \in Thread, s \in Segment, timed \in BOOLEAN : Suspend(t, s, timed)
    \/ \E m \in Method : Return(m)
    \/ \E p \in Process : PushRunnable(p)

Spec == Init /\ [][Next]_vars

-----------------------------------------------------------------------------
(* A process that waits has in its contingent set everybody who, in the     *)
(* segment he is in now, may notify it: the prediction at the start of a    *)
(* wait misses nobody.                                                      *)
ContingentComplete ==
    \A p \in waiting, q \in Process : May(seg, q, p) => q \in contingent[p][seg[p]]

(* A process that waits hands its possible wake-up time on to everybody that*)
(* waits and that it may notify: "now we can use earliest_wakeup_time to    *)
(* update tau of other waiting threads".                                    *)
DependentComplete ==
    \A p, q \in waiting : May(seg, q, p) => p \in dependent[q][seg[q]]

(* Nobody whose data may clash with those of p is left out of the processes *)
(* has_no_conflicts looks at before it lets p run.                          *)
ConflictComplete ==
    \A p, q \in Process : Conflict(seg, q, p) => q \in conflict[p][seg[p]]

(* The caches are complete: no prediction, no handing on of a wake-up time  *)
(* and no conflict check misses a process (update_dependency_set).          *)
TablesComplete ==
    /\ TypeOK
    /\ ContingentComplete
    /\ DependentComplete
    /\ ConflictComplete
=============================================================================
