--------------------------- MODULE PredictionHeap ---------------------------
(***************************************************************************)
(* The loop of predict_wakeup_time_by_waiting_threads: the processes whose  *)
(* possible wake-up time has become earlier lie in a heap; the first one is *)
(* taken out and makes the waiting processes it can notify earlier, which   *)
(* go into the heap again, until no changed process is left.                *)
(*                                                                          *)
(* make_heap and pop_heap compare the wake-up times, push_heap is called    *)
(* without the comparator and compares the addresses of the processes;      *)
(* besides, the times change while the processes lie in the heap.  The heap *)
(* is modelled as the library of the compiler keeps it.                     *)
(*                                                                          *)
(* OoOSchedule takes the result of the loop in one step (Relax): here it is *)
(* shown that the loop comes to that result, whatever the heap yields.      *)
(***************************************************************************)
EXTENDS Naturals, Sequences, FiniteSets, SequencesExt

CONSTANTS
    Process,    \* the waiting processes
    Table,      \* prediction table: the least time from a to b, or Infinite
    Direct,     \* the wake-up times the first two parts of a prediction give
    Distance,   \* the values of min_PWT_distance they leave
    Infinite,   \* greater than every time that occurs
    None        \* no defining process

(* What is assumed of the constants; the model-checking modules assume it.  *)
PredictionHeapAssumption ==
    /\ Infinite \in Nat
    /\ Table \in [Process \X Process -> 1..Infinite]
    /\ Direct \subseteq 0..Infinite
    /\ Distance \subseteq 0..Infinite
    /\ None \notin Process

VARIABLES
    minheap,    \* the vector, front first
    mod,        \* mod_wakeup_proc
    pwt,        \* possible_wakeup_time
    definer,    \* PWT_defining_proc
    direct,     \* the wake-up times at the start
    distance,   \* min_PWT_distance
    address,    \* where the objects lie in memory
    visited     \* history: the processes taken so far

vars == <<minheap, mod, pwt, definer, direct, distance, address, visited>>

TypeOK ==
    /\ minheap \in Seq(Process)
    /\ mod \subseteq Process
    /\ pwt \in [Process -> 0..Infinite]
    /\ definer \in [Process -> Process \cup {None}]
    /\ visited \subseteq Process

-----------------------------------------------------------------------------
(* The heap functions of the standard library, for any order: less[a, b]    *)
(* means that a lies below b.                                               *)
SiftUp(h, top, at, v, less) ==
    LET up[k \in 1..Len(h)] ==
            IF k > top /\ less[h[k \div 2], v]
            THEN [up[k \div 2] EXCEPT ![k] = h[k \div 2]]
            ELSE [h EXCEPT ![k] = v]
    IN  up[at]

(* The element v sinks from top to the bottom and rises again.              *)
Adjust(h, top, v, less) ==
    LET n == Len(h)
        child(k) == IF 2 * k + 1 <= n /\ ~less[h[2 * k + 1], h[2 * k]] THEN 2 * k + 1 ELSE 2 * k
        bottom[k \in 1..n] == IF 2 * k > n THEN k ELSE bottom[child(k)]
        down[k \in 1..n] ==
            IF 2 * k > n THEN h ELSE [down[child(k)] EXCEPT ![k] = h[child(k)]]
    IN  SiftUp(down[top], top, bottom[top], v, less)

push_heap(h, v, less) == SiftUp(Append(h, v), 1, Len(h) + 1, v, less)

pop_heap(h, less) ==
    IF Len(h) = 1 THEN <<>> ELSE Adjust(Front(h), 1, Last(h), less)

make_heap(h, less) ==
    LET built[k \in 1..(Len(h) \div 2 + 1)] ==
            IF k > Len(h) \div 2 THEN h
            ELSE Adjust(built[k + 1], k, built[k + 1][k], less)
    IN  built[1]

-----------------------------------------------------------------------------
Addresses == {f \in [Process -> 1..Cardinality(Process)] : IsInjective(f)}

(* The orders in which a hash set may be run through.                       *)
Orders(S) == SetToSeqs(S)

Init ==
    /\ direct \in [Process -> Direct]
    /\ distance \in [Process -> Distance]
    /\ address \in Addresses
    /\ pwt = direct
    /\ mod = {p \in Process : direct[p] # Infinite}
    /\ \E first \in Orders(mod) :
         LET heap_cmp == [p, q \in Process |-> direct[p] > direct[q]]
         IN  minheap = make_heap(first, heap_cmp)
    /\ definer = [p \in Process |-> None]
    /\ visited = {}

(* What the process q, taken with the time it has now, predicts for p.      *)
At(q, p) == pwt[q] + Table[q, p]

Dependents(q) == {p \in Process : Table[q, p] # Infinite}

(* Faulty: a process that has been visited is settled.                      *)
EarlierUnvisited(q) == {p \in Dependents(q) \ visited : At(q, p) < pwt[p]}

Earlier(q) == {p \in Dependents(q) : At(q, p) < pwt[p]}

(* As early, but over a shorter way than the one that is known.             *)
Tie(q) == {p \in Dependents(q) : At(q, p) = pwt[p] /\ Table[q, p] < distance[p]}

Defines(q) == Earlier(q) \cup Tie(q)

(* The changed processes enter the heap one by one, by their addresses.     *)
Push(h, order) ==
    LET less == [p, q \in Process |-> address[p] < address[q]]
    IN  FoldLeft(LAMBDA acc, p : push_heap(acc, p, less), h, order)

Finished == IF mod = {} THEN TRUE ELSE pwt[minheap[1]] = Infinite

Changed(q) == (mod \ {q}) \cup Earlier(q)

Visit ==
    /\ ~Finished
    /\ LET q == minheap[1]
           heap_cmp == [a, b \in Process |-> pwt[a] > pwt[b]]
       IN  /\ \E order \in Orders(Earlier(q)) :
                minheap' = Push(pop_heap(minheap, heap_cmp), order)
           /\ mod' = Changed(q)
           /\ pwt' = [p \in Process |-> IF p \in Earlier(q) THEN At(q, p) ELSE pwt[p]]
           /\ definer' = [p \in Process |-> IF p \in Defines(q) THEN q ELSE definer[p]]
           /\ visited' = visited \cup {q}
    /\ UNCHANGED <<direct, distance, address>>

Terminating == Finished /\ UNCHANGED vars

Next == Visit \/ Terminating

Spec == Init /\ [][Next]_vars /\ WF_vars(Visit)

-----------------------------------------------------------------------------
(* The loop never looks at the front of an empty vector: every process that *)
(* has changed lies in the heap, although heap and set are kept apart.      *)
HeapCovers == \A p \in mod : \E i \in DOMAIN minheap : minheap[i] = p

(* The reference: the least times that satisfy every prediction.            *)
Least ==
    LET round[n \in 0..Cardinality(Process)] ==
            IF n = 0 THEN direct
            ELSE [p \in Process |->
                    LET times == {round[n - 1][p]} \cup
                            {round[n - 1][q] + Table[q, p] : q \in
                                {q \in Process : round[n - 1][q] # Infinite /\ Table[q, p] # Infinite}}
                    IN  CHOOSE t \in times : \A u \in times : t <= u]
    IN  round[Cardinality(Process)]

(* At the end every process has its least possible wake-up time.            *)
Exact == Finished => pwt = Least

(* At the end the time of a process that has a defining process is the one  *)
(* that process predicts: what predict_wakeup_create_defining_tree discards *)
(* when that process enters a new wait.                                     *)
DefinerDefines ==
    Finished => \A p \in Process : definer[p] # None => pwt[p] = At(definer[p], p)

(* The loop ends.                                                           *)
Ends == <>Finished

(* "we start by getting the first waiting thread that is not visited".      *)
FirstIsEarliest == mod # {} => \A p \in mod : pwt[minheap[1]] <= pwt[p]
=============================================================================
