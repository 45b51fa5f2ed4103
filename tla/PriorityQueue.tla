---------------------------- MODULE PriorityQueue ----------------------------
(***************************************************************************)
(* sc_ppq: the binary heap that holds the timed notifications               *)
(* (m_timed_events), in an array that grows.  The array is a function over  *)
(* its allocated cells, so that an access outside of them is an error of    *)
(* the model; a cell nothing was stored in holds Garbage.                   *)
(***************************************************************************)
EXTENDS Naturals, FiniteSets, FiniteSetsExt

CONSTANTS
    Entry,      \* the sc_event_timed objects
    Time,       \* notify_time
    Sz,         \* the size the queue is constructed with
    Garbage     \* the content of an uninitialised cell

(* What is assumed of the constants; the model-checking modules assume it.  *)
PriorityQueueAssumption ==
    /\ Time \in [Entry -> Nat]
    /\ Sz \in Nat
    /\ Garbage \notin Entry

VARIABLES
    m_heap,         \* the array; the entries start at index 1
    m_heap_size,
    m_size_alloc,
    taken           \* history: the entry returned by the last extract_top

vars == <<m_heap, m_heap_size, m_size_alloc, taken>>

TypeOK ==
    /\ m_size_alloc \in Nat \ {0, 1}
    /\ m_heap \in [0..m_size_alloc -> Entry \cup {Garbage}]
    /\ m_heap_size \in 0..m_size_alloc
    /\ taken \subseteq Entry

-----------------------------------------------------------------------------
(* sc_notify_time_compare(a, b) < 0: the later one is the smaller one.      *)
Smaller(a, b) == Time[a] > Time[b]

parent(i) == i \div 2

Init ==
    /\ m_size_alloc = IF Sz < 2 THEN 2 ELSE Sz
    /\ m_heap = [i \in 0..m_size_alloc |-> Garbage]
    /\ m_heap_size = 0
    /\ taken = {}

(* The cells from i up to the root.                                         *)
Ancestors(i) == LET up[k \in Nat] == IF k = 0 THEN {} ELSE {k} \cup up[parent(k)] IN up[i]

(* Where elem comes to lie: the lowest cell on the way up from the end whose *)
(* parent is not smaller.                                                   *)
Place(heap, n, elem) ==
    Max({i \in Ancestors(n) : i = 1 \/ ~Smaller(heap[parent(i)], elem)})

Inserted(heap, n, elem) ==
    LET at == Place(heap, n, elem) IN
    [i \in DOMAIN heap |->
        IF i = at THEN elem
        ELSE IF i \in Ancestors(n) /\ i > at THEN heap[parent(i)] ELSE heap[i]]

(* insert: the array grows by half and the entries are copied.              *)
Grown(heap, n) ==
    IF n <= m_size_alloc THEN heap
    ELSE [i \in 0..m_size_alloc + m_size_alloc \div 2 |->
            IF i \in 1..n - 1 THEN heap[i] ELSE Garbage]

Contents == {m_heap[i] : i \in 1..m_heap_size}

insert(elem) ==
    LET heap == Grown(m_heap, m_heap_size + 1) IN
    /\ elem \notin Contents
    /\ m_heap_size' = m_heap_size + 1
    /\ m_heap' = Inserted(heap, m_heap_size + 1, elem)
    /\ m_size_alloc' = Max(DOMAIN heap)
    /\ taken' = {}

-----------------------------------------------------------------------------
(* heapify: the entry at i sinks to where no child is greater.              *)
LargestOfTwo(heap, n, i) ==
    LET l == 2 * i
        r == 2 * i + 1
    IN  IF Smaller(heap[i], heap[l]) THEN l
        ELSE IF r <= n /\ Smaller(heap[i], heap[r]) THEN r ELSE i
Largest(heap, n, i) ==
    LET l == 2 * i
        r == 2 * i + 1
        m == IF Smaller(heap[i], heap[l]) THEN l ELSE i
    IN  IF r <= n /\ Smaller(heap[m], heap[r]) THEN r ELSE m

heapify(heap, n) ==
    LET sink[k \in 1..n + 1] ==     \* the array once the first k - 1 levels are done
            IF k = 1 THEN [heap |-> heap, at |-> 1]
            ELSE LET s == sink[k - 1]
                     m == IF 2 * s.at > n THEN s.at ELSE Largest(s.heap, n, s.at)
                 IN  [heap |-> [s.heap EXCEPT ![s.at] = s.heap[m], ![m] = s.heap[s.at]],
                      at |-> m]
    IN  sink[n + 1].heap

(* extract_top: the last entry takes the place of the first and sinks.      *)
extract_top ==
    /\ m_heap_size > 0
    /\ taken' = {m_heap[1]}
    /\ m_heap_size' = m_heap_size - 1
    /\ m_heap' = heapify([m_heap EXCEPT ![1] = m_heap[m_heap_size]], m_heap_size - 1)
    /\ UNCHANGED m_size_alloc

Next == extract_top \/ \E e \in Entry : insert(e)

Spec == Init /\ [][Next]_vars

-----------------------------------------------------------------------------
(* The queue of timed notifications the heap implements.                    *)
Queue == INSTANCE TimedQueue WITH pending <- Contents

(* The heap, whatever the order of insertions and extractions and the       *)
(* growth of the array between them, yields every timed notification once   *)
(* and an earliest one first.                                               *)
ImplementsQueue == Queue!Spec

(* Nothing is lost or doubled when the array grows or the last entry moves  *)
(* to the front: the cells in use hold different entries, none an           *)
(* uninitialised one.                                                       *)
CellsDistinct ==
    /\ Garbage \notin Contents
    /\ Cardinality(Contents) = m_heap_size
=============================================================================
