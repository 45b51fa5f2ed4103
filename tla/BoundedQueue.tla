---------------------------- MODULE BoundedQueue ----------------------------
(* What sc_fifo promises its users: a first-in first-out queue of at most    *)
(* Size elements, in which the effects of one delta cycle are mutually       *)
(* invisible: an element put in a cycle cannot be taken in it, and a place   *)
(* freed in a cycle cannot be filled in it.                                  *)
EXTENDS Naturals, Sequences

CONSTANTS Size, Value

VARIABLES
    queue,   \* the elements, oldest first
    fresh,   \* how many of them, at the end, were put in this cycle
    freed    \* how many places were freed in this cycle

vars == <<queue, fresh, freed>>

Init == queue = <<>> /\ fresh = 0 /\ freed = 0

Put(v) ==
    /\ Len(queue) + freed < Size
    /\ queue' = Append(queue, v)
    /\ fresh' = fresh + 1
    /\ UNCHANGED freed

Take ==
    /\ Len(queue) > fresh
    /\ queue' = Tail(queue)
    /\ freed' = freed + 1
    /\ UNCHANGED fresh

NextCycle == fresh' = 0 /\ freed' = 0 /\ UNCHANGED queue

Next == Take \/ NextCycle \/ \E v \in Value : Put(v)

Spec == Init /\ [][Next]_vars
=============================================================================
