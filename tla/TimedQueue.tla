----------------------------- MODULE TimedQueue -----------------------------
(* What a queue of timed notifications promises: what was inserted comes out *)
(* once, and never before something that is earlier.                         *)
EXTENDS Naturals

CONSTANTS
    Entry,
    Time       \* when an entry is due

VARIABLES
    pending,   \* the entries in the queue
    taken      \* the entry taken out last, if the last step took one

vars == <<pending, taken>>

Earliest == {e \in pending : \A f \in pending : Time[e] <= Time[f]}

Init == pending = {} /\ taken = {}

Put(e) ==
    /\ e \notin pending
    /\ pending' = pending \cup {e}
    /\ taken' = {}

Take ==
    /\ \E e \in Earliest : taken' = {e}
    /\ pending' = pending \ taken'

Next == Take \/ \E e \in Entry : Put(e)

Spec == Init /\ [][Next]_vars
=============================================================================
