------------------------------ MODULE Timestamp ------------------------------
(* Simulated time as the processes of an out-of-order simulation carry it:  *)
(* every process has its own sc_timestamp, a time and a delta count, or the *)
(* infinite timestamp that stands for "never".                              *)
EXTENDS Integers, FiniteSets

(* sc_timestamp(-1,-1)                                                      *)
Infinite == <<-1, -1>>

FiniteTimestamp == Nat \X Nat
AnyTimestamp == FiniteTimestamp \cup {Infinite}

(* operator <: lexicographic, infinite after everything and not before      *)
(* itself.                                                                  *)
Before(a, b) ==
    /\ a # Infinite
    /\ b = Infinite \/ a[1] < b[1] \/ (a[1] = b[1] /\ a[2] < b[2])

(* operator ==: the infinite timestamp is equal to nothing, itself included.*)
Same(a, b) == a # Infinite /\ a = b

(* operator <=                                                              *)
NotAfter(a, b) == Before(a, b) \/ Same(a, b)

(* operator +: a positive time starts a new delta count.                    *)
Plus(a, b) ==
    IF a = Infinite \/ b = Infinite THEN Infinite
    ELSE IF b[1] > 0 THEN <<a[1] + b[1], 0>>
    ELSE <<a[1], a[2] + b[2]>>

(* sc_timestamp(0,1): the delay from a notification to the wake-up.         *)
Delta == <<0, 1>>

(* The smallest member of a set of timestamps, infinite if there is none.   *)
Earliest(S) ==
    IF \A x \in S : x = Infinite THEN Infinite
    ELSE CHOOSE x \in S : x # Infinite /\ \A y \in S : ~Before(y, x)

Later(a, b) == IF Before(a, b) THEN b ELSE a
=============================================================================
