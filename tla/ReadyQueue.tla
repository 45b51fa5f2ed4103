----------------------------- MODULE ReadyQueue -----------------------------
(* What the scheduler needs of its queue of ready processes: two lists, of   *)
(* which the first is being emptied while processes join the second.        *)
EXTENDS Integers, Sequences

CONSTANT Process

VARIABLES first, later

Members(s) == {s[i] : i \in DOMAIN s}

Queued == Members(first) \cup Members(later)

(* s without p, which occurs in it at most once.                            *)
Without(s, p) ==
    IF p \in Members(s)
    THEN LET i == CHOOSE i \in DOMAIN s : s[i] = p
         IN  [k \in 1 .. (Len(s) - 1) |-> IF k < i THEN s[k] ELSE s[k + 1]]
    ELSE s

vars == <<first, later>>

Init == first = <<>> /\ later = <<>>

PushBack(p) == p \notin Queued /\ later' = Append(later, p) /\ UNCHANGED first
PushFront(p) == p \notin Queued /\ later' = <<p>> \o later /\ UNCHANGED first
Withdraw(p) ==
    /\ p \in Queued
    /\ first' = Without(first, p)
    /\ later' = Without(later, p)

(* p becomes the next one, wherever it was.                                 *)
ExecuteNext(p) ==
    /\ first' = <<p>> \o Without(first, p)
    /\ later' = Without(later, p)

Pop ==
    \/ first # <<>> /\ first' = Tail(first) /\ UNCHANGED later
    \/ first = <<>> /\ later # <<>> /\ first' = Tail(later) /\ later' = <<>>

Next ==
    \/ \E p \in Process : PushBack(p) \/ PushFront(p) \/ Withdraw(p) \/ ExecuteNext(p)
    \/ Pop

Spec == Init /\ [][Next]_vars
=============================================================================
