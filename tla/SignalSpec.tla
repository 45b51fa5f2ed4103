------------------------------ MODULE SignalSpec ------------------------------
(***************************************************************************)
(* What primitive channels promise to the processes that use them, the      *)
(* evaluate-update semantics of SystemC: a process that runs reads the      *)
(* value a channel had when the evaluation phase began, whatever is written *)
(* meanwhile; when nobody runs any more every channel takes the value       *)
(* written last; and nobody runs again before all of them have.             *)
(***************************************************************************)
CONSTANTS Actor, Channel, Value, InitVal

VARIABLES
    visible,    \* what read() returns
    written,    \* the value each channel will have next
    awake       \* the processes in their evaluation phase

vars == <<visible, written, awake>>

Init ==
    /\ visible = [c \in Channel |-> InitVal]
    /\ written = visible
    /\ awake \in (SUBSET Actor) \ {{}}

Write == \E a \in awake, c \in Channel, v \in Value :
    /\ written' = [written EXCEPT ![c] = v]
    /\ UNCHANGED <<visible, awake>>

Sleep == \E a \in awake :
    /\ awake' = awake \ {a}
    /\ UNCHANGED <<visible, written>>

Update ==
    /\ awake = {}
    /\ visible' = written
    /\ UNCHANGED <<written, awake>>

Wake ==
    /\ awake = {}
    /\ visible = written
    /\ awake' \in (SUBSET Actor) \ {{}}
    /\ UNCHANGED <<visible, written>>

Next == Write \/ Sleep \/ Update \/ Wake

Spec == Init /\ [][Next]_vars
=============================================================================
