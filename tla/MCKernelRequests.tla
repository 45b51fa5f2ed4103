-------------------------- MODULE MCKernelRequests --------------------------
(* Model-checking instance of KernelRequests.  Methods go round robin to    *)
(* the invokers, as create_method_process deals them.                       *)
EXTENDS KernelRequests, TLC

CONSTANTS t1, t2, t3, m1, m2, m3, i1, i2, root

MCInvokerOf == (m1 :> i1) @@ (m2 :> i2) @@ (m3 :> i1)
=============================================================================
