---------------------------- MODULE MCKernelLock ----------------------------
(* Model-checking instance of KernelLock: the outer channel o and the inner *)
(* channel i can be nested in that order.                                   *)
EXTENDS KernelLock, TLC

CONSTANTS p1, p2, p3, root, o, i, free

MCRank == (o :> 1) @@ (i :> 2)

(* The simulation processes are interchangeable.                            *)
MCSymmetry == Permutations(Process)
=============================================================================
