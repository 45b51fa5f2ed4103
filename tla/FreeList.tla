------------------------------ MODULE FreeList ------------------------------
(***************************************************************************)
(* The free list of the fixed-point representations, scfx_rep::operator new *)
(* and operator delete: one list for the program, shared by the processes   *)
(* that compute in parallel and therefore protected by a mutex which the    *)
(* constructor of a local object acquires and its destructor releases.  The *)
(* word lists of scfx_mant are handled in the same way.                     *)
(*                                                                          *)
(* Every access to shared memory is a step.                                 *)
(***************************************************************************)
EXTENDS Naturals, FiniteSets

CONSTANTS
    Process,
    Block,      \* the blocks the heap of the C++ library can still provide
    AllocSize,  \* ALLOC_SIZE, the nodes of a block
    MaxHeld,    \* how many objects a process holds at most
    Null

(* What is assumed of the constants; the model-checking modules assume it.  *)
FreeListAssumption ==
    /\ AllocSize \in Nat \ {0}
    /\ Null \notin Process \cup Block \cup Block \X (1..AllocSize)

Node == Block \X (1..AllocSize)

VARIABLES
    list,       \* static scfx_rep_node* list
    next,       \* the next pointers, in the nodes that are not in use
    blocks,     \* the blocks allocated so far
    owner,      \* of the mutex
    pc,
    ptr,        \* the local variable ptr, resp. node
    held        \* the objects of a process

vars == <<list, next, blocks, owner, pc, ptr, held>>

TypeOK ==
    /\ list \in Node \cup {Null}
    /\ next \in [Node -> Node \cup {Null}]
    /\ blocks \subseteq Block
    /\ owner \in Process \cup {Null}
    /\ pc \in [Process -> {"idle", "check", "take", "advance", "link", "put"}]
    /\ ptr \in [Process -> Node \cup {Null}]
    /\ held \in [Process -> SUBSET Node]

Init ==
    /\ list = Null
    /\ next = [n \in Node |-> Null]
    /\ blocks = {}
    /\ owner = Null
    /\ pc = [p \in Process |-> "idle"]
    /\ ptr = [p \in Process |-> Null]
    /\ held = [p \in Process |-> {}]

goto(p, from, to) == pc[p] = from /\ pc' = [pc EXCEPT ![p] = to]

-----------------------------------------------------------------------------
(* The constructor and the destructor of scfx_rep_list_lock.                *)
LockUnprotected(p) == UNCHANGED owner
Lock(p) == owner = Null /\ owner' = p
Unlock(p) == owner' = IF owner = p THEN Null ELSE owner

(* scfx_rep::operator new.                                                  *)
New(p) ==
    /\ goto(p, "idle", "check")
    /\ Cardinality(held[p]) < MaxHeld
    /\ Lock(p)
    /\ UNCHANGED <<list, next, blocks, ptr, held>>

Chain(b) ==
    [n \in Node |-> IF n[1] # b THEN next[n]
                    ELSE IF n[2] < AllocSize THEN <<b, n[2] + 1>> ELSE Null]

(* A new block becomes the list.                                            *)
Refill(b) ==
    /\ b \notin blocks
    /\ blocks' = blocks \cup {b}
    /\ list' = <<b, 1>>
    /\ next' = Chain(b)

Check(p) ==
    /\ goto(p, "check", "take")
    /\ IF list = Null THEN \E b \in Block : Refill(b) ELSE UNCHANGED <<list, next, blocks>>
    /\ UNCHANGED <<owner, ptr, held>>

Take(p) ==
    /\ goto(p, "take", "advance")
    /\ ptr' = [ptr EXCEPT ![p] = list]
    /\ UNCHANGED <<list, next, blocks, owner, held>>

Advance(p) ==
    /\ goto(p, "advance", "idle")
    /\ list' = next[list]
    /\ held' = [held EXCEPT ![p] = @ \cup {ptr[p]}]
    /\ ptr' = [ptr EXCEPT ![p] = Null]
    /\ Unlock(p)
    /\ UNCHANGED <<next, blocks>>

(* scfx_rep::operator delete.                                               *)
Delete(p, n) ==
    /\ goto(p, "idle", "link")
    /\ n \in held[p]
    /\ Lock(p)
    /\ held' = [held EXCEPT ![p] = @ \ {n}]
    /\ ptr' = [ptr EXCEPT ![p] = n]
    /\ UNCHANGED <<list, next, blocks>>

Link(p) ==
    /\ goto(p, "link", "put")
    /\ next' = [next EXCEPT ![ptr[p]] = list]
    /\ UNCHANGED <<list, blocks, owner, ptr, held>>

Put(p) ==
    /\ goto(p, "put", "idle")
    /\ list' = ptr[p]
    /\ ptr' = [ptr EXCEPT ![p] = Null]
    /\ Unlock(p)
    /\ UNCHANGED <<next, blocks, held>>

Next == \E p \in Process :
    New(p) \/ Check(p) \/ Take(p) \/ Advance(p) \/ Link(p) \/ Put(p)
    \/ \E n \in Node : Delete(p, n)

Spec == Init /\ [][Next]_vars

-----------------------------------------------------------------------------
(* The nodes in the list; a list that runs in a circle is cut.              *)
Free ==
    LET from[k \in 0..Cardinality(Node)] ==
            IF k = 0 THEN {list} \ {Null}
            ELSE from[k - 1] \cup ({next[n] : n \in from[k - 1]} \ {Null})
    IN  from[Cardinality(Node)]

InUse(p) == held[p] \cup ({ptr[p]} \ {Null})

(* No representation is used by two processes, and none is used while it    *)
(* lies in the list, where the next operator new would hand it out again    *)
(* (while new is under way its node is still the first of the list).        *)
UsedOnce ==
    /\ \A p, q \in Process : p # q => InUse(p) \cap InUse(q) = {}
    /\ \A p \in Process : held[p] \cap Free = {}

(* Every node of an allocated block is in the list or in use: operator      *)
(* delete does not lose one, whatever the other processes do meanwhile.     *)
NothingLost ==
    blocks \X (1..AllocSize) \subseteq Free \cup UNION {InUse(p) : p \in Process}
=============================================================================
