------------------------------- MODULE MemPool -------------------------------
(***************************************************************************)
(* sc_allocator, the allocator of sc_mempool for one size of cells: it      *)
(* prefers the free list, then what is left of the newest block, then a new *)
(* block.  Values of sc_logic created with new take their cells here, from  *)
(* whatever process creates them, and there is no mutex.                    *)
(*                                                                          *)
(* Every access to shared memory is a step.  With Overlap = FALSE a call    *)
(* ends before the next one begins, as in the sequential simulator and      *)
(* during elaboration.                                                      *)
(***************************************************************************)
EXTENDS Naturals, FiniteSets

CONSTANTS
    Process,
    MaxBlocks,  \* how many blocks malloc() can provide
    Cells,      \* the cells of a block
    MaxHeld,    \* how many cells a process holds at most
    Overlap,    \* whether calls of different processes overlap
    Null

(* What is assumed of the constants; the model-checking modules assume it.  *)
MemPoolAssumption ==
    /\ MaxBlocks \in Nat \ {0}
    /\ Cells \in Nat \ {0, 1}       \* "assume that the block will hold more than one cell"
    /\ Overlap \in BOOLEAN

(* A cell is a block and a position.                                        *)
Cell == (1..MaxBlocks) \X (1..Cells)

VARIABLES
    free_list,
    next_avail,
    block_list, \* the number of blocks; the newest one is the head
    next,       \* the next pointers of the cells in the free list
    pc, ptr,    \* the local variables result and p
    held

vars == <<free_list, next_avail, block_list, next, pc, ptr, held>>

TypeOK ==
    /\ free_list \in Cell \cup {Null}
    /\ next_avail \in Cell \cup {Null}
    /\ block_list \in 0..MaxBlocks
    /\ next \in [Cell -> Cell \cup {Null}]
    /\ pc \in [Process -> {"idle", "allocate", "pop", "bump", "advance", "malloc", "link", "put"}]
    /\ ptr \in [Process -> Cell \cup {Null}]
    /\ held \in [Process -> SUBSET Cell]

Init ==
    /\ free_list = Null
    /\ next_avail = Null
    /\ block_list = 0
    /\ next = [c \in Cell |-> Null]
    /\ pc = [p \in Process |-> "idle"]
    /\ ptr = [p \in Process |-> Null]
    /\ held = [p \in Process |-> {}]

goto(p, from, to) == pc[p] = from /\ pc' = [pc EXCEPT ![p] = to]
MayEnter(p) == Overlap \/ \A q \in Process : pc[q] = "idle"

return(p, cell) ==
    /\ held' = [held EXCEPT ![p] = @ \cup {cell}]
    /\ ptr' = [ptr EXCEPT ![p] = Null]

-----------------------------------------------------------------------------
(* allocate().                                                              *)
Allocate(p) ==
    /\ goto(p, "idle", "allocate")
    /\ Cardinality(held[p]) < MaxHeld
    /\ MayEnter(p)
    /\ UNCHANGED <<free_list, next_avail, block_list, next, ptr, held>>

(* free_list != 0: its head is the result.                                  *)
FromFreeList(p) ==
    /\ goto(p, "allocate", "pop")
    /\ free_list # Null
    /\ ptr' = [ptr EXCEPT ![p] = free_list]
    /\ UNCHANGED <<free_list, next_avail, block_list, next, held>>

Pop(p) ==
    /\ goto(p, "pop", "idle")
    /\ free_list' = IF free_list = Null THEN Null ELSE next[free_list]
    /\ return(p, ptr[p])
    /\ UNCHANGED <<next_avail, block_list, next>>

(* free_list == 0 and next_avail != 0: the result is at next_avail.         *)
FromBlock(p) ==
    /\ goto(p, "allocate", "bump")
    /\ free_list = Null /\ next_avail # Null
    /\ ptr' = [ptr EXCEPT ![p] = next_avail]
    /\ UNCHANGED <<free_list, next_avail, block_list, next, held>>

(* next_avail advances; at the end of the block it is reset.                *)
After(cell) == IF cell[2] + 1 > Cells THEN Null ELSE <<cell[1], cell[2] + 1>>

Bump(p) ==
    /\ goto(p, "bump", "idle")
    /\ next_avail' = IF next_avail = Null THEN Null ELSE After(next_avail)
    /\ return(p, ptr[p])
    /\ UNCHANGED <<free_list, block_list, next>>

(* Neither: a new block, whose first cell is the result.                    *)
FromNewBlock(p) ==
    /\ goto(p, "allocate", "malloc")
    /\ free_list = Null /\ next_avail = Null
    /\ UNCHANGED <<free_list, next_avail, block_list, next, ptr, held>>

Malloc(p) ==
    /\ goto(p, "malloc", "idle")
    /\ block_list < MaxBlocks
    /\ block_list' = block_list + 1
    /\ next_avail' = <<block_list', 2>>
    /\ return(p, <<block_list', 1>>)
    /\ UNCHANGED <<free_list, next>>

(* release(): two writes.                                                   *)
Release(p, c) ==
    /\ goto(p, "idle", "link")
    /\ c \in held[p]
    /\ MayEnter(p)
    /\ held' = [held EXCEPT ![p] = @ \ {c}]
    /\ ptr' = [ptr EXCEPT ![p] = c]
    /\ UNCHANGED <<free_list, next_avail, block_list, next>>

LinkNone(p) ==
    /\ goto(p, "link", "put")
    /\ UNCHANGED <<free_list, next_avail, block_list, next, ptr, held>>
Link(p) ==
    /\ goto(p, "link", "put")
    /\ next' = [next EXCEPT ![ptr[p]] = free_list]
    /\ UNCHANGED <<free_list, next_avail, block_list, ptr, held>>

Put(p) ==
    /\ goto(p, "put", "idle")
    /\ free_list' = ptr[p]
    /\ ptr' = [ptr EXCEPT ![p] = Null]
    /\ UNCHANGED <<next_avail, block_list, next, held>>

Next == \E p \in Process :
    \/ Allocate(p) \/ FromFreeList(p) \/ Pop(p) \/ FromBlock(p) \/ Bump(p)
    \/ FromNewBlock(p) \/ Malloc(p) \/ Link(p) \/ Put(p)
    \/ \E c \in Cell : Release(p, c)

Spec == Init /\ [][Next]_vars

-----------------------------------------------------------------------------
Free ==
    LET from[k \in 0..Cardinality(Cell)] ==
            IF k = 0 THEN {free_list} \ {Null}
            ELSE from[k - 1] \cup ({next[c] : c \in from[k - 1]} \ {Null})
    IN  from[Cardinality(Cell)]

Ahead == IF next_avail = Null THEN {}
         ELSE {c \in Cell : c[1] = next_avail[1] /\ c[2] >= next_avail[2]}

(* The cells of two objects never overlap.                                  *)
CellUsedOnce == \A p, q \in Process : p # q => held[p] \cap held[q] = {}

(* Between calls the cells of all blocks are divided up: each is in use, in *)
(* the free list or ahead of next_avail, and in only one of them, so that   *)
(* no cell is lost and none can be handed out a second time.                *)
Quiet == \A p \in Process : pc[p] = "idle"
CellsAccounted ==
    Quiet =>
        LET used == UNION {held[p] : p \in Process} IN
        /\ (1..block_list) \X (1..Cells) = used \cup Free \cup Ahead
        /\ used \cap (Free \cup Ahead) = {}
        /\ Free \cap Ahead = {}
=============================================================================
