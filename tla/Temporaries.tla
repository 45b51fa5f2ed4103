----------------------------- MODULE Temporaries -----------------------------
(***************************************************************************)
(* sc_vpool: the temporary objects that part and bit selections return by   *)
(* reference, as in x.range(7, 4) = y.  They come from one static vector per*)
(* type whose index wraps around, without a mutex and without being given   *)
(* back: an object is valid until the index has come round.                 *)
(*                                                                          *)
(* Every process evaluates expressions over variables of its own, with      *)
(* several selections alive at once.  allocate() reads the index and writes *)
(* it, initialize() stores the variable, a use reads it.  With Overlap =    *)
(* FALSE an expression is evaluated before another process goes on, as in   *)
(* the sequential simulator.                                                *)
(***************************************************************************)
EXTENDS Naturals, Sequences

CONSTANTS
    Process,
    Wrap,       \* m_wrap: the vector has Wrap + 1 entries, a power of two
    MaxDepth,   \* how many selections an expression has alive at once
    Overlap,
    Null

(* What is assumed of the constants; the model-checking modules assume it.  *)
TemporariesAssumption ==
    /\ \E k \in 0..Wrap : Wrap + 1 = 2 ^ k
    /\ MaxDepth \in Nat
    /\ Overlap \in BOOLEAN

(* The variables of p, one for each selection of its expression.            *)
Variable == Process \X (1..MaxDepth)

VARIABLES
    m_pool_i,   \* the index of the next entry
    m_obj_p,    \* the variable an entry of the vector refers to
    pc,
    result_p,   \* the entry of the allocation under way
    refs,       \* the entries an expression holds, in the order of selection
    used        \* history: the variable meant and the one used, at the last use

vars == <<m_pool_i, m_obj_p, pc, result_p, refs, used>>

TypeOK ==
    /\ m_pool_i \in 0..Wrap
    /\ m_obj_p \in [0..Wrap -> Variable \cup {Null}]
    /\ pc \in [Process -> {"run", "advance", "initialize"}]
    /\ result_p \in [Process -> 0..Wrap]
    /\ refs \in [Process -> Seq(0..Wrap)]

Init ==
    /\ m_pool_i = 0
    /\ m_obj_p = [i \in 0..Wrap |-> Null]
    /\ pc = [p \in Process |-> "run"]
    /\ result_p = [p \in Process |-> 0]
    /\ refs = [p \in Process |-> <<>>]
    /\ used = <<>>

goto(p, from, to) == pc[p] = from /\ pc' = [pc EXCEPT ![p] = to]
MayEvaluate(p) ==
    Overlap \/ \A q \in Process \ {p} : pc[q] = "run" /\ refs[q] = <<>>

(* allocate(): result_p = &m_pool_p[m_pool_i].                              *)
Select(p) ==
    /\ goto(p, "run", "advance")
    /\ MayEvaluate(p)
    /\ Len(refs[p]) < MaxDepth
    /\ result_p' = [result_p EXCEPT ![p] = m_pool_i]
    /\ UNCHANGED <<m_pool_i, m_obj_p, refs, used>>

(* m_pool_i = (m_pool_i + 1) & m_wrap.                                      *)
AfterShort(i) == IF i + 1 >= Wrap THEN 0 ELSE i + 1
After(i) == (i + 1) % (Wrap + 1)

Advance(p) ==
    /\ goto(p, "advance", "initialize")
    /\ m_pool_i' = After(m_pool_i)
    /\ UNCHANGED <<m_obj_p, result_p, refs, used>>

(* result_p->initialize(this, left, right); return *result_p.               *)
Initialize(p) ==
    /\ goto(p, "initialize", "run")
    /\ m_obj_p' = [m_obj_p EXCEPT ![result_p[p]] = <<p, Len(refs[p]) + 1>>]
    /\ refs' = [refs EXCEPT ![p] = Append(@, result_p[p])]
    /\ UNCHANGED <<m_pool_i, result_p, used>>

(* The expression reads or assigns through the k-th of its selections.      *)
Use(p, k) ==
    /\ pc[p] = "run" /\ k \in DOMAIN refs[p]
    /\ used' = <<<<p, k>>, m_obj_p[refs[p][k]]>>
    /\ UNCHANGED <<m_pool_i, m_obj_p, pc, result_p, refs>>

(* The expression is evaluated.                                             *)
Evaluated(p) ==
    /\ pc[p] = "run" /\ refs[p] # <<>>
    /\ refs' = [refs EXCEPT ![p] = <<>>]
    /\ UNCHANGED <<m_pool_i, m_obj_p, pc, result_p, used>>

Next == \E p \in Process :
    Select(p) \/ Advance(p) \/ Initialize(p) \/ Evaluated(p)
    \/ \E k \in 1..MaxDepth : Use(p, k)

Spec == Init /\ [][Next]_vars

-----------------------------------------------------------------------------
(* A reference a selection returned leads to the variable that was selected, *)
(* and not to one of another selection or of another process, as long as    *)
(* the expression lasts.                                                    *)
MeansWhatWasSelected == used # <<>> => used[1] = used[2]
=============================================================================
