--------------------------- MODULE ResolvedSignal ---------------------------
(* sc_signal_resolved and sc_signal_rv: a signal that every writer drives    *)
(* with a value of its own.  write() looks the process up in m_proc_vec and  *)
(* keeps its value at the same place of m_val_vec; update() resolves the     *)
(* values, bit by bit, with a table.                                         *)
(*                                                                           *)
(* Unlike every other channel, write() takes no lock: the two vectors are    *)
(* read and grown by whatever processes write in the same delta cycle.  A    *)
(* push_back reads the size and then stores the element and the new size.    *)
EXTENDS Naturals, Sequences, FiniteSets

CONSTANTS
    Process,    \* the processes that drive the signal
    Width,      \* W of sc_signal_rv<W>; 1 for sc_signal_resolved
    Written,    \* the values the processes write
    Parallel    \* do processes of one delta cycle run at the same time?

Logic == {"0", "1", "Z", "X"}
Vector == [1 .. Width -> Logic]

(* What is assumed of the constants; the model-checking modules assume it.  *)
ResolvedAssumption ==
    /\ Width \in Nat \ {0} /\ Written \subseteq Vector
    /\ Parallel \in BOOLEAN

VARIABLES
    procs,      \* m_proc_vec
    vals,       \* m_val_vec
    cur,        \* m_cur_val
    requested,  \* the channel is in the update list
    at,         \* where each process is in write()
    arg,        \* the value it writes
    size,       \* the size a push_back has read
    running,    \* m_curr_proc_queue
    wrote       \* history: the last value each process has written

call == <<at, arg, size>>
vars == <<procs, vals, cur, requested, call, running, wrote>>

Nothing == [b \in 1 .. Width |-> "X"]     \* sc_lv is X initially

Init ==
    /\ procs = <<>> /\ vals = <<>>
    /\ cur = Nothing
    /\ requested = FALSE
    /\ at = [p \in Process |-> "user"]
    /\ arg = [p \in Process |-> Nothing]
    /\ size = [p \in Process |-> 0]
    /\ running = Process
    /\ wrote = <<>>

-----------------------------------------------------------------------------
(* A mistake in one entry: 0 beats 1.                                       *)
RowOr(a) == CASE a = "0" -> <<"0", "1", "0", "X">>
              [] a = "1" -> <<"X", "1", "1", "X">>
              [] a = "Z" -> <<"0", "1", "Z", "X">>
              [] a = "X" -> <<"X", "X", "X", "X">>

(* sc_logic_resolution_tbl, in the order 0, 1, Z, X.                        *)
Row(a) == CASE a = "0" -> <<"0", "X", "0", "X">>
            [] a = "1" -> <<"X", "1", "1", "X">>
            [] a = "Z" -> <<"0", "1", "Z", "X">>
            [] a = "X" -> <<"X", "X", "X", "X">>
Column(b) == CHOOSE i \in 1 .. 4 : <<"0", "1", "Z", "X">>[i] = b

(* The loop starts from the first value, goes through the others from the   *)
(* last one to the second, and stops at X.                                  *)
ResolveBit(s, b) ==
    LET res[i \in 1 .. Len(s)] ==
            IF i = Len(s) THEN s[1][b]
            ELSE IF res[i + 1] = "X" THEN "X"
            ELSE Row(res[i + 1])[Column(s[i + 1][b])]
    IN  res[1]

resolve(s) == [b \in 1 .. Width |-> ResolveBit(s, b)]

-----------------------------------------------------------------------------
(* write()                                                                  *)

Moves(p) ==
    /\ p \in running
    /\ Parallel \/ \A q \in Process \ {p} : at[q] = "user"

Goto(p, place) == at' = [at EXCEPT ![p] = place]

(* The loop over m_proc_vec.                                                *)
Found(p) == {i \in DOMAIN procs : procs[i] = p}
LastOf(S) == CHOOSE i \in S : \A j \in S : j <= i

Write(p, v) ==
    /\ Moves(p) /\ at[p] = "user"
    /\ arg' = [arg EXCEPT ![p] = v]
    /\ wrote' = [q \in DOMAIN wrote \cup {p} |-> IF q = p THEN v ELSE wrote[q]]
    /\ IF Found(p) = {}
       THEN Goto(p, "pushProc") /\ UNCHANGED vals
       ELSE LET i == LastOf(Found(p))
            IN  IF i \in DOMAIN vals /\ vals[i] = v
                THEN UNCHANGED <<at, vals>>
                ELSE /\ vals' = IF i \in DOMAIN vals THEN [vals EXCEPT ![i] = v] ELSE vals
                     /\ Goto(p, "request")
    /\ UNCHANGED <<procs, cur, requested, size, running>>

(* push_back reads the size of the vector it grows ...                      *)
ReadSize(p, place, s, next) ==
    /\ Moves(p) /\ at[p] = place
    /\ size' = [size EXCEPT ![p] = Len(s)]
    /\ Goto(p, next)
    /\ UNCHANGED <<procs, vals, cur, requested, arg, running, wrote>>

(* ... and stores the element at that place, which becomes the last one.    *)
Grown(s, n, x) == [i \in 1 .. n + 1 |-> IF i = n + 1 THEN x ELSE s[i]]

StoreProc(p) ==
    /\ Moves(p) /\ at[p] = "storeProc"
    /\ procs' = Grown(procs, size[p], p)
    /\ Goto(p, "pushVal")
    /\ UNCHANGED <<vals, cur, requested, arg, size, running, wrote>>

StoreVal(p) ==
    /\ Moves(p) /\ at[p] = "storeVal"
    /\ vals' = Grown(vals, size[p], arg[p])
    /\ Goto(p, "request")
    /\ UNCHANGED <<procs, cur, requested, arg, size, running, wrote>>

(* request_update (UpdatePhase).                                            *)
RequestUpdate(p) ==
    /\ Moves(p) /\ at[p] = "request"
    /\ requested' = TRUE
    /\ Goto(p, "user")
    /\ UNCHANGED <<procs, vals, cur, arg, size, running, wrote>>

Suspend(p) ==
    /\ Moves(p) /\ at[p] = "user"
    /\ running' = running \ {p}
    /\ UNCHANGED <<procs, vals, cur, requested, call, wrote>>

(* The update phase, after which any of the processes run again.            *)
Update(P) ==
    /\ running = {} /\ P # {}
    /\ running' = P
    /\ requested' = FALSE
    /\ cur' = IF requested THEN resolve(vals) ELSE cur
    /\ UNCHANGED <<procs, vals, call, wrote>>

Next ==
    \/ \E p \in Process :
         \/ \E v \in Written : Write(p, v)
         \/ ReadSize(p, "pushProc", procs, "storeProc")
         \/ StoreProc(p)
         \/ ReadSize(p, "pushVal", vals, "storeVal")
         \/ StoreVal(p)
         \/ RequestUpdate(p)
         \/ Suspend(p)
    \/ \E P \in SUBSET Process : Update(P)

Spec == Init /\ [][Next]_vars

-----------------------------------------------------------------------------
TypeOK ==
    /\ procs \in Seq(Process) /\ vals \in Seq(Vector)
    /\ cur \in Vector
    /\ requested \in BOOLEAN
    /\ at \in [Process -> {"user", "pushProc", "storeProc", "pushVal", "storeVal", "request"}]
    /\ arg \in [Process -> Vector]
    /\ size \in [Process -> Nat]
    /\ running \subseteq Process
    /\ DOMAIN wrote \subseteq Process

(* What the drivers say together: a bit is X if one of them says so or if   *)
(* two contradict each other, Z if nobody drives it.                        *)
Resolution(drivers) ==
    [b \in 1 .. Width |->
        LET said == {drivers[p][b] : p \in DOMAIN drivers}
        IN  IF "X" \in said \/ {"0", "1"} \subseteq said THEN "X"
            ELSE IF "0" \in said THEN "0"
            ELSE IF "1" \in said THEN "1"
            ELSE "Z"]

(* The vectors hold, one entry each, the processes that have written and    *)
(* the last value each of them has written ("processes writing this signal",*)
(* "new values written this signal").                                       *)
DriversKnown ==
    LET quiet == {p \in Process : at[p] = "user"}
    IN  \A p \in DOMAIN wrote \cap quiet :
            \E i \in DOMAIN procs \cap DOMAIN vals :
                /\ procs[i] = p /\ vals[i] = wrote[p]
                /\ \A j \in DOMAIN procs : procs[j] = p => j = i

(* What a cycle leaves behind is what the drivers say together, whichever   *)
(* of them wrote, in whatever order, and whoever was found in the vectors:  *)
(* a value that is not the current one is about to be updated.              *)
Resolved ==
    (\A p \in Process : at[p] = "user") /\ wrote # <<>> =>
        requested \/ cur = Resolution(wrote)
=============================================================================
