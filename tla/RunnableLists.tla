--------------------------- MODULE RunnableLists ---------------------------
(* sc_runnable: the ready queue, as two linked lists that share the pointer  *)
(* next_runnable of the processes.  A null pointer means that the process is *)
(* not queued, so that the end of a list is another value.  The code is      *)
(* written twice, for threads and for methods; this is one of them.          *)
EXTENDS Integers, Sequences, FiniteSets

CONSTANTS
    Process,
    Lazy,      \* processes with dont_initialize()
    Early,     \* processes that an asynchronous reset can reach before they start
    Null,      \* 0: not queued
    End,       \* SC_NO_THREADS
    PushHead       \* m_threads_push_head, a process that is never queued itself

(* What is assumed of the constants; the model-checking modules assume it.  *)
ListAssumption ==
    /\ Lazy \subseteq Process
    /\ Early \subseteq Process
    /\ Lazy # Process
    /\ PushHead \notin Process
    /\ {Null, End} \cap (Process \cup {PushHead}) = {}
    /\ Null # End

VARIABLES
    next,       \* m_runnable_p
    pop,        \* m_threads_pop
    tail,       \* m_threads_push_tail
    unpushed    \* the processes that prepare_to_simulate() has still to queue

lists == <<next, pop, tail>>
vars == <<lists, unpushed>>

Init ==
    /\ next = [n \in Process \cup {PushHead} |-> IF n = PushHead THEN End ELSE Null]
    /\ pop = End
    /\ tail = PushHead
    /\ unpushed = Process \ Lazy

is_runnable(p) == next[p] # Null
is_empty == next[PushHead] = End /\ pop = End

-----------------------------------------------------------------------------
push_front(p) ==
    /\ next' = [next EXCEPT ![p] = next[PushHead], ![PushHead] = p]
    /\ tail' = IF tail = PushHead THEN p ELSE tail
    /\ UNCHANGED pop

push_back(p) ==
    /\ next' = [next EXCEPT ![p] = End, ![tail] = p]
    /\ tail' = p
    /\ UNCHANGED pop

(* What becomes of the lists when p, which follows prior in one of them, is *)
(* taken out.                                                               *)
Unlinked(p, prior) == [next EXCEPT ![prior] = next[p], ![p] = Null]

(* A mistake: the tail keeps pointing to p.                                 *)
RemoveKeepsTail(p) ==
    IF pop = p THEN /\ pop' = next[p]
                    /\ next' = [next EXCEPT ![p] = Null]
                    /\ UNCHANGED tail
    ELSE \E prior \in DOMAIN next :
            /\ next[prior] = p
            /\ next' = Unlinked(p, prior)
            /\ UNCHANGED <<pop, tail>>

(* Searched in the push list first, and then in the pop list.               *)
remove(p) ==
    IF pop = p THEN /\ pop' = next[p]
                    /\ next' = [next EXCEPT ![p] = Null]
                    /\ UNCHANGED tail
    ELSE \E prior \in DOMAIN next :
            /\ next[prior] = p
            /\ next' = Unlinked(p, prior)
            /\ tail' = IF tail = p THEN prior ELSE tail
            /\ UNCHANGED pop

(* throw_reset(): remove_runnable_thread if it is queued, and then          *)
(* execute_thread_next.                                                     *)
execute_next(p) ==
    IF ~is_runnable(p)
    THEN next' = [next EXCEPT ![p] = pop] /\ pop' = p /\ UNCHANGED tail
    ELSE IF pop = p THEN UNCHANGED lists
    ELSE \E prior \in DOMAIN next :
            /\ next[prior] = p
            /\ next' = [Unlinked(p, prior) EXCEPT ![p] = pop]
            /\ tail' = IF tail = p THEN prior ELSE tail
            /\ pop' = p

(* A mistake: the push list is taken although the pop list has processes.   *)
PopToggles ==
    /\ next[PushHead] # End
    /\ pop' = next[next[PushHead]]
    /\ next' = [next EXCEPT ![PushHead] = End, ![next[PushHead]] = Null]
    /\ tail' = PushHead

(* toggle_threads() and then pop_thread().                                  *)
Pop ==
    LET toggled == pop = End
        p == IF toggled THEN next[PushHead] ELSE pop
    IN  /\ p # End
        /\ pop' = next[p]
        /\ next' = [next EXCEPT ![PushHead] = IF toggled THEN End ELSE @, ![p] = Null]
        /\ tail' = IF toggled THEN PushHead ELSE tail

-----------------------------------------------------------------------------
(* prepare_to_simulate(): the first update may reset processes, and then     *)
(* every process that is to be initialized is queued, already or not.        *)
EarlyReset(p) ==
    /\ unpushed = Process \ Lazy
    /\ p \in Early
    /\ execute_next(p)
    /\ UNCHANGED unpushed

Prepare(p) ==
    /\ p \in unpushed
    /\ push_front(p)
    /\ unpushed' = unpushed \ {p}

Simulating == unpushed = {}

(* The callers ask is_runnable() before they queue a process: the triggers  *)
(* of events at the back, a conflict in oooschedule at the front.           *)
Trigger(p) == Simulating /\ ~is_runnable(p) /\ push_back(p) /\ UNCHANGED unpushed
Conflict(p) == Simulating /\ ~is_runnable(p) /\ push_front(p) /\ UNCHANGED unpushed
Disable(p) == Simulating /\ is_runnable(p) /\ remove(p) /\ UNCHANGED unpushed
Reset(p) == Simulating /\ execute_next(p) /\ UNCHANGED unpushed
Dispatch == Simulating /\ Pop /\ UNCHANGED unpushed

Next ==
    \/ \E p \in Process :
          EarlyReset(p) \/ Prepare(p) \/ Trigger(p) \/ Conflict(p) \/ Disable(p) \/ Reset(p)
    \/ Dispatch

Spec == Init /\ [][Next]_vars

-----------------------------------------------------------------------------
TypeOK ==
    /\ next \in [Process \cup {PushHead} -> Process \cup {Null, End}]
    /\ pop \in Process \cup {End}
    /\ tail \in Process \cup {PushHead}
    /\ unpushed \subseteq Process

(* The processes met from n on, cut off if there is a cycle.                *)
Follow(pointers, n) ==
    LET At[k \in 0 .. Cardinality(Process)] ==
            IF k = 0 THEN n ELSE IF At[k - 1] \in Process THEN pointers[At[k - 1]] ELSE End
        Length == Cardinality({k \in DOMAIN At : At[k] \in Process})
    IN  [k \in 1 .. Length |-> At[k - 1]]

(* A list, from the head n on.                                              *)
Chain(n) == Follow(next, n)

(* No process is in the queue twice, whatever queued it (the assertion that *)
(* a process which is pushed is not queued, sc_runnable_int.h:220).          *)
QueuedOnce == LET all == Chain(pop) \o Chain(next[PushHead]) IN
    \A i, j \in 1 .. Len(all) : all[i] = all[j] => i = j

(* is_runnable() tells the processes that are queued from the others, and   *)
(* is_empty() that there is none.                                           *)
RunnableIsQueued ==
    LET Members(s) == {s[i] : i \in DOMAIN s}
        all == Members(Chain(pop)) \cup Members(Chain(next[PushHead])) IN
    /\ \A p \in Process : is_runnable(p) <=> p \in all
    /\ is_empty <=> all = {}

(* The two lists are the two sequences of ReadyQueue.                       *)
Queue == INSTANCE ReadyQueue WITH first <- Chain(pop), later <- Chain(next[PushHead])

(* Pointers, tail and end marks implement the queue: nothing is lost by a   *)
(* removal from either list, and the order of the dispatches is kept.       *)
ListsAreQueue == Queue!Spec
=============================================================================
