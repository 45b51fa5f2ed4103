-------------------------------- MODULE Join --------------------------------
(***************************************************************************)
(* sc_join: a process registers the threads it joins (add_process) and      *)
(* waits until all of them have ended.  A thread keeps the joins that       *)
(* monitor it in m_monitor_q; when it ends, disconnect_process signals      *)
(* every one of them, and each signal takes the join out of that same queue *)
(* while the loop runs over it: the element is overwritten by the last one  *)
(* and the vector is made one shorter.  The loop goes on to the length the  *)
(* queue had at first, into elements the vector no longer counts but whose  *)
(* storage it has kept.  The model therefore keeps the storage and the size.*)
(*                                                                          *)
(* add_process takes no lock.  With Early, a thread may end while a process *)
(* that joins it is still registering.                                      *)
(***************************************************************************)
EXTENDS Naturals, Sequences, FiniteSets

CONSTANTS
    Thread,     \* the threads that are joined
    Joiner,     \* the joins, one process each
    Adds,       \* the threads each joiner registers, in order
    Clocked,    \* the joiners that use wait_clocked (SC_CJOIN)
    Early       \* may a thread end before its joiners wait

(* What is assumed of the constants; the model-checking modules assume it.  *)
JoinAssumption ==
    /\ Adds \in [Joiner -> Seq(Thread)]
    /\ Clocked \subseteq Joiner
    /\ Early \in BOOLEAN

VARIABLES
    storage,    \* the elements of m_monitor_q of each thread
    size,       \* and how many of them the vector counts
    zombie,     \* the threads that have ended
    m_threads_n,
    added,      \* how many threads each joiner has registered
    place,      \* "adding", "waiting", "ready" (to run again), "returned"
    notified    \* the joins whose m_join_event is pending

vars == <<storage, size, zombie, m_threads_n, added, place, notified>>

Members(j) == {Adds[j][i] : i \in 1..added[j]}

TypeOK ==
    /\ storage \in [Thread -> Seq(Joiner)]
    /\ size \in [Thread -> Nat]
    /\ zombie \subseteq Thread
    /\ m_threads_n \in [Joiner -> Nat]
    /\ added \in [Joiner -> Nat]
    /\ place \in [Joiner -> {"adding", "waiting", "ready", "returned"}]
    /\ notified \subseteq Joiner

Init ==
    /\ storage = [t \in Thread |-> <<>>]
    /\ size = [t \in Thread |-> 0]
    /\ zombie = {}
    /\ m_threads_n = [j \in Joiner |-> 0]
    /\ added = [j \in Joiner |-> 0]
    /\ place = [j \in Joiner |-> "adding"]
    /\ notified = {}

-----------------------------------------------------------------------------
(* The joiner                                                               *)

push_back(q, n, j) ==
    [i \in 1..(IF Len(q) > n THEN Len(q) ELSE n + 1) |->
        IF i = n + 1 THEN j ELSE q[i]]

add_process(j) ==
    /\ place[j] = "adding"
    /\ added[j] < Len(Adds[j])
    /\ LET t == Adds[j][added[j] + 1]
       IN  /\ storage' = [storage EXCEPT ![t] = push_back(@, size[t], j)]
           /\ size' = [size EXCEPT ![t] = @ + 1]
    /\ added' = [added EXCEPT ![j] = @ + 1]
    /\ m_threads_n' = [m_threads_n EXCEPT ![j] = @ + 1]
    /\ UNCHANGED <<zombie, place, notified>>

wait(j) ==
    /\ place[j] = "adding"
    /\ added[j] = Len(Adds[j])
    /\ place' = [place EXCEPT ![j] = "waiting"]
    /\ UNCHANGED <<storage, size, zombie, m_threads_n, added, notified>>

(* The static sensitivity of a joiner that uses wait_clocked.               *)
Tick(j) ==
    /\ j \in Clocked
    /\ place[j] = "waiting"
    /\ place' = [place EXCEPT ![j] = "ready"]
    /\ UNCHANGED <<storage, size, zombie, m_threads_n, added, notified>>

Return(j) ==
    /\ place[j] = "ready"
    /\ place' = [place EXCEPT ![j] =
            IF j \in Clocked /\ m_threads_n[j] # 0 THEN "waiting" ELSE "returned"]
    /\ UNCHANGED <<storage, size, zombie, m_threads_n, added, notified>>

-----------------------------------------------------------------------------
(* The end of a thread                                                      *)

(* The state of one run of the loop in disconnect_process: the queue of the *)
(* thread and the joins that have been signalled, in order.                 *)

(* Faulty: remove_monitor moves the elements behind the removed one down.   *)
RemoveByErase(s, j) ==
    LET hits == {i \in 1..s.size : s.storage[i] = j}
        first == CHOOSE i \in hits : \A k \in hits : i <= k
    IN  IF hits = {} THEN s
        ELSE [s EXCEPT
                !.storage = [i \in DOMAIN @ |->
                    IF i \in first..(s.size - 1) THEN @[i + 1] ELSE @[i]],
                !.size = @ - 1]

(* sc_thread_process::remove_monitor.  mon_n is read once; every match is   *)
(* overwritten by element mon_n - 1 and cuts the vector to that length.     *)
remove_monitor(s, j) ==
    LET mon_n == s.size
        hits == {i \in 1..mon_n : s.storage[i] = j}
    IN  IF hits = {} THEN s
        ELSE [s EXCEPT
                !.storage = [i \in DOMAIN @ |->
                    IF i \in hits THEN @[mon_n] ELSE @[i]],
                !.size = mon_n - 1]

(* The loop of disconnect_process with its sc_join::signal, to element n of *)
(* the queue q as it was when the thread ended.                             *)
SignalAll(q, n) ==
    LET loop[k \in 0..n] ==
            IF k = 0 THEN [storage |-> q, size |-> n, out |-> <<>>]
            ELSE LET s == loop[k - 1]
                     j == s.storage[k]
                 IN  [remove_monitor(s, j) EXCEPT !.out = Append(@, j)]
    IN  loop[n]

Times(s, j) == Cardinality({i \in DOMAIN s : s[i] = j})

(* sc_join::signal, for all the signals of one ending thread: --m_threads_n *)
(* and the event when it becomes zero.                                      *)
(* Faulty: m_threads_n-- == 0.                                              *)
NotifyLate(out) == {j \in Joiner : Times(out, j) > 0 /\ m_threads_n[j] < Times(out, j)}

NotifyLast(out) ==
    {j \in Joiner : Times(out, j) > 0 /\ m_threads_n[j] = Times(out, j)}

disconnect_process(t) ==
    /\ t \notin zombie
    /\ Early \/ \A j \in Joiner : t \in {Adds[j][i] : i \in DOMAIN Adds[j]}
                                    => place[j] # "adding"
    /\ LET end == SignalAll(storage[t], size[t])
       IN  /\ storage' = [storage EXCEPT ![t] = end.storage]
           /\ size' = [size EXCEPT ![t] = end.size]
           /\ m_threads_n' = [j \in Joiner |-> m_threads_n[j] - Times(end.out, j)]
           /\ notified' = notified \cup NotifyLast(end.out)
    /\ zombie' = zombie \cup {t}
    /\ UNCHANGED <<added, place>>

(* The scheduler triggers the pending event; it wakes who waits for it, and *)
(* is lost when nobody does.                                                *)
Trigger(j) ==
    /\ j \in notified
    /\ notified' = notified \ {j}
    /\ place' = [place EXCEPT ![j] =
            IF @ = "waiting" /\ j \notin Clocked THEN "ready" ELSE @]
    /\ UNCHANGED <<storage, size, zombie, m_threads_n, added>>

Terminating ==
    /\ \A j \in Joiner : place[j] = "returned"
    /\ UNCHANGED vars

Next ==
    \/ \E j \in Joiner :
        add_process(j) \/ wait(j) \/ Tick(j) \/ Return(j) \/ Trigger(j)
    \/ \E t \in Thread : disconnect_process(t)
    \/ Terminating

Spec == Init /\ [][Next]_vars

(* The scheduler runs every ready process and triggers every pending event, *)
(* and the clock of a clocked joiner ticks.  That threads end is not assumed*)
Fairness ==
    \A j \in Joiner :
        /\ WF_vars(add_process(j) \/ wait(j))
        /\ WF_vars(Tick(j))
        /\ WF_vars(Return(j))
        /\ WF_vars(Trigger(j))

FairSpec == Spec /\ Fairness

-----------------------------------------------------------------------------
(* A join that has returned has seen all its threads end.                   *)
JoinedHaveEnded ==
    \A j \in Joiner : place[j] = "returned" => Members(j) \subseteq zombie

(* m_threads_n is the number of registrations of threads that still run: the*)
(* loop over the shrinking queue signals every registration exactly once.   *)
CountExact ==
    \A j \in Joiner :
        m_threads_n[j] =
            Cardinality({i \in 1..added[j] : Adds[j][i] \notin zombie})

(* The queue of a thread that has ended is empty: no join is left in it that*)
(* a later signal could reach after the join object is gone.                *)
QueueEmptied == \A t \in zombie : size[t] = 0

(* Once all the threads of a join have ended, it returns.                   *)
JoinReturns ==
    \A j \in Joiner :
        (added[j] = Len(Adds[j]) /\ Members(j) \subseteq zombie)
            ~> (place[j] = "returned")
=============================================================================
