---------------------------- MODULE ProcessReset ----------------------------
(* The resets of thread processes: by the signals that were declared with   *)
(* reset_signal_is() and async_reset_signal_is(), counted per process by     *)
(* reset_changed(), and by sync_reset_on() and sync_reset_off(), which any   *)
(* process may call for another one while both of them run, without a lock.  *)
(* A reset unwinds the stack of the process when it comes back from wait(),  *)
(* and starts its body again.                                                *)
EXTENDS Integers, FiniteSets, FiniteSetTheorems, TLAPS

CONSTANTS
    Process,
    Signal,        \* signals of type bool
    Target,        \* entries of the sc_reset objects: signal, process, level, async
    Controllers,   \* the processes that call sync_reset_on and sync_reset_off
    Careful        \* TRUE: never two calls at once, nor for a process that runs

(* What is assumed of the constants; the model-checking modules assume it.  *)
TargetAssumption ==
    /\ Target \subseteq [signal : Signal, process : Process, level : BOOLEAN, async : BOOLEAN]
    /\ IsFiniteSet(Target)
    /\ Controllers \subseteq Process
    /\ Careful \in BOOLEAN

VARIABLES
    status,     \* "elaboration", and then "running"
    cur,        \* m_cur_val of the signals
    new,        \* m_new_val of the signals
    at,         \* where the process is
    throwing,   \* m_throw_status is THROW_SYNC_RESET or THROW_ASYNC_RESET
    computed,   \* what semantics() has computed for m_throw_status
    syncs,      \* m_active_reset_n
    asyncs,     \* m_active_areset_n
    sticky,     \* m_sticky_reset
    call        \* the call that has read m_sticky_reset and not yet changed it

signals == <<cur, new>>
resets == <<throwing, computed, syncs, asyncs, sticky>>
vars == <<status, signals, at, resets, call>>

NoCall == [to |-> "none"]
Calls == {NoCall} \cup [to : {"on", "off"}, process : Process]

Places == {"start", "enter", "body", "wait", "ready", "unwind", "done"}

(* The resets of kind async of process p that value v of the signals asserts. *)
Asserted(p, v, async) ==
    {t \in Target : t.process = p /\ t.async = async /\ v[t.signal] = t.level}

(* A mistake: the first change of a reset signal is the first that counts.  *)
NotInitially(v, async) == [p \in Process |-> 0]

(* The counts of a process, whose resets were all inactive before.          *)
initially_in_reset(v, async) == [p \in Process |-> Cardinality(Asserted(p, v, async))]

Init ==
    /\ status = "elaboration"
    /\ cur \in [Signal -> BOOLEAN]
    /\ new = cur
    /\ at = [p \in Process |-> "start"]
    /\ throwing = [p \in Process |-> FALSE]
    /\ computed = [p \in Process |-> FALSE]
    /\ syncs = initially_in_reset(cur, FALSE)
    /\ asyncs = initially_in_reset(cur, TRUE)
    /\ sticky = [p \in Process |-> FALSE]
    /\ call = [p \in Process |-> NoCall]

-----------------------------------------------------------------------------
(* What changes for p when the signals go from cur to new.                  *)
Rise(p, async) == Asserted(p, new, async) \ Asserted(p, cur, async)
Fall(p, async) == Asserted(p, cur, async) \ Asserted(p, new, async)
(* The counters of reset_changed().                                         *)
Count(n, p, async) == n + Cardinality(Rise(p, async)) - Cardinality(Fall(p, async))

(* Mistakes: the exception is withdrawn when any reset ends, and never.     *)
LowerAtOnce(p, flag, s, a, st) == flag /\ Fall(p, FALSE) = {} /\ Fall(p, TRUE) = {}
(* The end of reset_changed(): no throw without an active reset.            *)
Lower(p, flag, s, a, st) == flag /\ (s # 0 \/ a # 0 \/ st)

(* reset_changed() for every entry of every signal that changes.  No process *)
(* runs then, so that none is unwinding.                                     *)
notify_processes ==
    LET Alive(p) == at[p] # "done"
        S == [p \in Process |-> IF Alive(p) THEN Count(syncs[p], p, FALSE) ELSE syncs[p]]
        A == [p \in Process |-> IF Alive(p) THEN Count(asyncs[p], p, TRUE) ELSE asyncs[p]]
        Throws(p) == Rise(p, FALSE) \cup Rise(p, TRUE) # {}
    IN  /\ syncs' = S
        /\ asyncs' = A
        /\ throwing' = [p \in Process |->
              IF Alive(p) THEN Lower(p, throwing[p] \/ Throws(p), S[p], A[p], sticky[p])
              ELSE throwing[p]]

(* prepare_to_simulate(): the writes of the elaboration reach the signals   *)
(* before the first process runs.                                           *)
Start ==
    /\ status = "elaboration"
    /\ notify_processes
    /\ cur' = new
    /\ status' = "running"
    /\ UNCHANGED <<new, at, computed, sticky, call>>

WriteEarly(s) ==
    /\ status = "elaboration"
    /\ new' = [new EXCEPT ![s] = ~@]
    /\ UNCHANGED <<status, cur, at, resets, call>>

(* perform_update(), when no process runs or is ready.  An asynchronous      *)
(* reset puts its process in front of the ready queue.                       *)
Update ==
    /\ status = "running"
    /\ \A p \in Process : at[p] \in {"wait", "done"}
    /\ new # cur
    /\ notify_processes
    /\ cur' = new
    /\ at' = [p \in Process |->
          IF at[p] = "wait" /\ Rise(p, TRUE) # {} THEN "ready" ELSE at[p]]
    /\ UNCHANGED <<status, new, computed, sticky, call>>

-----------------------------------------------------------------------------
Runs(p) == status = "running" /\ at[p] = "body" /\ call[p] = NoCall

Write(p, s) ==
    /\ Runs(p)
    /\ new' = [new EXCEPT ![s] = ~@]
    /\ UNCHANGED <<status, cur, at, resets, call>>

Wait(p) ==
    /\ Runs(p)
    /\ at' = [at EXCEPT ![p] = "wait"]
    /\ UNCHANGED <<status, signals, resets, call>>

(* An event or a timeout that p waits for.                                  *)
Trigger(p) ==
    /\ at[p] = "wait"
    /\ at' = [at EXCEPT ![p] = "ready"]
    /\ UNCHANGED <<status, signals, resets, call>>

(* The tail of suspend_me(): return to the body, or throw the reset.        *)
Resume(p) ==
    /\ at[p] = "ready"
    /\ at' = [at EXCEPT ![p] = IF throwing[p] THEN "unwind" ELSE "body"]
    /\ UNCHANGED <<status, signals, resets, call>>

(* The exception has reached sc_thread_cor_fn().                            *)
Unwound(p) ==
    /\ at[p] = "unwind"
    /\ at' = [at EXCEPT ![p] = "start"]
    /\ UNCHANGED <<status, signals, resets, call>>

Compute(p) == asyncs[p] # 0 \/ syncs[p] # 0

(* semantics() reads the counts ...                                         *)
Begin(p) ==
    /\ status = "running"
    /\ at[p] = "start"
    /\ computed' = [computed EXCEPT ![p] = Compute(p)]
    /\ at' = [at EXCEPT ![p] = "enter"]
    /\ UNCHANGED <<status, signals, throwing, syncs, asyncs, sticky, call>>

(* ... and assigns m_throw_status before it calls the body.                 *)
Enter(p) ==
    /\ at[p] = "enter"
    /\ throwing' = [throwing EXCEPT ![p] = computed[p]]
    /\ at' = [at EXCEPT ![p] = "body"]
    /\ UNCHANGED <<status, signals, computed, syncs, asyncs, sticky, call>>

(* disconnect_process(): its resets forget p.                               *)
Ends(p) ==
    /\ Runs(p)
    /\ at' = [at EXCEPT ![p] = "done"]
    /\ UNCHANGED <<status, signals, resets, call>>

-----------------------------------------------------------------------------
(* reset_process() reads m_sticky_reset ...                                 *)
Check(c, t) ==
    /\ c \in Controllers
    /\ Runs(c)
    /\ at[t] # "done"
    /\ Careful => /\ t = c \/ at[t] \in {"wait", "ready"}
                  /\ \A d \in Process : call[d] = NoCall
    /\ call' = [call EXCEPT ![c] = [to |-> IF sticky[t] THEN "off" ELSE "on", process |-> t]]
    /\ UNCHANGED <<status, signals, at, resets>>

(* A process that a call is about to change is left alone by careful ones.  *)
Free(p) == ~(Careful /\ \E d \in Process \ {p} : call[d] # NoCall /\ call[d].process = p)

(* ... and reset_changed() changes the count and the throw status, which an *)
(* unwinding process keeps.                                                 *)
Switch(t, on) ==
    LET n == IF on THEN syncs[t] + 1 ELSE syncs[t] - 1
        flag == throwing[t] \/ (on /\ at[t] # "unwind")
    IN  /\ sticky' = [sticky EXCEPT ![t] = on]
        /\ IF at[t] = "done" THEN UNCHANGED <<syncs, throwing>>
           ELSE /\ syncs' = [syncs EXCEPT ![t] = n]
                /\ throwing' = [throwing EXCEPT ![t] = flag /\ (n # 0 \/ asyncs[t] # 0 \/ on)]
        /\ UNCHANGED <<asyncs, computed>>

reset_process(c) ==
    /\ call[c] # NoCall
    /\ Switch(call[c].process, call[c].to = "on")
    /\ call' = [call EXCEPT ![c] = NoCall]
    /\ UNCHANGED <<status, signals, at>>

Next ==
    \/ Start
    \/ Update
    \/ \E s \in Signal : WriteEarly(s)
    \/ \E p \in Process, s \in Signal : Write(p, s)
    \/ \E p \in Process :
          \/ Wait(p) \/ Trigger(p) \/ Unwound(p) \/ Begin(p) \/ Enter(p) \/ Ends(p)
          \/ Free(p) /\ Resume(p)
          \/ reset_process(p)
    \/ \E c, t \in Process : Check(c, t)

Spec == Init /\ [][Next]_vars

-----------------------------------------------------------------------------
TypeOK ==
    /\ status \in {"elaboration", "running"}
    /\ {cur, new} \subseteq [Signal -> BOOLEAN]
    /\ at \in [Process -> Places]
    /\ {throwing, computed, sticky} \subseteq [Process -> BOOLEAN]
    /\ {syncs, asyncs} \subseteq [Process -> -Cardinality(Process) .. Cardinality(Target) + Cardinality(Process)]
    /\ call \in [Process -> Calls]

(* The causes for which p has to be in reset.                               *)
Causes(p) == Asserted(p, cur, FALSE) \cup Asserted(p, cur, TRUE)
InReset(p) == Causes(p) # {} \/ sticky[p]

(* The counters of a process that lives are the number of its resets that   *)
(* are active: signals that were active from the beginning, that changed    *)
(* before the simulation ran or together, and sync_reset_on() count once    *)
(* each (sc_process.cpp:425).                                               *)
CountExact ==
    \A p \in Process : at[p] # "done" =>
        /\ syncs[p] = Cardinality(Asserted(p, cur, FALSE)) + (IF sticky[p] THEN 1 ELSE 0)
        /\ asyncs[p] = Cardinality(Asserted(p, cur, TRUE))

(* wait() returns to the body only when no reset of the process is active,  *)
(* however many were asserted and released since it was called.             *)
ReturnsOutOfReset == \A p \in Process : at[p] = "ready" /\ at'[p] = "body" => ~InReset(p)
NoReturnInReset == [][ReturnsOutOfReset]_vars

(* A process is thrown out of wait() only while one of its resets is active. *)
ThrowsInReset == \A p \in Process : at[p] = "ready" /\ at'[p] = "unwind" => InReset(p)
NoResetWithoutCause == [][ThrowsInReset]_vars
-----------------------------------------------------------------------------
(* What the proofs need of the types.                                      *)
Types ==
    /\ status \in {"elaboration", "running"}
    /\ at \in [Process -> Places]
    /\ DOMAIN throwing = Process /\ DOMAIN computed = Process
    /\ DOMAIN syncs = Process /\ DOMAIN asyncs = Process /\ DOMAIN sticky = Process
    /\ call \in [Process -> Calls]

(* Before the simulation no process has begun.                              *)
Elaborating == status = "elaboration" => \A p \in Process : at[p] = "start"

(* Careful calls: one at a time, and what it has read is still true.        *)
CallRight == \A c \in Process : call[c] # NoCall =>
    /\ at[c] = "body"
    /\ \A d \in Process : call[d] # NoCall => d = c
    /\ call[c].process = c \/ at[call[c].process] \in {"wait", "ready"}
    /\ call[c].to = "off" <=> sticky[call[c].process]

(* The throw status, and what semantics() assigns to it, are right for a    *)
(* process that runs or waits.                                              *)
ComputedRight == \A p \in Process : at[p] = "enter" => (computed[p] <=> InReset(p))
ThrowRight ==
    \A p \in Process : at[p] \in {"body", "wait", "ready"} => (throwing[p] <=> InReset(p))

(* The inductive invariant.                                                 *)
IInv == Types /\ Elaborating /\ CallRight /\ CountExact /\ ComputedRight /\ ThrowRight

(* The arithmetic of reset_changed().                                       *)
LEMMA CountChange ==
  ASSUME NEW A, NEW B, IsFiniteSet(A), IsFiniteSet(B)
  PROVE  /\ Cardinality(A) \in Nat /\ Cardinality(B) \in Nat
         /\ Cardinality(B \ A) \in Nat /\ Cardinality(A \ B) \in Nat
         /\ Cardinality(A) + Cardinality(B \ A) - Cardinality(A \ B) = Cardinality(B)
<1>1. Cardinality(B \ A) = Cardinality(B) - Cardinality(B \cap A) /\ IsFiniteSet(B \ A)
  BY FS_Difference
<1>2. Cardinality(A \ B) = Cardinality(A) - Cardinality(A \cap B) /\ IsFiniteSet(A \ B)
  BY FS_Difference
<1>3. Cardinality(A \cap B) = Cardinality(B \cap A)
  <2>1. A \cap B = B \cap A
    OBVIOUS
  <2> QED BY <2>1
<1>4. Cardinality(A) \in Nat /\ Cardinality(B) \in Nat /\ Cardinality(B \ A) \in Nat
      /\ Cardinality(A \ B) \in Nat
  BY <1>1, <1>2, FS_CardinalityType
<1>5. IsFiniteSet(A \cap B) /\ Cardinality(A \cap B) \in Nat
  BY FS_Intersection, FS_CardinalityType
<1> QED BY <1>1, <1>2, <1>3, <1>4, <1>5

(* Finitely many entries, so that the counts are numbers.                   *)
LEMMA AssertedFinite ==
  ASSUME TargetAssumption, NEW p, NEW v, NEW async
  PROVE  /\ IsFiniteSet(Asserted(p, v, async))
         /\ Cardinality(Asserted(p, v, async)) \in Nat
         /\ Cardinality(Asserted(p, v, async)) = 0 <=> Asserted(p, v, async) = {}
<1>1. Asserted(p, v, async) \subseteq Target
  BY DEF Asserted
<1>2. IsFiniteSet(Asserted(p, v, async))
  BY <1>1, FS_Subset DEF TargetAssumption
<1> QED BY <1>2, FS_CardinalityType, FS_EmptySet

(* The two kinds of resets, with a name each: the provers count with names. *)
SyncOf(p, v) == Asserted(p, v, FALSE)
AsyncOf(p, v) == Asserted(p, v, TRUE)
CountSync(n, p) == Count(n, p, FALSE)
CountAsync(n, p) == Count(n, p, TRUE)
Rises(p) == Rise(p, FALSE) \cup Rise(p, TRUE) # {}

Exact == \A p \in Process : at[p] # "done" =>
    /\ syncs[p] = Cardinality(SyncOf(p, cur)) + (IF sticky[p] THEN 1 ELSE 0)
    /\ asyncs[p] = Cardinality(AsyncOf(p, cur))

LEMMA ExactMeans == Exact <=> CountExact
  BY Zenon DEF Exact, CountExact, SyncOf, AsyncOf

LEMMA ExactMeansNext == Exact' <=> CountExact'
  BY Zenon DEF Exact, CountExact, SyncOf, AsyncOf

(* What it is to be in reset, in these terms.                               *)
LEMMA ResetMeans ==
  \A p : InReset(p) <=> (SyncOf(p, cur) # {} \/ AsyncOf(p, cur) # {} \/ sticky[p])
  BY DEF InReset, Causes, SyncOf, AsyncOf

LEMMA AllSized ==
  ASSUME TargetAssumption, NEW p, NEW v
  PROVE  /\ Cardinality(SyncOf(p, v)) \in Nat /\ Cardinality(AsyncOf(p, v)) \in Nat
         /\ Cardinality(SyncOf(p, v)) = 0 <=> SyncOf(p, v) = {}
         /\ Cardinality(AsyncOf(p, v)) = 0 <=> AsyncOf(p, v) = {}
  BY AssertedFinite, Zenon DEF SyncOf, AsyncOf

(* What reset_changed() leaves in the counters.                             *)
LEMMA CountAfter ==
  ASSUME TargetAssumption, NEW p, NEW async, NEW k \in Int, NEW n,
         n = Cardinality(Asserted(p, cur, async)) + k
  PROVE  Count(n, p, async) = Cardinality(Asserted(p, new, async)) + k
<1>1. IsFiniteSet(Asserted(p, cur, async)) /\ IsFiniteSet(Asserted(p, new, async))
  BY AssertedFinite
<1>2. LET A == Asserted(p, cur, async)
          B == Asserted(p, new, async)
      IN  /\ Cardinality(A) \in Nat /\ Cardinality(B) \in Nat
          /\ Cardinality(B \ A) \in Nat /\ Cardinality(A \ B) \in Nat
          /\ Cardinality(A) + Cardinality(B \ A) - Cardinality(A \ B) = Cardinality(B)
  BY <1>1, CountChange
<1>3. Count(n, p, async) = n + Cardinality(Asserted(p, new, async) \ Asserted(p, cur, async))
                             - Cardinality(Asserted(p, cur, async) \ Asserted(p, new, async))
  BY DEF Count, Rise, Fall
<1> QED BY <1>2, <1>3

LEMMA SyncAfter ==
  ASSUME TargetAssumption, NEW p, NEW k \in Int, NEW n, n = Cardinality(SyncOf(p, cur)) + k
  PROVE  CountSync(n, p) = Cardinality(SyncOf(p, new)) + k
  BY CountAfter, Zenon DEF SyncOf, CountSync

LEMMA AsyncAfter ==
  ASSUME TargetAssumption, NEW p, NEW k \in Int, NEW n, n = Cardinality(AsyncOf(p, cur)) + k
  PROVE  CountAsync(n, p) = Cardinality(AsyncOf(p, new)) + k
  BY CountAfter, Zenon DEF AsyncOf, CountAsync

(* The counters of a living process tell whether it is in reset.            *)
LEMMA CountsTell ==
  ASSUME TargetAssumption, CountExact, NEW p \in Process, at[p] # "done"
  PROVE  (syncs[p] # 0 \/ asyncs[p] # 0) <=> InReset(p)
<1>1. /\ Cardinality(SyncOf(p, cur)) \in Nat /\ Cardinality(AsyncOf(p, cur)) \in Nat
      /\ Cardinality(SyncOf(p, cur)) = 0 <=> SyncOf(p, cur) = {}
      /\ Cardinality(AsyncOf(p, cur)) = 0 <=> AsyncOf(p, cur) = {}
  BY AllSized
<1>2. /\ syncs[p] = Cardinality(SyncOf(p, cur)) + (IF sticky[p] THEN 1 ELSE 0)
      /\ asyncs[p] = Cardinality(AsyncOf(p, cur))
  BY ExactMeans DEF Exact
<1>3. CASE sticky[p]
  BY <1>1, <1>2, <1>3, ResetMeans
<1>4. CASE ~sticky[p]
  BY <1>1, <1>2, <1>4, ResetMeans
<1> QED BY <1>3, <1>4

(* The initial states satisfy the invariant.                                *)
LEMMA InitIInv == TargetAssumption /\ Init => IInv
<1> SUFFICES ASSUME TargetAssumption, Init PROVE IInv
  OBVIOUS
<1>1. \A p \in Process : at[p] = "start" /\ call[p] = NoCall /\ ~sticky[p]
  BY DEF Init
<1>2. Types
  BY DEF Init, Types, initially_in_reset, Places, Calls
<1>3. \A p \in Process :
        syncs[p] = Cardinality(SyncOf(p, cur)) /\ asyncs[p] = Cardinality(AsyncOf(p, cur))
  BY DEF Init, initially_in_reset, SyncOf, AsyncOf
<1>4. \A p \in Process : Cardinality(SyncOf(p, cur)) \in Nat
  BY AllSized
<1>5. CountExact
  BY <1>1, <1>3, <1>4, ExactMeans DEF Exact
<1> QED BY <1>1, <1>2, <1>5 DEF IInv, Elaborating, CallRight, ComputedRight, ThrowRight

(* A change of the signals, while no process runs.                          *)
LEMMA Notified ==
  ASSUME TargetAssumption, IInv, notify_processes, cur' = new, UNCHANGED sticky
  PROVE  /\ DOMAIN throwing' = Process /\ DOMAIN syncs' = Process /\ DOMAIN asyncs' = Process
         /\ \A p \in Process : at[p] # "done" =>
              /\ syncs'[p] = Cardinality(SyncOf(p, cur')) + (IF sticky'[p] THEN 1 ELSE 0)
              /\ asyncs'[p] = Cardinality(AsyncOf(p, cur'))
              /\ at[p] = "wait" => (throwing'[p] <=> InReset(p)')
<1>1. DOMAIN throwing' = Process /\ DOMAIN syncs' = Process /\ DOMAIN asyncs' = Process
  BY DEF notify_processes
<1> SUFFICES ASSUME NEW p \in Process, at[p] # "done"
    PROVE  /\ syncs'[p] = Cardinality(SyncOf(p, new)) + (IF sticky[p] THEN 1 ELSE 0)
           /\ asyncs'[p] = Cardinality(AsyncOf(p, new))
           /\ at[p] = "wait" => (throwing'[p] <=> InReset(p)')
  BY <1>1
<1> DEFINE k == IF sticky[p] THEN 1 ELSE 0
<1>2. syncs'[p] = CountSync(syncs[p], p) /\ asyncs'[p] = CountAsync(asyncs[p], p)
  BY Zenon DEF notify_processes, CountSync, CountAsync
<1>3. k \in Int /\ (sticky[p] => k = 1) /\ (~sticky[p] => k = 0)
  OBVIOUS
<1>4. syncs[p] = Cardinality(SyncOf(p, cur)) + k /\ asyncs[p] = Cardinality(AsyncOf(p, cur))
  BY ExactMeans DEF IInv, Exact
<1> HIDE DEF k
<1>5. syncs'[p] = Cardinality(SyncOf(p, new)) + k
  BY <1>2, <1>3, <1>4, SyncAfter
<1>6. asyncs'[p] = Cardinality(AsyncOf(p, new))
  <2>1. Cardinality(AsyncOf(p, cur)) \in Nat /\ Cardinality(AsyncOf(p, new)) \in Nat
    BY AllSized
  <2>2. asyncs[p] = Cardinality(AsyncOf(p, cur)) + 0
    BY <1>4, <2>1
  <2>3. asyncs'[p] = Cardinality(AsyncOf(p, new)) + 0
    BY <1>2, <2>2, AsyncAfter
  <2> QED BY <2>1, <2>3
<1>7. ASSUME at[p] = "wait" PROVE throwing'[p] <=> InReset(p)'
  <2>1. throwing'[p] <=>
            (throwing[p] \/ Rises(p)) /\ (syncs'[p] # 0 \/ asyncs'[p] # 0 \/ sticky[p])
    BY DEF notify_processes, Lower, Rises
  <2>2. throwing[p] <=> InReset(p)
    BY <1>7 DEF IInv, ThrowRight
  <2>3. InReset(p)' <=> SyncOf(p, new) # {} \/ AsyncOf(p, new) # {} \/ sticky[p]
    BY DEF InReset, Causes, Asserted, SyncOf, AsyncOf
  <2>4. /\ Cardinality(SyncOf(p, new)) \in Nat /\ Cardinality(AsyncOf(p, new)) \in Nat
        /\ Cardinality(SyncOf(p, new)) = 0 <=> SyncOf(p, new) = {}
        /\ Cardinality(AsyncOf(p, new)) = 0 <=> AsyncOf(p, new) = {}
    BY AllSized
  <2>5. (syncs'[p] # 0 \/ asyncs'[p] # 0 \/ sticky[p]) <=> InReset(p)'
    <3>1. CASE sticky[p]
      BY <2>3, <3>1
    <3>2. CASE ~sticky[p]
      BY <1>3, <1>5, <1>6, <2>3, <2>4, <3>2
    <3> QED BY <3>1, <3>2
  <2>6. InReset(p)' => InReset(p) \/ Rises(p)
    BY <2>3, ResetMeans DEF Rise, Rises, SyncOf, AsyncOf
  <2> QED BY <2>1, <2>2, <2>5, <2>6
<1> QED BY <1>5, <1>6, <1>7 DEF k

(* A step that leaves the signals and the counters alone.                   *)
LEMMA Undisturbed ==
  ASSUME TargetAssumption, IInv, UNCHANGED <<cur, syncs, asyncs, sticky>>,
         \A p \in Process : at[p] = "done" => at'[p] = "done"
  PROVE  CountExact' /\ \A p \in Process : InReset(p)' <=> InReset(p)
BY DEF IInv, CountExact, InReset, Causes, Asserted

(* Every step preserves the invariant, if the calls of sync_reset_on and    *)
(* sync_reset_off are careful.                                              *)
LEMMA Inductive ==
  ASSUME TargetAssumption, Careful, IInv, [Next]_vars
  PROVE  IInv'
<1> USE DEF Places
<1>1. CASE Start
  <2>1. /\ notify_processes /\ cur' = new /\ status' = "running"
        /\ UNCHANGED <<new, at, computed, sticky, call>>
    BY <1>1 DEF Start
  <2>2. \A p \in Process : at[p] = "start"
    BY <1>1 DEF Start, IInv, Elaborating
  <2>3. Types'
    BY <2>1, Notified DEF IInv, Types
  <2>4. CountExact'
    BY <2>1, Notified, ExactMeansNext DEF Exact
  <2>5. Elaborating' /\ ComputedRight' /\ ThrowRight'
    BY <2>1, <2>2 DEF Elaborating, ComputedRight, ThrowRight
  <2>6. CallRight'
    BY <2>1 DEF IInv, CallRight
  <2> QED BY <2>3, <2>4, <2>5, <2>6 DEF IInv
<1>2. CASE Update
  <2>1. /\ notify_processes /\ cur' = new /\ status = "running" /\ status' = status
        /\ UNCHANGED <<new, computed, sticky, call>>
        /\ at' = [p \in Process |->
              IF at[p] = "wait" /\ Rise(p, TRUE) # {} THEN "ready" ELSE at[p]]
    BY <1>2 DEF Update
  <2>2. \A p \in Process : at[p] \in {"wait", "done"}
    BY <1>2 DEF Update
  <2>3. \A p \in Process : at'[p] \in {"wait", "done", "ready"} /\ (at'[p] # "done" => at[p] = "wait")
    BY <2>1, <2>2
  <2>4. Types'
    <3>1. at' \in [Process -> Places]
      BY <2>1, <2>3
    <3> QED BY <2>1, <3>1, Notified DEF IInv, Types
  <2>5. CountExact'
    BY <2>1, <2>3, Notified, ExactMeansNext DEF Exact
  <2>8. ThrowRight'
    BY <2>1, <2>3, Notified DEF ThrowRight
  <2>6. Elaborating' /\ ComputedRight'
    BY <2>1, <2>3 DEF Elaborating, ComputedRight
  <2>7. CallRight'
    <3>1. \A c \in Process : call[c] = NoCall
      BY <2>2 DEF IInv, CallRight
    <3> QED BY <2>1, <3>1 DEF CallRight
  <2> QED BY <2>4, <2>5, <2>6, <2>7, <2>8 DEF IInv
<1>3. ASSUME UNCHANGED <<status, cur, at, resets, call>> PROVE IInv'
  <2>1. UNCHANGED <<status, cur, at, resets, call>>
    BY <1>3
  <2>2. CountExact' /\ \A q \in Process : InReset(q)' <=> InReset(q)
    BY <2>1, Undisturbed DEF resets
  <2> QED
    BY <2>1, <2>2 DEF IInv, Types, Elaborating, CallRight, ComputedRight, ThrowRight, resets
<1>4. ASSUME NEW p \in Process,
             Wait(p) \/ Trigger(p) \/ Unwound(p) \/ Ends(p) \/ (Free(p) /\ Resume(p))
      PROVE  IInv'
  <2>1. UNCHANGED <<status, cur, resets, call>>
    BY <1>4 DEF Wait, Trigger, Unwound, Ends, Resume, signals
  <2>2. PICK there \in Places : at' = [at EXCEPT ![p] = there] /\ there # "enter"
          /\ (there \in {"body", "wait", "ready"} => at[p] \in {"body", "wait", "ready"})
    <3>1. CASE Wait(p)
      BY <3>1 DEF Wait, Runs
    <3>2. CASE Trigger(p)
      BY <3>2 DEF Trigger
    <3>3. CASE Unwound(p)
      BY <3>3 DEF Unwound
    <3>4. CASE Ends(p)
      BY <3>4 DEF Ends
    <3>5. CASE Resume(p)
      <4>1. CASE throwing[p]
        BY <3>5, <4>1 DEF Resume
      <4>2. CASE ~throwing[p]
        BY <3>5, <4>2 DEF Resume
      <4> QED BY <4>1, <4>2
    <3> QED BY <1>4, <3>1, <3>2, <3>3, <3>4, <3>5
  <2>3. at[p] \notin {"start", "done"}
    BY <1>4 DEF Wait, Trigger, Unwound, Ends, Resume, Runs
  <2>4. \A q \in Process : at'[q] = IF q = p THEN at'[p] ELSE at[q]
    BY <2>2 DEF IInv, Types
  <2>5. at' \in [Process -> Places] /\ at'[p] # "enter"
    BY <2>2 DEF IInv, Types
  <2>6. CountExact' /\ \A q \in Process : InReset(q)' <=> InReset(q)
    BY <2>1, <2>3, <2>4, Undisturbed DEF resets
  <2>7. Types' /\ Elaborating'
    BY <2>1, <2>3, <2>5 DEF IInv, Types, Elaborating, resets
  <2>8. ComputedRight' /\ ThrowRight'
    BY <2>1, <2>2, <2>4, <2>5, <2>6 DEF IInv, Types, ComputedRight, ThrowRight, resets
  <2>9. CallRight'
    <3> SUFFICES ASSUME NEW c \in Process, call[c] # NoCall
        PROVE  /\ at'[c] = "body"
               /\ (call[c].process = c \/ at'[call[c].process] \in {"wait", "ready"})
      BY <2>1 DEF IInv, CallRight, resets
    <3>1. at[c] = "body" /\ (call[c].process = c \/ at[call[c].process] \in {"wait", "ready"})
      BY DEF IInv, CallRight
    <3>2. p # c
      BY <1>4, <3>1 DEF Wait, Trigger, Unwound, Ends, Resume, Runs
    <3>3. ASSUME call[c].process = p PROVE at'[p] \in {"wait", "ready"}
      <4>1. at[p] \in {"wait", "ready"}
        BY <3>1, <3>2, <3>3
      <4>2. Trigger(p)
        BY <1>4, <3>2, <3>3, <4>1 DEF Wait, Unwound, Ends, Resume, Runs, Free
      <4> QED BY <4>2 DEF Trigger, IInv, Types
    <3>4. call[c].process \in Process
      BY DEF IInv, Types, Calls
    <3> QED BY <2>4, <3>1, <3>2, <3>3, <3>4
  <2> QED BY <2>6, <2>7, <2>8, <2>9 DEF IInv
<1>5. ASSUME NEW p \in Process, Begin(p) PROVE IInv'
  <2>1. /\ UNCHANGED <<status, cur, throwing, syncs, asyncs, sticky, call>>
        /\ status = "running" /\ at[p] = "start"
        /\ computed' = [computed EXCEPT ![p] = Compute(p)] /\ at' = [at EXCEPT ![p] = "enter"]
    BY <1>5 DEF Begin, signals
  <2>2. CountExact' /\ \A q \in Process : InReset(q)' <=> InReset(q)
    BY <2>1, Undisturbed DEF IInv, Types
  <2>3. Compute(p) <=> InReset(p)
    BY <2>1, CountsTell DEF Compute, IInv
  <2>4. \A q \in Process : computed'[q] = IF q = p THEN Compute(p) ELSE computed[q]
    BY <2>1 DEF IInv, Types
  <2>5. \A q \in Process : at'[q] = IF q = p THEN "enter" ELSE at[q]
    BY <2>1 DEF IInv, Types
  <2>6. ComputedRight'
    BY <2>2, <2>3, <2>4, <2>5 DEF IInv, ComputedRight
  <2>7. ThrowRight'
    BY <2>1, <2>2, <2>5 DEF IInv, ThrowRight
  <2>8. Types' /\ Elaborating'
    BY <2>1 DEF IInv, Types, Elaborating
  <2>9. CallRight'
    BY <2>1, <2>5 DEF IInv, CallRight, Types, Calls
  <2> QED BY <2>2, <2>6, <2>7, <2>8, <2>9 DEF IInv
<1>6. ASSUME NEW p \in Process, Enter(p) PROVE IInv'
  <2>1. /\ UNCHANGED <<status, cur, computed, syncs, asyncs, sticky, call>> /\ at[p] = "enter"
        /\ throwing' = [throwing EXCEPT ![p] = computed[p]] /\ at' = [at EXCEPT ![p] = "body"]
    BY <1>6 DEF Enter, signals
  <2>2. CountExact' /\ \A q \in Process : InReset(q)' <=> InReset(q)
    BY <2>1, Undisturbed DEF IInv, Types
  <2>3. computed[p] <=> InReset(p)
    BY <2>1 DEF IInv, ComputedRight
  <2>4. \A q \in Process : throwing'[q] = IF q = p THEN computed[p] ELSE throwing[q]
    BY <2>1 DEF IInv, Types
  <2>5. \A q \in Process : at'[q] = IF q = p THEN "body" ELSE at[q]
    BY <2>1 DEF IInv, Types
  <2>6. ThrowRight'
    BY <2>2, <2>3, <2>4, <2>5 DEF IInv, ThrowRight
  <2>7. ComputedRight'
    BY <2>1, <2>2, <2>5 DEF IInv, ComputedRight
  <2>8. Types' /\ Elaborating'
    BY <2>1 DEF IInv, Types, Elaborating
  <2>9. CallRight'
    BY <2>1, <2>5 DEF IInv, CallRight, Types, Calls
  <2> QED BY <2>2, <2>6, <2>7, <2>8, <2>9 DEF IInv
<1>7. ASSUME NEW c \in Process, NEW t \in Process, Check(c, t) PROVE IInv'
  <2>1. /\ UNCHANGED <<status, cur, at, resets>> /\ Runs(c)
        /\ t = c \/ at[t] \in {"wait", "ready"}
        /\ \A d \in Process : call[d] = NoCall
        /\ call' = [call EXCEPT ![c] = [to |-> IF sticky[t] THEN "off" ELSE "on", process |-> t]]
    BY <1>7 DEF Check, signals
  <2>2. CountExact' /\ \A q \in Process : InReset(q)' <=> InReset(q)
    BY <2>1, Undisturbed DEF resets
  <2>3. Types' /\ Elaborating' /\ ComputedRight' /\ ThrowRight'
    BY <2>1, <2>2 DEF IInv, Types, Elaborating, ComputedRight, ThrowRight, resets, Calls
  <2>4. CallRight'
    BY <2>1 DEF IInv, Types, CallRight, resets, Runs
  <2> QED BY <2>2, <2>3, <2>4 DEF IInv
<1>8. ASSUME NEW c \in Process, reset_process(c) PROVE IInv'
  <2>0. PICK t \in Process : t = call[c].process
    BY <1>8 DEF reset_process, IInv, Types, Calls
  <2> DEFINE on == call[c].to = "on"
             n == IF on THEN syncs[t] + 1 ELSE syncs[t] - 1
             flag == throwing[t] \/ (on /\ at[t] # "unwind")
  <2>1. /\ call[c] # NoCall /\ at[c] = "body"
        /\ \A d \in Process : call[d] # NoCall => d = c
        /\ on <=> ~sticky[t]
        /\ at[t] \in {"body", "wait", "ready"}
    BY <1>8, <2>0 DEF reset_process, IInv, CallRight, Types, Calls
  <2>2. /\ UNCHANGED <<status, cur, at, asyncs, computed>>
        /\ call' = [call EXCEPT ![c] = NoCall]
        /\ sticky' = [sticky EXCEPT ![t] = on]
        /\ syncs' = [syncs EXCEPT ![t] = n]
        /\ throwing' = [throwing EXCEPT ![t] = flag /\ (n # 0 \/ asyncs[t] # 0 \/ on)]
    BY <1>8, <2>0, <2>1 DEF reset_process, Switch, signals
  <2>3. \A p \in Process : p # t =>
          sticky'[p] = sticky[p] /\ syncs'[p] = syncs[p] /\ throwing'[p] = throwing[p]
    BY <2>2 DEF IInv, Types
  <2>4. /\ sticky'[t] = on /\ syncs'[t] = n
        /\ throwing'[t] = (flag /\ (n # 0 \/ asyncs[t] # 0 \/ on))
    BY <2>1, <2>2 DEF IInv, Types
  <2>5. \A p \in Process : p # t => (InReset(p)' <=> InReset(p))
    BY <2>2, <2>3 DEF InReset, Causes, Asserted
  <2>15. /\ Cardinality(SyncOf(t, cur)) \in Nat /\ Cardinality(AsyncOf(t, cur)) \in Nat
         /\ Cardinality(SyncOf(t, cur)) = 0 <=> SyncOf(t, cur) = {}
         /\ Cardinality(AsyncOf(t, cur)) = 0 <=> AsyncOf(t, cur) = {}
    BY AllSized
  <2>16. /\ syncs[t] = Cardinality(SyncOf(t, cur)) + (IF sticky[t] THEN 1 ELSE 0)
         /\ asyncs[t] = Cardinality(AsyncOf(t, cur))
    BY <2>1, ExactMeans DEF IInv, Exact
  <2>6. n = Cardinality(SyncOf(t, cur)) + (IF on THEN 1 ELSE 0)
    <3>1. CASE on
      BY <2>1, <2>15, <2>16, <3>1
    <3>2. CASE ~on
      BY <2>1, <2>15, <2>16, <3>2
    <3> QED BY <3>1, <3>2
  <2>7. CountExact'
    <3> SUFFICES ASSUME NEW p \in Process, at[p] # "done"
        PROVE  /\ syncs'[p] = Cardinality(SyncOf(p, cur)) + (IF sticky'[p] THEN 1 ELSE 0)
               /\ asyncs[p] = Cardinality(AsyncOf(p, cur))
      BY <2>2, ExactMeansNext DEF Exact, AsyncOf, SyncOf, Asserted
    <3>1. CASE p = t
      BY <2>4, <2>6, <2>16, <3>1
    <3>2. CASE p # t
      BY <2>3, <3>2, ExactMeans DEF IInv, Exact
    <3> QED BY <3>1, <3>2
  <2>8. Types' /\ Elaborating'
    BY <2>1, <2>2 DEF IInv, Types, Elaborating, Calls
  <2>9. CallRight'
    BY <2>1, <2>2 DEF IInv, Types, CallRight
  <2>10. InReset(t)' <=> (n # 0 \/ asyncs[t] # 0 \/ on)
    <3>1. InReset(t)' <=> SyncOf(t, cur) # {} \/ AsyncOf(t, cur) # {} \/ on
      BY <2>2, <2>4 DEF InReset, Causes, Asserted, SyncOf, AsyncOf
    <3>2. CASE on
      BY <3>1, <3>2
    <3>3. CASE ~on
      BY <2>6, <2>15, <2>16, <3>1, <3>3
    <3> QED BY <3>2, <3>3
  <2>11. flag
    <3>1. throwing[t] <=> InReset(t)
      BY <2>1 DEF IInv, ThrowRight
    <3> QED BY <2>1, <3>1 DEF InReset
  <2>12. throwing'[t] <=> InReset(t)'
    BY <2>4, <2>10, <2>11
  <2>13. ThrowRight'
    BY <2>2, <2>3, <2>5, <2>12 DEF IInv, ThrowRight
  <2>14. ComputedRight'
    BY <2>1, <2>2, <2>5 DEF IInv, ComputedRight
  <2> QED BY <2>7, <2>8, <2>9, <2>13, <2>14 DEF IInv
<1>9. ASSUME NEW s \in Signal, WriteEarly(s) PROVE IInv'
  BY <1>3, <1>9 DEF WriteEarly
<1>10. ASSUME NEW p \in Process, NEW s \in Signal, Write(p, s) PROVE IInv'
  BY <1>3, <1>10 DEF Write
<1>11. CASE UNCHANGED vars
  BY <1>3, <1>11 DEF vars, signals
<1> QED
  BY <1>1, <1>2, <1>4, <1>5, <1>6, <1>7, <1>8, <1>9, <1>10, <1>11 DEF Next

(* A process leaves "ready" only in Resume, which looks at the throw status.*)
LEMMA ResumeRight ==
  ASSUME IInv, Next
  PROVE  ReturnsOutOfReset /\ ThrowsInReset
<1> SUFFICES ASSUME NEW p \in Process, at[p] = "ready"
    PROVE  /\ at'[p] = "body" => ~InReset(p)
           /\ at'[p] = "unwind" => InReset(p)
  BY DEF ReturnsOutOfReset, ThrowsInReset
<1>1. at \in [Process -> Places] /\ (throwing[p] <=> InReset(p))
  BY DEF IInv, Types, ThrowRight
<1>2. CASE Resume(p)
  BY <1>1, <1>2 DEF Resume
<1>3. ASSUME NEW q \in Process, q # p, \E there \in Places : at' = [at EXCEPT ![q] = there]
      PROVE  at'[p] = "ready"
  BY <1>1, <1>3
<1>4. CASE UNCHANGED at
  BY <1>4
<1>5. CASE Update
  BY <1>5 DEF Update
<1>6. ASSUME NEW q \in Process,
             Wait(q) \/ Trigger(q) \/ Unwound(q) \/ Begin(q) \/ Enter(q) \/ Ends(q)
      PROVE  at'[p] = "ready"
  <2>1. q # p /\ \E there \in Places : at' = [at EXCEPT ![q] = there]
    BY <1>6 DEF Wait, Trigger, Unwound, Begin, Enter, Ends, Runs, Places
  <2> QED BY <1>3, <2>1
<1>7. ASSUME NEW q \in Process, q # p, Resume(q) PROVE at'[p] = "ready"
  <2>1. \E there \in Places : at' = [at EXCEPT ![q] = there]
    BY <1>7 DEF Resume, Places
  <2> QED BY <1>3, <1>7, <2>1
<1>8. CASE \/ Start \/ \E s \in Signal : WriteEarly(s)
           \/ \E q \in Process, s \in Signal : Write(q, s)
           \/ \E q \in Process : reset_process(q)
           \/ \E c, t \in Process : Check(c, t)
  BY <1>4, <1>8 DEF Start, WriteEarly, Write, reset_process, Check
<1> QED BY <1>2, <1>5, <1>6, <1>7, <1>8 DEF Next

LEMMA IInvHolds == ASSUME TargetAssumption, Careful PROVE Spec => []IInv
<1>1. IInv /\ [Next]_vars => IInv'
  BY Inductive
<1> QED BY InitIInv, <1>1, PTL DEF Spec

(* For any number of processes, signals and resets, if the calls of         *)
(* sync_reset_on and sync_reset_off are careful: the counters of a process  *)
(* are the number of its active resets.                                     *)
THEOREM CountExactHolds == ASSUME TargetAssumption, Careful PROVE Spec => []CountExact
<1>1. IInv => CountExact
  BY DEF IInv
<1> QED BY IInvHolds, <1>1, PTL

(* For any number of processes, signals and resets: wait() returns to the   *)
(* body when no reset of the process is active, and throws when one is.     *)
THEOREM ResetsHold ==
  ASSUME TargetAssumption, Careful
  PROVE  Spec => NoReturnInReset /\ NoResetWithoutCause
<1>1. IInv /\ [Next]_vars => [ReturnsOutOfReset]_vars /\ [ThrowsInReset]_vars
  BY ResumeRight
<1> QED BY IInvHolds, <1>1, PTL DEF Spec, NoReturnInReset, NoResetWithoutCause
=============================================================================
