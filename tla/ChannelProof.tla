----------------------------- MODULE ChannelProof ----------------------------
(* The blocking channels.  For every size, every set of readers, writers    *)
(* and values: the counters of the fifo agree with its ring buffer, nothing *)
(* is dropped, and the fifo implements BoundedQueue.  For every set of      *)
(* processes: sc_mutex excludes, sc_semaphore gives out no more units than  *)
(* there are, and neither loses a wake-up.  At the end sc_join, which counts*)
(* the threads that still run.                                              *)
EXTENDS Fifo, SequenceTheorems, FiniteSetTheorems, WellFoundedInduction, TLAPS

(* The counters of the cycle agree with the ring: free follows from the     *)
(* others, and the write index is free places behind the read index.        *)
Counts ==
    /\ numRead <= readable
    /\ readable + numWritten <= Size
    /\ free = Size - readable + numRead - numWritten
    /\ wi = (ri + (Size - free)) % Size

IInv == TypeOK /\ Counts /\ NothingDropped

(* The arithmetic of the ring: one turn at most.                            *)
LEMMA ModSmall == ASSUME NEW n \in Nat \ {0}, NEW a \in 0 .. n - 1
                  PROVE  a % n = a
  BY SMT

LEMMA ModWrap == ASSUME NEW n \in Nat \ {0}, NEW a \in n .. 2 * n - 1
                 PROVE  a % n = a - n
  BY SMT

LEMMA RingWrap == \A x \in Size .. 2 * Size - 1 : x % Size = x - Size
  BY FifoAssumption, ModWrap, SMT

LEMMA RingSmall == \A x \in 0 .. Size - 1 : x % Size = x
  BY FifoAssumption, ModSmall, SMT

(* Moving the read index over k elements and back is moving it by one.      *)
LEMMA ModShift ==
  ASSUME NEW n \in Nat \ {0}, NEW a \in 0 .. n - 1, NEW k \in 0 .. n - 1
  PROVE  (((a + 1) % n) + k) % n = (a + (k + 1)) % n
<1>1. CASE a + 1 < n
  BY <1>1, a + 1 \in 0 .. n - 1, (a + 1) % n = a + 1, ModSmall, SMT
<1>2. CASE a + 1 = n
  <2>1. (a + 1) % n = 0
    BY <1>2, a + 1 \in n .. 2 * n - 1, ModWrap, SMT
  <2>2. (a + (k + 1)) % n = k
    BY <1>2, a + (k + 1) \in n .. 2 * n - 1, ModWrap, SMT
  <2>3. k % n = k
    BY ModSmall
  <2> QED BY <2>1, <2>2, <2>3, SMT
<1> QED BY <1>1, <1>2, SMT

LEMMA ModStep ==
  ASSUME NEW n \in Nat \ {0}, NEW a \in 0 .. n - 1, NEW k \in 0 .. n - 1
  PROVE  (((a + k) % n) + 1) % n = (a + (k + 1)) % n
<1>1. CASE a + k < n
  <2>1. (a + k) % n = a + k
    BY <1>1, a + k \in 0 .. n - 1, ModSmall, SMT
  <2>2. (a + k) + 1 = a + (k + 1)
    OBVIOUS
  <2> QED BY <2>1, <2>2, Zenon
<1>2. CASE a + k >= n
  <2>1. (a + k) % n = a + k - n
    BY <1>2, a + k \in n .. 2 * n - 1, ModWrap, SMT
  <2>2. CASE a + k + 1 < 2 * n
    <3>1. (a + (k + 1)) % n = a + k + 1 - n
      <4>1. a + (k + 1) \in n .. 2 * n - 1
        BY <1>2, <2>2, SMT
      <4>2. (a + (k + 1)) % n = (a + (k + 1)) - n
        BY <4>1, ModWrap, Zenon
      <4> QED BY <4>2, SMT
    <3>2. (a + k - n + 1) % n = a + k - n + 1
      <4>1. a + k - n + 1 \in 0 .. n - 1
        BY <1>2, <2>2, SMT
      <4> QED BY <4>1, ModSmall, Zenon
    <3> QED BY <2>1, <3>1, <3>2, SMT
  <2> QED BY <2>2, SMT
<1> QED BY <1>1, <1>2, SMT

(* The steps of the scheduler keep the types of its variables.              *)
LEMMA SchedulerTypes ==
  ASSUME SchedulerTypeOK,
         \/ \E p \in Process, e \in Event : Join(p, e)
         \/ \E E \in SUBSET Event : Pass(E) \/ UpdatePhase(E)
         \/ \E p \in Process : SuspendProcess(p)
         \/ SomeDelivery \/ Starve \/ Restart
  PROVE  SchedulerTypeOK'
<1> USE DEF SchedulerTypeOK
<1>1. ASSUME NEW p \in Process, NEW e \in Event, Join(p, e) PROVE SchedulerTypeOK'
  BY <1>1, SMT DEF Join
<1>2. ASSUME NEW E \in SUBSET Event, Pass(E) \/ UpdatePhase(E) PROVE SchedulerTypeOK'
  BY <1>2, Zenon DEF Pass, UpdatePhase
<1>3. ASSUME NEW p \in Process, SuspendProcess(p) PROVE SchedulerTypeOK'
  BY <1>3, Zenon DEF SuspendProcess
<1>4. CASE SomeDelivery
  <2>1. PICK others \in SUBSET Others : DeliverEvents(others)
    BY <1>4 DEF SomeDelivery
  <2>2. waiting' \in [Event -> SUBSET Process]
    BY <2>1, Zenon DEF DeliverEvents
  <2>3. running' \subseteq Process
    BY <2>1, Zenon DEF DeliverEvents, Woken, Others
  <2> QED BY <2>1, <2>2, <2>3, Zenon DEF DeliverEvents
<1>5. CASE Starve \/ Restart
  BY <1>5, Zenon DEF Starve, Restart
<1> QED BY <1>1, <1>2, <1>3, <1>4, <1>5

(* The initial counters agree.                                              *)
LEMMA InitInv == Init => IInv
<1> SUFFICES ASSUME Init PROVE IInv
  OBVIOUS
<1> USE FifoAssumption
<1>1. wi = (ri + (Size - free)) % Size
  <2>1. 0 % Size = 0
    BY ModSmall, 0 \in 0 .. Size - 1, SMT
  <2> QED BY <2>1, SMT DEF Init
<1>2. TypeOK
  <2>1. /\ ri \in Index /\ wi \in Index
        /\ free \in 0 .. Size /\ readable \in 0 .. Size
        /\ numRead \in 0 .. Size /\ numWritten \in 0 .. Size
    BY SMT DEF Init, Index
  <2>2. /\ buf \in [Index -> Value \cup {Empty}]
        /\ at \in [Process -> {"user", "read", "write"}]
        /\ arg \in [Process -> Value \cup {Empty}]
        /\ SchedulerTypeOK
    BY Zenon DEF Init, SchedulerInit, SchedulerTypeOK
  <2> QED BY <2>1, <2>2, Zenon DEF Init, TypeOK
<1> QED BY <1>1, <1>2, SMT DEF IInv, Counts, NothingDropped, Init

(* Fetching and storing keep the counters in step with the ring.  The       *)
(* number of readable elements not yet read says that the ring is not       *)
(* empty, the number of free places not yet filled that it is not full.     *)
LEMMA FetchStep ==
  ASSUME IInv, FetchOne, num_available # 0
  PROVE  /\ free < Size /\ numRead < readable
         /\ Counts' /\ NothingDropped' /\ dropped' = dropped
         /\ buf' \in [Index -> Value \cup {Empty}]
         /\ ri' \in Index /\ free' \in 0 .. Size
         /\ ri' = (ri + 1) % Size /\ free' = free + 1 /\ wi' = wi
         /\ buf' = [buf EXCEPT ![ri] = Empty]
<1> USE FifoAssumption DEF IInv, TypeOK
<1>1. /\ free < Size
      /\ numRead < readable
  BY SMT DEF Counts, num_available
<1>2. /\ ri' = (ri + 1) % Size /\ free' = free + 1 /\ wi' = wi
      /\ buf' = [buf EXCEPT ![ri] = Empty]
      /\ dropped' = dropped
      /\ numRead' = numRead + 1
      /\ readable' = readable /\ numWritten' = numWritten
  BY <1>1, SMT DEF FetchOne, buf_read
<1>3. ri' \in Index
  BY <1>2, SMT DEF Index
<1>4. wi' = (ri' + (Size - free')) % Size
  <2>1. Size - free - 1 \in 0 .. Size - 1
    BY <1>1, SMT
  <2>2. (((ri + 1) % Size) + (Size - free - 1)) % Size = (ri + ((Size - free - 1) + 1)) % Size
    BY <2>1, ModShift, ri \in 0 .. Size - 1 DEF Index
  <2>3. /\ (Size - free - 1) + 1 = Size - free
        /\ Size - free' = Size - free - 1
    BY <1>2, SMT
  <2> QED BY <1>2, <2>2, <2>3 DEF Counts
<1>5. Counts'
  BY <1>1, <1>2, <1>4, SMT DEF Counts
<1> QED BY <1>1, <1>2, <1>3, <1>5, SMT DEF NothingDropped

LEMMA StoreStep ==
  ASSUME IInv, NEW v \in Value, StoreOne(v), num_free # 0
  PROVE  /\ free > 0 /\ readable + numWritten < Size
         /\ Counts' /\ NothingDropped' /\ dropped' = dropped
         /\ buf' \in [Index -> Value \cup {Empty}]
         /\ wi' \in Index /\ free' \in 0 .. Size
         /\ wi' = (wi + 1) % Size /\ free' = free - 1 /\ ri' = ri
         /\ buf' = [buf EXCEPT ![wi] = v]
<1> USE FifoAssumption DEF IInv, TypeOK
<1>1. /\ free > 0
      /\ readable + numWritten < Size
  BY SMT DEF Counts, num_free
<1>2. /\ wi' = (wi + 1) % Size /\ free' = free - 1 /\ ri' = ri
      /\ buf' = [buf EXCEPT ![wi] = v]
      /\ dropped' = dropped
      /\ numWritten' = numWritten + 1
      /\ readable' = readable /\ numRead' = numRead
  BY <1>1, SMT DEF StoreOne, buf_write
<1>3. wi' \in Index
  BY <1>2, SMT DEF Index
<1>4. wi' = (ri' + (Size - free')) % Size
  <2>1. Size - free \in 0 .. Size - 1
    BY <1>1, SMT
  <2>2. (((ri + (Size - free)) % Size) + 1) % Size = (ri + ((Size - free) + 1)) % Size
    BY <2>1, ModStep, ri \in 0 .. Size - 1 DEF Index
  <2>3. Size - free' = (Size - free) + 1
    BY <1>2, SMT
  <2> QED BY <1>2, <2>2, <2>3 DEF Counts
<1>5. Counts'
  BY <1>1, <1>2, <1>4, SMT DEF Counts
<1> QED BY <1>1, <1>2, <1>3, <1>5, SMT DEF NothingDropped

(* A passed call changes nothing but the ring and its counters.             *)
LEMMA CallInv ==
  ASSUME IInv, NEW p \in Process, Call(p)
  PROVE  IInv'
<1> USE FifoAssumption
<1>1. ASSUME NEW call \in {"read", "write"}, NEW e \in {"read", "written"},
             WaitOn(p, e, call), arg' \in [Process -> Value \cup {Empty}]
      PROVE  IInv'
  <2>1. at' \in [Process -> {"user", "read", "write"}]
    BY <1>1, Zenon DEF WaitOn, IInv, TypeOK
  <2>2. UNCHANGED <<ring, counts, requested, dropped>>
    BY <1>1 DEF WaitOn
  <2>3. SchedulerTypeOK'
    BY <1>1, SchedulerTypes DEF WaitOn, IInv, TypeOK
  <2> QED BY <1>1, <2>1, <2>2, <2>3, Zenon DEF IInv, TypeOK, Counts, NothingDropped, ring, counts
<1>2. ASSUME FetchOne, num_available # 0,
             at' \in [Process -> {"user", "read", "write"}], UNCHANGED arg
      PROVE  IInv'
  <2>1. /\ numRead' = numRead + 1 /\ requested' = TRUE
        /\ UNCHANGED <<readable, numWritten>>
    BY <1>2 DEF FetchOne
  <2>2. numRead' \in 0 .. Size
    BY <1>2, <2>1, FetchStep, SMT DEF IInv, TypeOK
  <2>3. dropped' \in BOOLEAN /\ wi' \in Index
    BY <1>2, FetchStep DEF IInv, TypeOK
  <2>4. SchedulerTypeOK'
    BY <1>2, {} \in SUBSET Event, SchedulerTypes DEF FetchOne, IInv, TypeOK
  <2> QED BY <1>2, <2>1, <2>2, <2>3, <2>4, FetchStep, Zenon DEF IInv, TypeOK
<1>3. ASSUME NEW v \in Value, StoreOne(v), num_free # 0,
             at' \in [Process -> {"user", "read", "write"}],
             arg' \in [Process -> Value \cup {Empty}]
      PROVE  IInv'
  <2>1. /\ numWritten' = numWritten + 1 /\ requested' = TRUE
        /\ UNCHANGED <<readable, numRead>>
    BY <1>3 DEF StoreOne
  <2>2. numWritten' \in 0 .. Size
    BY <1>3, <2>1, StoreStep, SMT DEF IInv, TypeOK
  <2>3. dropped' \in BOOLEAN /\ ri' \in Index
    BY <1>3, StoreStep DEF IInv, TypeOK
  <2>4. SchedulerTypeOK'
    BY <1>3, {} \in SUBSET Event, SchedulerTypes DEF StoreOne, IInv, TypeOK
  <2> QED BY <1>3, <2>1, <2>2, <2>3, <2>4, StoreStep, Zenon DEF IInv, TypeOK
<1>4. arg \in [Process -> Value \cup {Empty}] /\ at \in [Process -> {"user", "read", "write"}]
  BY DEF IInv, TypeOK
<1>5. CASE Read(p)
  BY <1>1, <1>2, <1>4, <1>5, Zenon DEF Read, ReadPass
<1>6. CASE NbRead(p)
  BY <1>2, <1>4, <1>6, Zenon DEF NbRead, calls
<1>7. ASSUME NEW v \in Value, Write(p, v) PROVE IInv'
  BY <1>1, <1>3, <1>4, <1>7, Zenon DEF Write, WritePass
<1>8. ASSUME NEW v \in Value, NbWrite(p, v) PROVE IInv'
  BY <1>3, <1>4, <1>8, Zenon DEF NbWrite, calls
<1> QED BY <1>5, <1>6, <1>7, <1>8 DEF Call

(* So does a step of the scheduler, and an update makes the counters say    *)
(* what the ring holds.                                                     *)
LEMMA SchedulerInv ==
  ASSUME IInv, (\E p \in Process : Suspend(p)) \/ Update \/ Schedule
  PROVE  IInv'
<1> USE FifoAssumption
<1>1. ASSUME UNCHANGED <<ring, counts, requested, calls, dropped>>, SchedulerTypeOK'
      PROVE  IInv'
  BY <1>1, Zenon DEF IInv, TypeOK, Counts, NothingDropped, ring, counts, calls
<1>2. SchedulerTypeOK
  BY DEF IInv, TypeOK
<1>3. ASSUME NEW p \in Process, Suspend(p) PROVE IInv'
  BY <1>1, <1>2, <1>3, SchedulerTypes DEF Suspend
<1>4. CASE Schedule
  BY <1>1, <1>2, <1>4, SchedulerTypes DEF Schedule
<1>5. CASE Update
  <2>1. UNCHANGED <<ring, calls, dropped>> /\ requested' = FALSE
    BY <1>5 DEF Update
  <2>2. CASE requested
    <3>1. /\ readable' = Size - free /\ numRead' = 0 /\ numWritten' = 0
          /\ \E E \in SUBSET Event : UpdatePhase(E)
      BY <1>5, <2>2, Zenon DEF Update, update
    <3>2. Counts' /\ readable' \in 0 .. Size /\ 0 \in 0 .. Size
      BY <2>1, <3>1, SMT DEF IInv, TypeOK, Counts, ring
    <3>3. SchedulerTypeOK'
      BY <1>2, <3>1, SchedulerTypes
    <3> QED BY <2>1, <3>1, <3>2, <3>3, Zenon DEF IInv, TypeOK, NothingDropped, ring, calls
  <2>3. CASE ~requested
    <3>1. UpdatePhase({}) /\ UNCHANGED counts
      BY <1>5, <2>3, Zenon DEF Update
    <3>2. SchedulerTypeOK'
      BY <1>2, <3>1, {} \in SUBSET Event, SchedulerTypes
    <3> QED BY <2>1, <3>1, <3>2, Zenon
            DEF IInv, TypeOK, Counts, NothingDropped, ring, counts, calls
  <2> QED BY <2>2, <2>3
<1> QED BY <1>3, <1>4, <1>5

LEMMA Stutter == IInv /\ UNCHANGED vars => IInv'
<1> SUFFICES ASSUME IInv, UNCHANGED vars PROVE IInv'
  OBVIOUS
<1>1. UNCHANGED ring /\ UNCHANGED counts /\ UNCHANGED calls /\ UNCHANGED scheduler
  BY DEF vars
<1>2. UNCHANGED <<requested, dropped>>
  BY DEF vars
<1>3. SchedulerTypeOK'
  BY <1>1, Zenon DEF IInv, TypeOK, SchedulerTypeOK, scheduler
<1> QED BY <1>1, <1>2, <1>3, Zenon
        DEF IInv, TypeOK, Counts, NothingDropped, ring, counts, calls

LEMMA Inductive == Spec => []IInv
<1>1. IInv /\ [Next]_vars => IInv'
  BY CallInv, SchedulerInv, Stutter, Zenon DEF Next
<1> QED BY InitInv, <1>1, PTL DEF Spec

(* Every variable keeps its type; the indices stay inside the buffer.       *)
THEOREM TypeCorrect == Spec => []TypeOK
  BY Inductive, PTL DEF IInv

(* buf_write never finds the buffer full and buf_read never finds it empty, *)
(* although read() and write() decide on the counters of the delta cycle.   *)
THEOREM NeverDropped == Spec => []NothingDropped
  BY Inductive, PTL DEF IInv

(* What was read or written in this cycle makes the channel be in the update *)
(* list, so that the update to come will notify.                            *)
Requested == numRead > 0 \/ numWritten > 0 => requested
Wakeup == Requested /\ NoLostWakeup

(* A call that waits does so because nothing is left of what was there when *)
(* the cycle began; what is in the ring was put there in this cycle.        *)
LEMMA WaitWakeup ==
  ASSUME IInv, Wakeup, NEW p \in Process,
         \/ num_available = 0 /\ WaitOn(p, "written", "read")
         \/ num_free = 0 /\ WaitOn(p, "read", "write")
  PROVE  Wakeup'
<1> USE FifoAssumption
<1>1. /\ waiting \in [Event -> SUBSET Process]
      /\ "read" \in Event /\ "written" \in Event
      /\ "read" # "written"
  BY Zenon DEF IInv, TypeOK, SchedulerTypeOK
<1>2. UNCHANGED <<ring, counts, requested, notified>>
  BY DEF WaitOn, Join
<1>3. UNCHANGED <<free, readable, numRead, numWritten>>
  BY <1>2 DEF ring, counts
<1>4. Requested'
  BY <1>2, <1>3 DEF Wakeup, Requested
<1>5. CASE num_available = 0 /\ WaitOn(p, "written", "read")
  <2>1. waiting'["read"] = waiting["read"]
    BY <1>1, <1>5 DEF WaitOn, Join
  <2>2. free # Size => numWritten > 0
    BY <1>5, SMT DEF IInv, TypeOK, Counts, num_available
  <2>3. free # Size => requested /\ numWritten > 0
    BY <2>2 DEF Wakeup, Requested
  <2> QED BY <1>2, <1>3, <1>4, <2>1, <2>3, Zenon DEF Wakeup, NoLostWakeup
<1>6. CASE num_free = 0 /\ WaitOn(p, "read", "write")
  <2>1. waiting'["written"] = waiting["written"]
    BY <1>1, <1>6 DEF WaitOn, Join
  <2>2. free # 0 => numRead > 0
    BY <1>6, SMT DEF IInv, TypeOK, Counts, num_free
  <2>3. free # 0 => requested /\ numRead > 0
    BY <2>2 DEF Wakeup, Requested
  <2> QED BY <1>2, <1>3, <1>4, <2>1, <2>3, Zenon DEF Wakeup, NoLostWakeup
<1> QED BY <1>5, <1>6

(* A call that passes leaves the promise of a notification behind.          *)
LEMMA PassWakeup ==
  ASSUME IInv, Wakeup,
         \/ FetchOne /\ num_available # 0
         \/ \E v \in Value : StoreOne(v) /\ num_free # 0
  PROVE  Wakeup'
<1> USE FifoAssumption
<1>1. requested' = TRUE /\ Pass({})
  BY DEF FetchOne, StoreOne
<1>2. notified' = notified /\ waiting' = waiting
  BY <1>1 DEF Pass
<1>3. CASE FetchOne /\ num_available # 0
  <2>1. free # Size
    BY <1>3, FetchStep, SMT DEF IInv, TypeOK
  <2>2. numRead' > 0 /\ numWritten' = numWritten
    BY <1>3, SMT DEF FetchOne, IInv, TypeOK
  <2> QED BY <1>1, <1>2, <2>1, <2>2, Zenon DEF Wakeup, Requested, NoLostWakeup
<1>4. ASSUME NEW v \in Value, StoreOne(v), num_free # 0 PROVE Wakeup'
  <2>1. free # 0
    BY <1>4, StoreStep, SMT DEF IInv, TypeOK
  <2>2. numWritten' > 0 /\ numRead' = numRead
    BY <1>4, SMT DEF StoreOne, IInv, TypeOK
  <2> QED BY <1>1, <1>2, <2>1, <2>2, Zenon DEF Wakeup, Requested, NoLostWakeup
<1> QED BY <1>3, <1>4

LEMMA CallWakeup ==
  ASSUME IInv, Wakeup, NEW p \in Process, Call(p)
  PROVE  Wakeup'
<1>1. CASE Read(p)
  BY <1>1, WaitWakeup, PassWakeup DEF Read, ReadPass
<1>2. CASE NbRead(p)
  BY <1>2, PassWakeup DEF NbRead
<1>3. ASSUME NEW v \in Value, Write(p, v) PROVE Wakeup'
  BY <1>3, WaitWakeup, PassWakeup DEF Write, WritePass
<1>4. ASSUME NEW v \in Value, NbWrite(p, v) PROVE Wakeup'
  BY <1>4, PassWakeup DEF NbWrite
<1> QED BY <1>1, <1>2, <1>3, <1>4 DEF Call

(* The update notifies what it promised; the delivery wakes all who wait.   *)
LEMMA SchedulerWakeup ==
  ASSUME IInv, Wakeup, (\E p \in Process : Suspend(p)) \/ Update \/ Schedule
  PROVE  Wakeup'
<1> USE FifoAssumption
<1>1. "read" \in Event /\ "written" \in Event /\ "read" # "written"
  OBVIOUS
<1>2. CASE UNCHANGED <<free, numRead, numWritten, requested, notified, waiting>>
  BY <1>2 DEF Wakeup, Requested, NoLostWakeup
<1>3. ASSUME NEW p \in Process, Suspend(p) PROVE Wakeup'
  BY <1>2, <1>3 DEF Suspend, SuspendProcess, ring, counts
<1>4. CASE Schedule
  <2>1. UNCHANGED <<free, numRead, numWritten, requested>>
    BY <1>4 DEF Schedule, ring, counts
  <2>2. CASE Starve \/ Restart
    BY <1>2, <2>1, <2>2 DEF Starve, Restart
  <2>3. CASE SomeDelivery
    <3>1. waiting' = [e \in Event |-> IF e \in notified THEN {} ELSE waiting[e]]
      BY <2>3 DEF SomeDelivery, DeliverEvents
    <3>2. \A e \in Event : waiting'[e] # {} => waiting[e] # {} /\ e \notin notified
      BY <3>1
    <3> QED BY <1>1, <2>1, <3>2, Zenon DEF Wakeup, Requested, NoLostWakeup
  <2> QED BY <1>4, <2>2, <2>3 DEF Schedule
<1>5. CASE Update
  <2>1. free' = free /\ waiting' = waiting
    BY <1>5 DEF Update, update, UpdatePhase, ring
  <2>2. CASE ~requested
    <3>1. requested' = FALSE /\ UpdatePhase({}) /\ UNCHANGED counts
      BY <1>5, <2>2 DEF Update
    <3>2. requested \in BOOLEAN
      BY DEF IInv, TypeOK
    <3>3. requested' = requested
      BY <2>2, <3>1, <3>2
    <3>4. notified' = notified /\ numRead' = numRead /\ numWritten' = numWritten
      BY <3>1 DEF UpdatePhase, counts
    <3> QED BY <1>2, <2>1, <3>3, <3>4
  <2>3. CASE requested
    <3>1. /\ numRead' = 0 /\ numWritten' = 0
          /\ notified' = notified \cup {e \in Event : IF e = "read" THEN numRead > 0
                                                                  ELSE numWritten > 0}
      BY <1>5, <2>3 DEF Update, update, UpdatePhase
    <3>2. /\ "written" \in notified' <=> "written" \in notified \/ numWritten > 0
          /\ "read" \in notified' <=> "read" \in notified \/ numRead > 0
      BY <1>1, <3>1
    <3>3. Requested'
      BY <3>1, SMT DEF Requested
    <3> QED BY <2>1, <3>2, <3>3, Zenon DEF Wakeup, NoLostWakeup
  <2> QED BY <2>2, <2>3
<1> QED BY <1>3, <1>4, <1>5

(* What the processes that share a fifo rely on, for every size and every   *)
(* number of readers and writers: types, no value dropped, and whoever      *)
(* waits for what is there will be woken (read, write, update).             *)
THEOREM FifoSafeHolds == Spec => []FifoSafe
<1>1. Init => Wakeup
  <2> SUFFICES ASSUME Init PROVE Wakeup
    OBVIOUS
  <2>1. waiting["written"] = {} /\ waiting["read"] = {}
    BY FifoAssumption DEF Init, SchedulerInit
  <2>2. numRead = 0 /\ numWritten = 0
    BY DEF Init
  <2> QED BY <2>1, <2>2, SMT DEF Wakeup, Requested, NoLostWakeup
<1>2. IInv /\ Wakeup /\ [Next]_vars => Wakeup'
  <2> SUFFICES ASSUME IInv, Wakeup, [Next]_vars PROVE Wakeup'
    OBVIOUS
  <2>1. CASE Next
    BY <2>1, CallWakeup, SchedulerWakeup, Zenon DEF Next
  <2>2. CASE UNCHANGED vars
    BY <2>2 DEF vars, ring, counts, scheduler, Wakeup, Requested, NoLostWakeup
  <2> QED BY <2>1, <2>2
<1>3. IInv /\ Wakeup => FifoSafe
  BY DEF IInv, Wakeup, FifoSafe
<1> QED BY Inductive, <1>1, <1>2, <1>3, PTL DEF Spec

(* The elements of the ring, as a sequence.                                 *)
LEMMA Contents ==
  ASSUME IInv
  PROVE  /\ contents \in Seq(Value \cup {Empty})
         /\ Len(contents) = Size - free
         /\ \A i \in 1 .. Size - free : contents[i] = buf[(ri + i - 1) % Size]
<1> USE FifoAssumption
<1>1. Size - free \in Nat /\ ri \in Nat
  BY SMT DEF IInv, TypeOK, Index
<1>2. ASSUME NEW i \in 1 .. Size - free
      PROVE  buf[(ri + i - 1) % Size] \in Value \cup {Empty}
  <2>1. ri + i - 1 \in Nat
    BY <1>1, SMT
  <2>2. (ri + i - 1) % Size \in Index
    BY <2>1, SMT DEF Index
  <2> QED BY <2>2 DEF IInv, TypeOK
<1> QED BY <1>1, <1>2, SMT DEF contents

(* Storing appends the value ...                                            *)
LEMMA StoreAppends ==
  ASSUME IInv, IInv', NEW v \in Value, StoreOne(v), num_free # 0
  PROVE  contents' = Append(contents, v)
<1> USE FifoAssumption
<1> DEFINE n == Size - free
<1>1. /\ free > 0 /\ free' = free - 1 /\ ri' = ri
      /\ buf' = [buf EXCEPT ![wi] = v]
  BY StoreStep
<1>2. n \in Nat /\ Size - free' = n + 1 /\ ri \in 0 .. Size - 1 /\ n < Size
  BY <1>1, SMT DEF IInv, TypeOK, Index
<1>3. /\ contents' \in Seq(Value \cup {Empty}) /\ Len(contents') = n + 1
      /\ \A i \in 1 .. n + 1 : contents'[i] = buf'[(ri + i - 1) % Size]
  <2>1. ASSUME IInv' PROVE (contents \in Seq(Value \cup {Empty}))' /\ (Len(contents) = Size - free)'
               /\ (\A i \in 1 .. Size - free : contents[i] = buf[(ri + i - 1) % Size])'
    BY <2>1, Contents, PTL
  <2> QED BY <1>1, <1>2, <2>1
<1>4. /\ contents \in Seq(Value \cup {Empty}) /\ Len(contents) = n
      /\ \A i \in 1 .. n : contents[i] = buf[(ri + i - 1) % Size]
  BY Contents
<1>5. wi = (ri + n) % Size
  BY DEF IInv, Counts
<1>6. contents'[n + 1] = v
  <2>1. ri + (n + 1) - 1 = ri + n
    BY <1>2, SMT
  <2>2. n + 1 \in 1 .. n + 1
    BY <1>2, SMT
  <2>3. contents'[n + 1] = buf'[wi]
    BY <1>3, <1>5, <2>1, <2>2, Zenon
  <2> QED BY <1>1, <2>3 DEF IInv, TypeOK
<1>7. ASSUME NEW i \in 1 .. n PROVE contents'[i] = contents[i]
  <2>1. (ri + i - 1) % Size # wi
    <3>1. CASE ri + n < Size
      <4>1. (ri + n) % Size = ri + n /\ (ri + i - 1) % Size = ri + i - 1
        <5>1. ri + n \in 0 .. Size - 1 /\ ri + i - 1 \in 0 .. Size - 1
          BY <1>2, <3>1, SMT
        <5> QED BY <5>1, RingSmall, Zenon
      <4> QED BY <1>2, <1>5, <4>1, SMT
    <3>2. CASE ri + n >= Size
      <4>1. (ri + n) % Size = ri + n - Size
        BY <1>2, <3>2, ri + n \in Size .. 2 * Size - 1, ModWrap, SMT
      <4>2. CASE ri + i - 1 < Size
        <5>1. (ri + i - 1) % Size = ri + i - 1
          BY <1>2, <4>2, ri + i - 1 \in 0 .. Size - 1, ModSmall, SMT
        <5> QED BY <1>2, <1>5, <4>1, <5>1, SMT
      <4>3. CASE ri + i - 1 >= Size
        <5>1. (ri + i - 1) % Size = (ri + i - 1) - Size
          <6>1. ri + i - 1 \in Size .. 2 * Size - 1
            BY <1>2, <4>3, SMT
          <6> QED BY <6>1, RingWrap, Zenon
        <5> QED BY <1>2, <1>5, <4>1, <5>1, SMT
      <4> QED BY <1>2, <4>2, <4>3, SMT
    <3> QED BY <1>2, <3>1, <3>2, SMT
  <2>2. (ri + i - 1) % Size \in Index
    <3>1. ri + i - 1 \in Nat
      BY <1>2, SMT
    <3> QED BY <3>1, SMT DEF Index
  <2>3. i \in 1 .. n + 1
    BY <1>2, SMT
  <2>4. buf'[(ri + i - 1) % Size] = buf[(ri + i - 1) % Size]
    BY <1>1, <2>1, <2>2, Zenon DEF IInv, TypeOK
  <2> QED BY <1>3, <1>4, <2>3, <2>4, Zenon
<1> HIDE DEF n
<1>8. /\ Append(contents, v) \in Seq(Value \cup {Empty})
      /\ Len(Append(contents, v)) = n + 1
      /\ \A i \in 1 .. n : Append(contents, v)[i] = contents[i]
      /\ Append(contents, v)[n + 1] = v
  <2> DEFINE S == Value \cup {Empty}
  <2>1. contents \in Seq(S) /\ v \in S /\ Len(contents) = n
    BY <1>4
  <2> HIDE DEF S
  <2>2. /\ Append(contents, v) \in Seq(S)
        /\ Len(Append(contents, v)) = Len(contents) + 1
        /\ \A i \in 1 .. Len(contents) : Append(contents, v)[i] = contents[i]
        /\ Append(contents, v)[Len(contents) + 1] = v
    BY <2>1, AppendProperties
  <2> QED BY <2>1, <2>2 DEF S
<1>9. \A i \in 1 .. n + 1 : contents'[i] = Append(contents, v)[i]
  BY <1>2, <1>6, <1>7, <1>8, SMT
<1> QED BY <1>3, <1>8, <1>9, SeqEqual

(* ... and fetching takes the oldest one.                                   *)
LEMMA FetchTakes ==
  ASSUME IInv, IInv', FetchOne, num_available # 0
  PROVE  contents' = Tail(contents)
<1> USE FifoAssumption
<1> DEFINE n == Size - free
<1>1. /\ free < Size /\ free' = free + 1 /\ ri' = (ri + 1) % Size
      /\ buf' = [buf EXCEPT ![ri] = Empty]
  BY FetchStep
<1>2. n \in Nat \ {0} /\ Size - free' = n - 1 /\ ri \in 0 .. Size - 1 /\ n <= Size
  BY <1>1, SMT DEF IInv, TypeOK, Index
<1>3. /\ contents' \in Seq(Value \cup {Empty}) /\ Len(contents') = n - 1
      /\ \A i \in 1 .. n - 1 : contents'[i] = buf'[(ri' + i - 1) % Size]
  <2>1. ASSUME IInv' PROVE (contents \in Seq(Value \cup {Empty}))' /\ (Len(contents) = Size - free)'
               /\ (\A i \in 1 .. Size - free : contents[i] = buf[(ri + i - 1) % Size])'
    BY <2>1, Contents, PTL
  <2> QED BY <1>1, <1>2, <2>1
<1>4. /\ contents \in Seq(Value \cup {Empty}) /\ Len(contents) = n
      /\ \A i \in 1 .. n : contents[i] = buf[(ri + i - 1) % Size]
  BY Contents
<1>5. ASSUME NEW i \in 1 .. n - 1 PROVE contents'[i] = contents[i + 1]
  <2>1. /\ i - 1 \in 0 .. Size - 1 /\ i + 1 \in 1 .. n
        /\ ri + (i + 1) - 1 = ri + ((i - 1) + 1)
        /\ ri' + i - 1 = ((ri + 1) % Size) + (i - 1)
        /\ ri + (i + 1) - 1 = ri + i
    BY <1>1, <1>2, SMT
  <2>2. (ri' + i - 1) % Size = (ri + i) % Size
    BY <1>2, <2>1, ModShift, Zenon
  <2>3. (ri + i) % Size # ri
    <3>1. CASE ri + i < Size
      BY <1>2, <3>1, ri + i \in 0 .. Size - 1, ModSmall, SMT
    <3>2. CASE ri + i >= Size
      <4>1. (ri + i) % Size = (ri + i) - Size
        <5>1. ri + i \in Size .. 2 * Size - 1
          BY <1>2, <3>2, SMT
        <5> QED BY <5>1, RingWrap, Zenon
      <4> QED BY <1>2, <4>1, SMT
    <3> QED BY <1>2, <3>1, <3>2, SMT
  <2>4. (ri + i) % Size \in Index
    BY <1>2, ri + i \in Nat, SMT DEF Index
  <2>5. buf'[(ri + i) % Size] = buf[(ri + i) % Size]
    BY <1>1, <2>3, <2>4, Zenon DEF IInv, TypeOK
  <2> QED BY <1>3, <1>4, <2>1, <2>2, <2>5, Zenon
<1> HIDE DEF n
<1>6. /\ Tail(contents) \in Seq(Value \cup {Empty})
      /\ Len(Tail(contents)) = n - 1
      /\ \A i \in 1 .. n - 1 : Tail(contents)[i] = contents[i + 1]
  BY <1>2, <1>4, SMT
<1> QED BY <1>3, <1>5, <1>6, SeqEqual

(* A call is a step of the bounded queue, or leaves it as it is.            *)
LEMMA CallRefines ==
  ASSUME IInv, IInv', NEW p \in Process, Call(p)
  PROVE  Queue!Next \/ UNCHANGED Queue!vars
<1> USE FifoAssumption
<1>1. ASSUME FetchOne, num_available # 0 PROVE Queue!Take
  <2>1. Len(contents) > numWritten
    <3>1. numRead < readable
      BY <1>1, FetchStep
    <3>2. Len(contents) = Size - free
      BY Contents
    <3> QED BY <3>1, <3>2, SMT DEF IInv, TypeOK, Counts
  <2>2. /\ numRead' = numRead + 1
        /\ numWritten' = numWritten
    BY <1>1 DEF FetchOne
  <2> QED BY <1>1, <2>1, <2>2, FetchTakes DEF Queue!Take
<1>2. ASSUME NEW v \in Value, StoreOne(v), num_free # 0 PROVE Queue!Put(v)
  <2>1. Len(contents) + numRead < Size
    <3>1. readable + numWritten < Size
      BY <1>2, StoreStep
    <3>2. Len(contents) = Size - free
      BY Contents
    <3> QED BY <3>1, <3>2, SMT DEF IInv, TypeOK, Counts
  <2>2. /\ numWritten' = numWritten + 1
        /\ numRead' = numRead
    BY <1>2 DEF StoreOne
  <2> QED BY <1>2, <2>1, <2>2, StoreAppends DEF Queue!Put
<1>3. ASSUME NEW e, NEW call, WaitOn(p, e, call) PROVE UNCHANGED Queue!vars
  <2>1. UNCHANGED ring /\ UNCHANGED counts
    BY <1>3 DEF WaitOn
  <2> QED BY <2>1 DEF Queue!vars, contents, ring, counts
<1>4. CASE Read(p)
  BY <1>1, <1>3, <1>4 DEF Read, ReadPass, Queue!Next
<1>5. CASE NbRead(p)
  BY <1>1, <1>5 DEF NbRead, Queue!Next
<1>6. ASSUME NEW v \in Value, Write(p, v) PROVE Queue!Next \/ UNCHANGED Queue!vars
  BY <1>2, <1>3, <1>6 DEF Write, WritePass, Queue!Next
<1>7. ASSUME NEW v \in Value, NbWrite(p, v) PROVE Queue!Next
  BY <1>2, <1>7 DEF NbWrite, Queue!Next
<1> QED BY <1>4, <1>5, <1>6, <1>7 DEF Call

(* The update phase is the boundary of the delta cycle; the rest of the     *)
(* scheduler does not touch the queue.                                      *)
LEMMA SchedulerRefines ==
  ASSUME (\E p \in Process : Suspend(p)) \/ Update \/ Schedule
  PROVE  Queue!Next \/ UNCHANGED Queue!vars
<1>1. UNCHANGED ring /\ UNCHANGED counts => UNCHANGED Queue!vars
  BY DEF Queue!vars, contents, ring, counts
<1>2. ASSUME NEW p \in Process, Suspend(p) PROVE UNCHANGED Queue!vars
  BY <1>1, <1>2 DEF Suspend
<1>3. CASE Schedule
  BY <1>1, <1>3 DEF Schedule
<1>4. CASE Update
  <2>1. UNCHANGED ring
    BY <1>4 DEF Update
  <2>2. CASE requested
    <3>1. numRead' = 0 /\ numWritten' = 0
      BY <1>4, <2>2 DEF Update, update
    <3>2. contents' = contents
      BY <2>1 DEF contents, ring
    <3> QED BY <3>1, <3>2 DEF Queue!Next, Queue!NextCycle
  <2>3. CASE ~requested
    BY <1>1, <1>4, <2>1, <2>3 DEF Update
  <2> QED BY <2>2, <2>3
<1> QED BY <1>2, <1>3, <1>4

(* The fifo implements the bounded queue with evaluate-update semantics:    *)
(* first in first out, never more than Size elements, and what one delta    *)
(* cycle does becomes visible in the next.                                  *)
THEOREM Implements == Spec => BoundedFifo
<1>1. Init => Queue!Init
  <2> SUFFICES ASSUME Init PROVE Queue!Init
    OBVIOUS
  <2>1. contents = <<>>
    BY InitInv, Contents, FifoAssumption, SMT DEF Init
  <2> QED BY <2>1 DEF Init, Queue!Init
<1>2. IInv /\ IInv' /\ [Next]_vars => [Queue!Next]_Queue!vars
  <2> SUFFICES ASSUME IInv, IInv', [Next]_vars PROVE [Queue!Next]_Queue!vars
    OBVIOUS
  <2>1. CASE Next
    BY <2>1, CallRefines, SchedulerRefines, Zenon DEF Next
  <2>2. CASE UNCHANGED vars
    BY <2>2 DEF vars, ring, counts, Queue!vars, contents
  <2> QED BY <2>1, <2>2
<1> QED BY Inductive, <1>1, <1>2, PTL DEF Spec, BoundedFifo, Queue!Spec
-----------------------------------------------------------------------------
(* sc_mutex, for the same processes and scheduler; its event is its own.    *)
CONSTANT Nobody
VARIABLES owner, inside, lockAt

Mutex == INSTANCE SimMutex WITH Event <- {"free"}, None <- Nobody, at <- lockAt

(* Both of these are inductive, since each call is one critical section.    *)
MutexSafe == Mutex!Exclusive /\ Mutex!NoLostWakeup

LEMMA MutexCall ==
  ASSUME Mutex!MutexAssumption, MutexSafe, NEW p \in Process, Mutex!Call(p)
  PROVE  MutexSafe'
<1> USE DEF MutexSafe, Mutex!Exclusive, Mutex!NoLostWakeup, Mutex!in_use
<1>1. p # Nobody
  BY DEF Mutex!MutexAssumption
<1>2. CASE Mutex!Again(p)
  BY <1>2 DEF Mutex!Again, Mutex!Pass
<1>3. CASE Mutex!Take(p)
  BY <1>1, <1>3 DEF Mutex!Take, Mutex!TakeAlways, Mutex!Pass
<1>4. CASE Mutex!in_use /\ Mutex!Join(p, "free") /\ UNCHANGED <<owner, inside>>
  BY <1>4 DEF Mutex!Join
<1>5. CASE Mutex!unlock(p)
  BY <1>1, <1>5 DEF Mutex!unlock, Mutex!Pass
<1> QED BY <1>2, <1>3, <1>4, <1>5 DEF Mutex!Call, Mutex!lock, Mutex!trylock

LEMMA MutexSchedule ==
  ASSUME Mutex!MutexAssumption, MutexSafe,
         (\E p \in Process : Mutex!Suspend(p)) \/ Mutex!Schedule
  PROVE  MutexSafe'
<1> USE DEF MutexSafe, Mutex!Exclusive, Mutex!NoLostWakeup, Mutex!in_use
<1>1. UNCHANGED <<owner, inside>>
  BY DEF Mutex!Suspend, Mutex!Schedule
<1>2. CASE UNCHANGED <<notified, waiting>>
  BY <1>1, <1>2
<1>3. CASE Mutex!SomeDelivery
  <2>1. waiting' = [e \in {"free"} |-> IF e \in notified THEN {} ELSE waiting[e]]
    BY <1>3 DEF Mutex!SomeDelivery, Mutex!DeliverEvents
  <2>2. waiting'["free"] # {} => waiting["free"] # {} /\ "free" \notin notified
    BY <2>1 DEF Mutex!MutexAssumption
  <2> QED BY <1>1, <2>2
<1>4. CASE Mutex!UpdatePhase({}) \/ Mutex!Starve \/ Mutex!Restart
    \/ \E p \in Process : Mutex!SuspendProcess(p)
  BY <1>2, <1>4 DEF Mutex!UpdatePhase, Mutex!Starve, Mutex!Restart, Mutex!SuspendProcess
<1> QED BY <1>3, <1>4 DEF Mutex!Suspend, Mutex!Schedule

LEMMA MutexHolds == ASSUME Mutex!MutexAssumption PROVE Mutex!Spec => []MutexSafe
<1>1. Mutex!Init => MutexSafe
  <2> SUFFICES ASSUME Mutex!Init PROVE MutexSafe
    OBVIOUS
  <2> QED BY DEF Mutex!Init, Mutex!SchedulerInit, MutexSafe, Mutex!Exclusive,
      Mutex!NoLostWakeup, Mutex!MutexAssumption
<1>2. MutexSafe /\ [Mutex!Next]_Mutex!vars => MutexSafe'
  <2> SUFFICES ASSUME MutexSafe, [Mutex!Next]_Mutex!vars PROVE MutexSafe'
    OBVIOUS
  <2>1. CASE Mutex!Next
    BY <2>1, MutexCall, MutexSchedule DEF Mutex!Next
  <2>2. CASE UNCHANGED Mutex!vars
    BY <2>2 DEF Mutex!vars, Mutex!scheduler, MutexSafe, Mutex!Exclusive,
        Mutex!NoLostWakeup, Mutex!in_use
  <2> QED BY <2>1, <2>2
<1> QED BY <1>1, <1>2, PTL DEF Mutex!Spec

(* For any number of processes: the processes that were let in and have not *)
(* called unlock() are the owner, or nobody.                                *)
THEOREM MutexExclusiveHolds ==
  ASSUME Mutex!MutexAssumption
  PROVE  Mutex!Spec => []Mutex!Exclusive
  BY MutexHolds, PTL DEF MutexSafe

(* For any number of processes: a process waits beside a free mutex only    *)
(* with a notification on its way.                                          *)
THEOREM MutexNoLostWakeupHolds ==
  ASSUME Mutex!MutexAssumption
  PROVE  Mutex!Spec => []Mutex!NoLostWakeup
  BY MutexHolds, PTL DEF MutexSafe

-----------------------------------------------------------------------------
(* sc_semaphore, for the same processes and scheduler.                      *)
CONSTANTS Initial, MaxPosts
VARIABLES value, passed, posts, waitAt

Semaphore == INSTANCE SimSemaphore WITH Event <- {"free"}, at <- waitAt

(* The counter is what was there and was posted, less what was taken.       *)
SemaphoreSafe ==
    /\ value \in Nat /\ passed \in Nat /\ posts \in Nat
    /\ value = Initial + posts - passed
    /\ Semaphore!NoLostWakeup

LEMMA SemaphoreCall ==
  ASSUME Semaphore!SemaphoreAssumption, SemaphoreSafe, NEW p \in Process,
         Semaphore!Call(p)
  PROVE  SemaphoreSafe'
<1> USE DEF Semaphore!SemaphoreAssumption
<1>1. CASE Semaphore!Take(p)
  <2>1. value > 0
    BY <1>1, SMT DEF Semaphore!Take, Semaphore!in_use, SemaphoreSafe
  <2>2. value' = value - 1 /\ passed' = passed + 1 /\ UNCHANGED posts
        /\ UNCHANGED <<notified, waiting>>
    BY <1>1 DEF Semaphore!Take, Semaphore!TakeAlways, Semaphore!Pass
  <2> QED BY <2>1, <2>2, SMT DEF SemaphoreSafe, Semaphore!NoLostWakeup, Semaphore!in_use
<1>2. CASE Semaphore!WaitFree(p)
  BY <1>2 DEF Semaphore!WaitFree, Semaphore!Join, SemaphoreSafe,
      Semaphore!NoLostWakeup, Semaphore!in_use
<1>3. CASE Semaphore!post(p)
  <2>1. value' = value + 1 /\ posts' = posts + 1 /\ UNCHANGED passed
    BY <1>3 DEF Semaphore!post
  <2>2. "free" \in notified'
    BY <1>3 DEF Semaphore!post, Semaphore!Pass
  <2>3. value' \in Nat /\ posts' \in Nat /\ value' = Initial + posts' - passed'
    BY <2>1, SMT DEF SemaphoreSafe
  <2> QED BY <2>1, <2>2, <2>3 DEF SemaphoreSafe, Semaphore!NoLostWakeup
<1> QED BY <1>1, <1>2, <1>3 DEF Semaphore!Call, Semaphore!wait, Semaphore!trywait

LEMMA SemaphoreSchedule ==
  ASSUME Semaphore!SemaphoreAssumption, SemaphoreSafe,
         (\E p \in Process : Semaphore!Suspend(p)) \/ Semaphore!Schedule
  PROVE  SemaphoreSafe'
<1> USE DEF SemaphoreSafe, Semaphore!NoLostWakeup, Semaphore!in_use
<1>1. UNCHANGED <<value, passed, posts>>
  BY DEF Semaphore!Suspend, Semaphore!Schedule
<1>2. CASE UNCHANGED <<notified, waiting>>
  BY <1>1, <1>2
<1>3. CASE Semaphore!SomeDelivery
  <2>1. waiting' = [e \in {"free"} |-> IF e \in notified THEN {} ELSE waiting[e]]
    BY <1>3 DEF Semaphore!SomeDelivery, Semaphore!DeliverEvents
  <2>2. waiting'["free"] # {} => waiting["free"] # {} /\ "free" \notin notified
    BY <2>1 DEF Semaphore!SemaphoreAssumption
  <2> QED BY <1>1, <2>2
<1>4. CASE Semaphore!UpdatePhase({}) \/ Semaphore!Starve \/ Semaphore!Restart
    \/ \E p \in Process : Semaphore!SuspendProcess(p)
  BY <1>2, <1>4 DEF Semaphore!UpdatePhase, Semaphore!Starve, Semaphore!Restart,
      Semaphore!SuspendProcess
<1> QED BY <1>3, <1>4 DEF Semaphore!Suspend, Semaphore!Schedule

LEMMA SemaphoreHolds ==
  ASSUME Semaphore!SemaphoreAssumption
  PROVE  Semaphore!Spec => []SemaphoreSafe
<1>1. Semaphore!Init => SemaphoreSafe
  <2> SUFFICES ASSUME Semaphore!Init PROVE SemaphoreSafe
    OBVIOUS
  <2>1. waiting["free"] = {}
    BY DEF Semaphore!Init, Semaphore!SchedulerInit, Semaphore!SemaphoreAssumption
  <2> QED BY <2>1, SMT DEF Semaphore!Init, SemaphoreSafe, Semaphore!NoLostWakeup,
      Semaphore!SemaphoreAssumption
<1>2. SemaphoreSafe /\ [Semaphore!Next]_Semaphore!vars => SemaphoreSafe'
  <2> SUFFICES ASSUME SemaphoreSafe, [Semaphore!Next]_Semaphore!vars
      PROVE  SemaphoreSafe'
    OBVIOUS
  <2>1. CASE Semaphore!Next
    BY <2>1, SemaphoreCall, SemaphoreSchedule DEF Semaphore!Next
  <2>2. CASE UNCHANGED Semaphore!vars
    BY <2>2 DEF Semaphore!vars, Semaphore!scheduler, SemaphoreSafe,
        Semaphore!NoLostWakeup, Semaphore!in_use
  <2> QED BY <2>1, <2>2
<1> QED BY <1>1, <1>2, PTL DEF Semaphore!Spec

(* For any number of processes, units and posts: no more calls of wait()    *)
(* and trywait() return than there were units.                              *)
THEOREM SemaphoreNeverOversoldHolds ==
  ASSUME Semaphore!SemaphoreAssumption
  PROVE  Semaphore!Spec => []Semaphore!NeverOversold
<1>1. SemaphoreSafe => Semaphore!NeverOversold
  BY SMT DEF SemaphoreSafe, Semaphore!NeverOversold, Semaphore!SemaphoreAssumption
<1> QED BY <1>1, SemaphoreHolds, PTL

(* For any number of processes, units and posts: a process waits beside a   *)
(* unit only with a notification on its way.                                *)
THEOREM SemaphoreNoLostWakeupHolds ==
  ASSUME Semaphore!SemaphoreAssumption
  PROVE  Semaphore!Spec => []Semaphore!NoLostWakeup
  BY SemaphoreHolds, PTL DEF SemaphoreSafe

-----------------------------------------------------------------------------
(* What a join counts: sc_join, whose joinable threads and joins are other  *)
(* processes than those of the channels, with variables of their own.       *)
CONSTANTS Joinable, Joiner, Adds, Clocked, Early
VARIABLES storage, size, zombie, m_threads_n, added, place, joinNotified

Joins == INSTANCE Join WITH Thread <- Joinable, notified <- joinNotified

(* The cardinality in the instance is the one that the lemmas are about.    *)
LEMMA JoinSize == \A S : Joins!Cardinality(S) = Cardinality(S)
BY DEF Joins!Cardinality, Cardinality

(* The order of the numbers, as a set of pairs.                             *)
NatLess == OpToRel(<, Nat)

(* A set of numbers has a least one.                                        *)
LEMMA LeastNumber ==
  ASSUME NEW S \in SUBSET Nat, S # {}
  PROVE  \E m \in S : \A k \in S : m <= k
<1>1. IsWellFoundedOn(NatLess, Nat)
  BY NatLessThanWellFounded DEF NatLess
<1>2. PICK m \in S : \A k \in S : <<k, m>> \notin NatLess
  BY <1>1, WFMin
<1>3. \A k \in S : k \in Nat /\ m \in Nat /\ ~(k < m)
  BY <1>2 DEF NatLess, OpToRel
<1> QED BY <1>3

(* The loop of disconnect_process over the first n elements of q: its start *)
(* and its body.                                                            *)
LoopStart(q, n) == [storage |-> q, size |-> n, out |-> <<>>]
LoopBody(s, k) == [Joins!remove_monitor(s, s.storage[k]) EXCEPT !.out = Append(@, s.storage[k])]
LoopOf(f, q, n, m) == f = [k \in 0 .. m |-> IF k = 0 THEN LoopStart(q, n) ELSE LoopBody(f[k - 1], k)]

(* The loop can be run to every number of elements.                         *)
LEMMA LoopRuns ==
  ASSUME NEW q, NEW n \in Nat
  PROVE  \E f : LoopOf(f, q, n, n)
<1> DEFINE Short == {m \in Nat : ~ \E f : LoopOf(f, q, n, m)}
<1> SUFFICES ASSUME Short # {} PROVE FALSE
  BY DEF LoopOf
<1>1. PICK m \in Short : \A k \in Short : m <= k
  BY LeastNumber
<1>2. m \in Nat /\ ~ \E f : LoopOf(f, q, n, m)
  BY DEF LoopOf
<1>3. CASE m = 0
  <2> DEFINE g == [k \in 0 .. 0 |-> LoopStart(q, n)]
  <2>1. g = [k \in 0 .. m |-> IF k = 0 THEN LoopStart(q, n) ELSE LoopBody(g[k - 1], k)]
    BY <1>3
  <2> HIDE DEF g
  <2> QED BY <1>2, <2>1 DEF LoopOf
<1>4. CASE m # 0
  <2>1. m - 1 \in Nat /\ m - 1 \notin Short
    BY <1>1, <1>2, <1>4
  <2>2. PICK f : LoopOf(f, q, n, m - 1)
    BY <2>1
  <2>3. \A k \in 0 .. m - 1 : f[k] = IF k = 0 THEN LoopStart(q, n) ELSE LoopBody(f[k - 1], k)
    BY <2>2 DEF LoopOf
  <2> DEFINE g == [k \in 0 .. m |-> IF k = m THEN LoopBody(f[m - 1], m) ELSE f[k]]
  <2>4. ASSUME NEW k \in 0 .. m
        PROVE  g[k] = IF k = 0 THEN LoopStart(q, n) ELSE LoopBody(g[k - 1], k)
    <3>1. CASE k = m
      <4>1. k - 1 \in 0 .. m /\ k - 1 # m
        BY <1>2, <1>4, <3>1
      <4> QED BY <1>4, <3>1, <4>1
    <3>2. CASE k # m
      <4>1. k \in 0 .. m - 1 /\ k - 1 # m /\ (k # 0 => k - 1 \in 0 .. m)
        BY <1>2, <3>2
      <4> QED BY <2>3, <3>2, <4>1
    <3> QED BY <3>1, <3>2
  <2>5. g = [k \in 0 .. m |-> g[k]]
    OBVIOUS
  <2> HIDE DEF g
  <2>6. g = [k \in 0 .. m |-> IF k = 0 THEN LoopStart(q, n) ELSE LoopBody(g[k - 1], k)]
    BY <2>4, <2>5
  <2> QED BY <1>2, <2>6 DEF LoopOf
<1> QED BY <1>3, <1>4

(* So SignalAll is what its body makes of the start in n steps.             *)
LEMMA LoopSteps ==
  ASSUME NEW q, NEW n \in Nat
  PROVE  \E f : /\ Joins!SignalAll(q, n) = f[n]
                /\ f[0] = LoopStart(q, n)
                /\ \A k \in 1 .. n : f[k] = LoopBody(f[k - 1], k)
<1> DEFINE f == CHOOSE f : LoopOf(f, q, n, n)
<1>1. LoopOf(f, q, n, n)
  BY LoopRuns
<1>2. Joins!SignalAll(q, n) = f[n]
  BY DEF Joins!SignalAll, LoopOf, LoopStart, LoopBody
<1> HIDE DEF f
<1>3. \A k \in 0 .. n : f[k] = IF k = 0 THEN LoopStart(q, n) ELSE LoopBody(f[k - 1], k)
  BY <1>1 DEF LoopOf
<1>4. \A k \in 1 .. n : f[k] = LoopBody(f[k - 1], k)
  BY <1>3
<1>5. f[0] = LoopStart(q, n)
  BY <1>3
<1> QED BY <1>2, <1>4, <1>5

(* What k runs through the body have done: the queue is as much shorter, it *)
(* holds those that are still to be signalled, at places that have nothing  *)
(* to do with the index, and the storage behind the index is as it was.     *)
LoopRight(q, n, k, s) ==
    /\ s.storage \in Seq(Joiner) /\ Len(s.storage) = Len(q)
    /\ s.size = n - k
    /\ s.out \in Seq(Joiner) /\ Len(s.out) = k
    /\ \A i \in 1 .. k : s.out[i] = q[i]
    /\ \A i \in k + 1 .. n : s.storage[i] = q[i]
    /\ \A i, h \in 1 .. n - k : s.storage[i] = s.storage[h] => i = h
    /\ \A i \in 1 .. n - k : \E h \in k + 1 .. n : s.storage[i] = q[h]
    /\ \A h \in k + 1 .. n : \E i \in 1 .. n - k : s.storage[i] = q[h]

(* Each run through the body signals one of them and takes it out, although *)
(* this moves an element that the loop may have passed.                     *)
LEMMA BodyStep ==
  ASSUME NEW q \in Seq(Joiner), NEW n \in 0 .. Len(q), NEW k \in 0 .. n - 1, NEW s,
         \A i, h \in 1 .. n : q[i] = q[h] => i = h,
         s = [storage |-> s.storage, size |-> s.size, out |-> s.out],
         LoopRight(q, n, k, s)
  PROVE  LET r == LoopBody(s, k + 1)
         IN  /\ r = [storage |-> r.storage, size |-> r.size, out |-> r.out]
             /\ LoopRight(q, n, k + 1, r)
<1> DEFINE j == s.storage[k + 1]
           hits == {i \in 1 .. n - k : s.storage[i] = j}
           r == LoopBody(s, k + 1)
<1>1. j = q[k + 1] /\ j \in Joiner /\ k + 1 \in 1 .. n /\ n - k \in 1 .. n /\ n \in Nat /\ k \in Nat
  BY DEF LoopRight
<1>2. PICK h \in 1 .. n - k : s.storage[h] = j
  <2>1. k + 1 \in k + 1 .. n /\ \E h \in 1 .. n - k : s.storage[h] = q[k + 1]
    BY <1>1 DEF LoopRight
  <2> QED BY <1>1, <2>1
<1>3. hits = {h}
  BY <1>1, <1>2 DEF LoopRight
<1>4. /\ r = [storage |-> [i \in DOMAIN s.storage |-> IF i \in hits THEN s.storage[n - k] ELSE s.storage[i]],
              size |-> n - k - 1, out |-> Append(s.out, j)]
  <2>1. s.size = n - k /\ {i \in 1 .. s.size : s.storage[i] = j} = hits /\ hits # {}
    BY <1>3 DEF LoopRight
  <2> HIDE DEF hits, j
  <2> DEFINE u == [storage |-> [i \in DOMAIN s.storage |->
                                  IF i \in hits THEN s.storage[n - k] ELSE s.storage[i]],
                   size |-> n - k - 1, out |-> s.out]
  <2>2. Joins!remove_monitor(s, j) =
          [s EXCEPT !.storage = [i \in DOMAIN s.storage |->
                                   IF i \in hits THEN s.storage[n - k] ELSE s.storage[i]],
                    !.size = n - k - 1]
    BY <2>1, Zenon DEF Joins!remove_monitor
  <2>3. Joins!remove_monitor(s, j) = u
    <3> DEFINE w == [i \in DOMAIN s.storage |-> IF i \in hits THEN s.storage[n - k] ELSE s.storage[i]]
    <3>1. [s EXCEPT !.storage = w, !.size = n - k - 1]
            = [storage |-> w, size |-> n - k - 1, out |-> s.out]
      <4> HIDE DEF w
      <4>1. [s EXCEPT !.storage = w] = [storage |-> w, size |-> s.size, out |-> s.out]
        <5>1. [s EXCEPT !.storage = w]
                = [[storage |-> s.storage, size |-> s.size, out |-> s.out] EXCEPT !.storage = w]
          BY Zenon
        <5>2. \A a, b, c : [[storage |-> a, size |-> b, out |-> c] EXCEPT !.storage = w]
                             = [storage |-> w, size |-> b, out |-> c]
          OBVIOUS
        <5> QED BY <5>1, <5>2
      <4>2. [s EXCEPT !.storage = w, !.size = n - k - 1]
              = [[s EXCEPT !.storage = w] EXCEPT !.size = n - k - 1]
        OBVIOUS
      <4>3. [[s EXCEPT !.storage = w] EXCEPT !.size = n - k - 1]
              = [storage |-> w, size |-> n - k - 1, out |-> s.out]
        <5>1. [[s EXCEPT !.storage = w] EXCEPT !.size = n - k - 1]
                = [[storage |-> w, size |-> s.size, out |-> s.out] EXCEPT !.size = n - k - 1]
          BY <4>1, Zenon
        <5>2. \A a, b, c, d : [[storage |-> a, size |-> b, out |-> c] EXCEPT !.size = d]
                                = [storage |-> a, size |-> d, out |-> c]
          OBVIOUS
        <5> QED BY <5>1, <5>2
      <4> QED BY <4>2, <4>3
    <3> QED BY <2>2, <3>1
  <2>4. r = [u EXCEPT !.out = Append(s.out, j)]
    BY <2>3 DEF LoopBody, j
  <2> QED BY <2>4
<1> HIDE DEF r, hits
<1> DEFINE m == n - k
           st == [i \in 1 .. Len(q) |-> IF i = h THEN s.storage[m] ELSE s.storage[i]]
<1>5. r.storage = st /\ r.size = n - (k + 1) /\ r.out = Append(s.out, j)
      /\ r = [storage |-> r.storage, size |-> r.size, out |-> r.out]
  <2>1. DOMAIN s.storage = 1 .. Len(q)
    BY DEF LoopRight
  <2> QED BY <1>1, <1>3, <1>4, <2>1
<1>6. st \in Seq(Joiner) /\ Len(st) = Len(q)
  BY <1>1 DEF LoopRight
<1>7. /\ Append(s.out, j) \in Seq(Joiner) /\ Len(Append(s.out, j)) = k + 1
      /\ \A i \in 1 .. k + 1 : Append(s.out, j)[i] = q[i]
  <2>1. s.out \in Seq(Joiner) /\ Len(s.out) = k /\ \A i \in 1 .. k : s.out[i] = q[i]
    BY DEF LoopRight
  <2> HIDE DEF j
  <2>2. ASSUME NEW i \in 1 .. k + 1 PROVE Append(s.out, j)[i] = q[i]
    <3>1. i \in 1 .. k \/ i = k + 1
      BY <1>1
    <3> QED BY <1>1, <2>1, <3>1
  <2> QED BY <1>1, <2>1, <2>2
<1>8. ASSUME NEW i \in (k + 1) + 1 .. n PROVE st[i] = q[i]
  <2>1. i \in k + 1 .. n /\ i \in 1 .. n /\ i # k + 1 /\ i \in 1 .. Len(q)
    BY <1>1
  <2>2. s.storage[i] = q[i]
    BY <2>1 DEF LoopRight
  <2>3. i # h
    BY <1>1, <1>2, <2>1, <2>2
  <2> QED BY <2>1, <2>2, <2>3
<1>9. ASSUME NEW i \in 1 .. n - (k + 1), NEW g \in 1 .. n - (k + 1), st[i] = st[g] PROVE i = g
  <2>1. i \in 1 .. m /\ g \in 1 .. m /\ m \in 1 .. m /\ i # m /\ g # m
        /\ i \in 1 .. Len(q) /\ g \in 1 .. Len(q)
    BY <1>1
  <2> QED BY <1>9, <2>1 DEF LoopRight
<1>10. ASSUME NEW i \in 1 .. n - (k + 1) PROVE \E g \in (k + 1) + 1 .. n : st[i] = q[g]
  <2>1. i \in 1 .. m /\ m \in 1 .. m /\ i # m /\ i \in 1 .. Len(q)
    BY <1>1
  <2>2. PICK x \in 1 .. m : st[i] = s.storage[x] /\ x # h
    BY <1>1, <2>1
  <2>3. PICK g \in k + 1 .. n : s.storage[x] = q[g]
    BY <2>2 DEF LoopRight
  <2>4. ASSUME g = k + 1 PROVE FALSE
    <3>1. s.storage[x] = s.storage[h] /\ h \in 1 .. m
      BY <1>1, <1>2, <2>3, <2>4
    <3> QED BY <2>2, <3>1 DEF LoopRight
  <2> QED BY <1>1, <2>2, <2>3, <2>4
<1>11. ASSUME NEW g \in (k + 1) + 1 .. n PROVE \E i \in 1 .. n - (k + 1) : st[i] = q[g]
  <2>1. g \in k + 1 .. n /\ g # k + 1
    BY <1>1
  <2>2. PICK x \in 1 .. m : s.storage[x] = q[g]
    BY <2>1 DEF LoopRight
  <2>3. x # h
    BY <1>1, <1>2, <2>1, <2>2
  <2>4. CASE x = m
    <3>1. h \in 1 .. n - (k + 1) /\ h \in 1 .. Len(q)
      BY <1>1, <1>2, <2>3, <2>4
    <3> QED BY <2>2, <2>4, <3>1
  <2>5. CASE x # m
    <3>1. x \in 1 .. n - (k + 1) /\ x \in 1 .. Len(q)
      BY <1>1, <2>2, <2>5
    <3> QED BY <2>2, <2>3, <3>1
  <2> QED BY <2>4, <2>5
<1> HIDE DEF st, j
<1>12. LoopRight(q, n, k + 1, r)
  <2> HIDE DEF m
  <2>1. /\ r.storage \in Seq(Joiner) /\ Len(r.storage) = Len(q) /\ r.size = n - (k + 1)
        /\ r.out \in Seq(Joiner) /\ Len(r.out) = k + 1
        /\ \A i \in 1 .. k + 1 : r.out[i] = q[i]
    BY <1>5, <1>6, <1>7
  <2>2. /\ \A i \in (k + 1) + 1 .. n : r.storage[i] = q[i]
        /\ \A i, g \in 1 .. n - (k + 1) : r.storage[i] = r.storage[g] => i = g
    BY <1>5, <1>8, <1>9, Zenon
  <2>3. /\ \A i \in 1 .. n - (k + 1) : \E g \in (k + 1) + 1 .. n : r.storage[i] = q[g]
        /\ \A g \in (k + 1) + 1 .. n : \E i \in 1 .. n - (k + 1) : r.storage[i] = q[g]
    BY <1>5, <1>10, <1>11, Zenon
  <2> QED BY <2>1, <2>2, <2>3, Zenon DEF LoopRight
<1> QED BY <1>5, <1>12 DEF r


(* So every join in the queue of a thread that ends is signalled once, and  *)
(* the queue is empty when the loop is over.                                *)
LEMMA LoopSignalsAll ==
  ASSUME NEW q \in Seq(Joiner), NEW n \in 0 .. Len(q),
         \A i, h \in 1 .. n : q[i] = q[h] => i = h
  PROVE  LET end == Joins!SignalAll(q, n)
         IN  /\ end.storage \in Seq(Joiner) /\ Len(end.storage) = Len(q)
             /\ end.size = 0
             /\ \A j \in Joiner :
                    Joins!Times(end.out, j) = IF \E i \in 1 .. n : q[i] = j THEN 1 ELSE 0
<1>1. n \in Nat
  OBVIOUS
<1>2. PICK f : /\ Joins!SignalAll(q, n) = f[n]
               /\ f[0] = LoopStart(q, n)
               /\ \A k \in 1 .. n : f[k] = LoopBody(f[k - 1], k)
  BY <1>1, LoopSteps
<1> DEFINE Good(k) == /\ f[k] = [storage |-> f[k].storage, size |-> f[k].size, out |-> f[k].out]
                      /\ LoopRight(q, n, k, f[k])
           Bad == {k \in 0 .. n : ~Good(k)}
<1>3. Good(0)
  <2>1. f[0] = [storage |-> q, size |-> n, out |-> <<>>]
    BY <1>2 DEF LoopStart
  <2> QED BY <2>1 DEF LoopRight
<1>4. ASSUME NEW k \in 0 .. n - 1, Good(k) PROVE Good(k + 1)
  <2>1. k + 1 \in 1 .. n /\ (k + 1) - 1 = k
    BY <1>1
  <2>2. f[k + 1] = LoopBody(f[k], k + 1)
    BY <1>2, <2>1
  <2> QED BY <1>4, <2>2, BodyStep
<1> HIDE DEF Good
<1>5. Good(n)
  <2> SUFFICES ASSUME Bad # {} PROVE FALSE
    BY <1>1
  <2>1. Bad \in SUBSET Nat
    OBVIOUS
  <2>2. PICK m \in Bad : \A k \in Bad : m <= k
    BY <2>1, LeastNumber
  <2>3. m # 0 /\ m \in 0 .. n /\ ~Good(m)
    BY <1>3, <2>2
  <2>4. m - 1 \in 0 .. n - 1 /\ m - 1 \notin Bad /\ (m - 1) + 1 = m
    BY <1>1, <2>2, <2>3
  <2> QED BY <1>4, <2>3, <2>4
<1> DEFINE out == f[n].out
<1>6. /\ f[n].storage \in Seq(Joiner) /\ Len(f[n].storage) = Len(q) /\ f[n].size = 0
      /\ out \in Seq(Joiner) /\ Len(out) = n /\ \A i \in 1 .. n : out[i] = q[i]
  BY <1>1, <1>5 DEF Good, LoopRight
<1> HIDE DEF out
<1>7. ASSUME NEW j \in Joiner
      PROVE  Joins!Times(out, j) = IF \E i \in 1 .. n : q[i] = j THEN 1 ELSE 0
  <2>1. Joins!Times(out, j) = Cardinality({i \in 1 .. n : q[i] = j})
    <3>1. {i \in DOMAIN out : out[i] = j} = {i \in 1 .. n : q[i] = j}
      BY <1>6
    <3> QED BY <3>1, JoinSize DEF Joins!Times
  <2>2. CASE \E i \in 1 .. n : q[i] = j
    <3>1. PICK i \in 1 .. n : q[i] = j
      BY <2>2
    <3>2. {h \in 1 .. n : q[h] = j} = {i}
      BY <3>1
    <3> QED BY <2>1, <2>2, <3>2, FS_Singleton
  <2>3. CASE ~ \E i \in 1 .. n : q[i] = j
    <3>1. {h \in 1 .. n : q[h] = j} = {}
      BY <2>3
    <3> QED BY <2>1, <2>3, <3>1, FS_EmptySet
  <2> QED BY <2>2, <2>3
<1> QED BY <1>2, <1>6, <1>7 DEF out


(* A program that starts to wait before the threads end, and registers each *)
(* of them once.                                                            *)
JoinsOnce ==
    /\ ~Early
    /\ \A j \in Joiner : \A i, k \in DOMAIN Adds[j] : Adds[j][i] = Adds[j][k] => i = k

(* The first n elements of q are the members of S, once each.               *)
Enumerates(q, n, S) ==
    /\ n <= Len(q)
    /\ \A i, k \in 1 .. n : q[i] = q[k] => i = k
    /\ \A j \in Joiner : j \in S <=> \E i \in 1 .. n : q[i] = j

(* The queue of a thread holds the joins that have registered it, once each.*)
Monitors(t) == {j \in Joiner : t \in Joins!Members(j)}
MonitorsRight == \A t \in Joinable \ zombie : Enumerates(storage[t], size[t], Monitors(t))

(* Whoever waits has registered all his threads, and only theirs end; what  *)
(* is notified or returns has nothing left to count.                        *)
JoinersRight ==
    \A j \in Joiner :
        /\ added[j] <= Len(Adds[j])
        /\ place[j] # "adding" => added[j] = Len(Adds[j])
        /\ place[j] = "adding" => \A i \in DOMAIN Adds[j] : Adds[j][i] \notin zombie
        /\ j \in joinNotified => m_threads_n[j] = 0 /\ place[j] # "adding"
        /\ place[j] = "ready" /\ j \notin Clocked => m_threads_n[j] = 0
        /\ place[j] = "returned" => m_threads_n[j] = 0

JoinInvariant ==
    Joins!TypeOK /\ MonitorsRight /\ JoinersRight /\ Joins!CountExact /\ Joins!QueueEmptied

(* The registrations of j whose threads still run.                          *)
Open(j) == {i \in 1 .. added[j] : Adds[j][i] \notin zombie}

LEMMA OpenFinite ==
  ASSUME Joins!TypeOK, NEW j \in Joiner
  PROVE  IsFiniteSet(Open(j)) /\ Cardinality(Open(j)) \in Nat
<1>1. IsFiniteSet(1 .. added[j])
  BY FS_Interval DEF Joins!TypeOK
<1>2. IsFiniteSet(Open(j))
  BY <1>1, FS_Subset DEF Open
<1> QED BY <1>2, FS_CardinalityType

(* push_back adds a new join to a queue, into storage it still has or not.  *)
LEMMA PushBack ==
  ASSUME NEW q \in Seq(Joiner), NEW n \in Nat, NEW S \in SUBSET Joiner, NEW j \in Joiner \ S,
         Enumerates(q, n, S)
  PROVE  /\ Joins!push_back(q, n, j) \in Seq(Joiner)
         /\ Enumerates(Joins!push_back(q, n, j), n + 1, S \cup {j})
<1> DEFINE len == IF Len(q) > n THEN Len(q) ELSE n + 1
           r == Joins!push_back(q, n, j)
<1>1. r = [i \in 1 .. len |-> IF i = n + 1 THEN j ELSE q[i]]
  BY DEF Joins!push_back
<1>2. n <= Len(q) /\ Len(q) \in Nat
  BY DEF Enumerates
<1>3. len \in Nat /\ n + 1 <= len /\ \A i \in 1 .. len : i # n + 1 => i \in 1 .. Len(q)
  BY <1>2
<1> HIDE DEF len, r
<1>4. \A i \in 1 .. len : (IF i = n + 1 THEN j ELSE q[i]) \in Joiner
  BY <1>3
<1>5. r \in Seq(Joiner) /\ Len(r) = len
  BY <1>1, <1>3, <1>4
<1>6. r[n + 1] = j /\ \A i \in 1 .. n : r[i] = q[i] /\ q[i] # j
  BY <1>1, <1>3 DEF Enumerates
<1>7. \A i \in 1 .. n + 1 : i \in 1 .. n \/ i = n + 1
  OBVIOUS
<1>8. \A i, k \in 1 .. n + 1 : r[i] = r[k] => i = k
  BY <1>6, <1>7 DEF Enumerates
<1>9. ASSUME NEW k \in Joiner
      PROVE  k \in S \cup {j} <=> \E i \in 1 .. n + 1 : r[i] = k
  <2>1. 1 .. n + 1 = (1 .. n) \cup {n + 1}
    OBVIOUS
  <2>2. k \in S <=> \E i \in 1 .. n : q[i] = k
    BY DEF Enumerates
  <2> QED BY <1>6, <2>1, <2>2
<1> QED BY <1>3, <1>5, <1>8, <1>9 DEF Enumerates, r

(* Registering a thread that still runs.                                    *)
LEMMA JoinAdd ==
  ASSUME Joins!JoinAssumption, JoinsOnce, JoinInvariant, NEW j \in Joiner, Joins!add_process(j)
  PROVE  JoinInvariant'
<1> USE DEF JoinInvariant
<1>1. PICK n, t : n = added[j] + 1 /\ t = Adds[j][n]
  OBVIOUS
<1>2. /\ place[j] = "adding" /\ n \in DOMAIN Adds[j] /\ n \in Nat /\ added[j] \in Nat
      /\ t \in Joinable /\ t \notin zombie /\ added[j] < Len(Adds[j]) /\ n <= Len(Adds[j])
  BY <1>1 DEF Joins!add_process, Joins!JoinAssumption, Joins!TypeOK, JoinersRight
<1>3. /\ storage' = [storage EXCEPT ![t] = Joins!push_back(@, size[t], j)]
      /\ size' = [size EXCEPT ![t] = @ + 1]
      /\ added' = [added EXCEPT ![j] = n]
      /\ m_threads_n' = [m_threads_n EXCEPT ![j] = @ + 1]
      /\ UNCHANGED <<zombie, place, joinNotified>>
  BY <1>1 DEF Joins!add_process
<1>4. /\ \A k \in Joiner : k # j => added'[k] = added[k] /\ m_threads_n'[k] = m_threads_n[k]
                                 /\ Joins!Members(k)' = Joins!Members(k)
      /\ added'[j] = n /\ m_threads_n'[j] = m_threads_n[j] + 1
      /\ Joins!Members(j)' = Joins!Members(j) \cup {t} /\ t \notin Joins!Members(j)
  <2>1. /\ \A k \in Joiner : k # j => added'[k] = added[k] /\ m_threads_n'[k] = m_threads_n[k]
        /\ added'[j] = n /\ m_threads_n'[j] = m_threads_n[j] + 1
    BY <1>3 DEF Joins!TypeOK
  <2>2. \A i \in 1 .. added[j] : i \in DOMAIN Adds[j] /\ i # n
    BY <1>1, <1>2 DEF Joins!JoinAssumption
  <2>3. t \notin Joins!Members(j)
    BY <1>1, <1>2, <2>2 DEF JoinsOnce, Joins!Members
  <2>4. 1 .. n = (1 .. added[j]) \cup {n}
    BY <1>1, <1>2
  <2>5. Joins!Members(j)' = Joins!Members(j) \cup {t}
    BY <1>1, <2>1, <2>4 DEF Joins!Members
  <2>6. \A k \in Joiner : k # j => Joins!Members(k)' = Joins!Members(k)
    BY <2>1 DEF Joins!Members
  <2> QED BY <2>1, <2>3, <2>5, <2>6
<1>5. /\ Monitors(t)' = Monitors(t) \cup {j} /\ j \in Joiner \ Monitors(t)
      /\ \A u \in Joinable : u # t => Monitors(u)' = Monitors(u)
  BY <1>4 DEF Monitors
<1>6. /\ storage'[t] \in Seq(Joiner)
      /\ size'[t] = size[t] + 1 /\ size'[t] \in Nat
      /\ Enumerates(storage'[t], size'[t], Monitors(t)')
  <2>1. storage[t] \in Seq(Joiner) /\ size[t] \in Nat /\ Enumerates(storage[t], size[t], Monitors(t))
    BY <1>2 DEF Joins!TypeOK, MonitorsRight
  <2>2. storage'[t] = Joins!push_back(storage[t], size[t], j) /\ size'[t] = size[t] + 1
    BY <1>2, <1>3 DEF Joins!TypeOK
  <2>3. Monitors(t) \in SUBSET Joiner
    BY DEF Monitors
  <2> QED BY <1>5, <2>1, <2>2, <2>3, PushBack
<1>7. \A u \in Joinable : u # t => storage'[u] = storage[u] /\ size'[u] = size[u]
  BY <1>3 DEF Joins!TypeOK
<1>8. Joins!TypeOK'
  <2>1. storage' \in [Joinable -> Seq(Joiner)]
    <3>1. storage' = [u \in Joinable |-> storage'[u]]
      BY <1>3 DEF Joins!TypeOK
    <3>2. \A u \in Joinable : storage'[u] \in Seq(Joiner)
      BY <1>6, <1>7 DEF Joins!TypeOK
    <3> QED BY <3>1, <3>2
  <2>2. /\ size' \in [Joinable -> Nat] /\ m_threads_n' \in [Joiner -> Nat]
        /\ added' \in [Joiner -> Nat]
    BY <1>2, <1>3 DEF Joins!TypeOK
  <2> QED BY <1>3, <2>1, <2>2 DEF Joins!TypeOK
<1>9. MonitorsRight'
  <2> SUFFICES ASSUME NEW u \in Joinable \ zombie
               PROVE  Enumerates(storage'[u], size'[u], Monitors(u)')
    BY <1>3 DEF MonitorsRight, Enumerates
  <2> QED BY <1>5, <1>6, <1>7 DEF MonitorsRight
<1>10. JoinersRight'
  BY <1>2, <1>3, <1>4 DEF JoinersRight, Joins!TypeOK
<1>11. Joins!CountExact'
  <2> SUFFICES ASSUME NEW k \in Joiner PROVE m_threads_n'[k] = Cardinality(Open(k)')
    BY JoinSize DEF Joins!CountExact, Open
  <2>1. m_threads_n[k] = Cardinality(Open(k))
    BY JoinSize DEF Joins!CountExact, Open
  <2>2. CASE k # j
    BY <1>3, <1>4, <2>1, <2>2 DEF Open
  <2>3. CASE k = j
    <3>1. Open(j)' = Open(j) \cup {n} /\ n \notin Open(j)
      BY <1>1, <1>2, <1>3, <1>4 DEF Open
    <3> QED BY <1>4, <2>1, <2>3, <3>1, OpenFinite, FS_AddElement
  <2> QED BY <2>2, <2>3
<1>12. Joins!QueueEmptied'
  BY <1>2, <1>3, <1>7 DEF Joins!QueueEmptied, Joins!TypeOK
<1> QED BY <1>8, <1>9, <1>10, <1>11, <1>12


(* A thread ends: each join that counts it counts it out.                   *)
LEMMA JoinEnd ==
  ASSUME Joins!JoinAssumption, JoinsOnce, JoinInvariant, NEW t \in Joinable,
         Joins!disconnect_process(t)
  PROVE  JoinInvariant'
<1> USE DEF JoinInvariant
<1>1. PICK end : end = Joins!SignalAll(storage[t], size[t])
  OBVIOUS
<1>2. /\ t \notin zombie /\ zombie' = zombie \cup {t}
      /\ \A j \in Joiner : t \in {Adds[j][i] : i \in DOMAIN Adds[j]} => place[j] # "adding"
      /\ storage' = [storage EXCEPT ![t] = end.storage]
      /\ size' = [size EXCEPT ![t] = end.size]
      /\ m_threads_n' = [j \in Joiner |-> m_threads_n[j] - Joins!Times(end.out, j)]
      /\ joinNotified' = joinNotified \cup Joins!NotifyLast(end.out)
      /\ UNCHANGED <<added, place>>
  BY <1>1 DEF Joins!disconnect_process, JoinsOnce
<1>3. /\ end.storage \in Seq(Joiner) /\ end.size = 0
      /\ \A j \in Joiner : Joins!Times(end.out, j) = IF t \in Joins!Members(j) THEN 1 ELSE 0
  <2>1. /\ storage[t] \in Seq(Joiner) /\ size[t] \in 0 .. Len(storage[t])
        /\ Enumerates(storage[t], size[t], Monitors(t))
    BY <1>2 DEF Joins!TypeOK, MonitorsRight, Enumerates
  <2>2. /\ end.storage \in Seq(Joiner) /\ end.size = 0
        /\ \A j \in Joiner : Joins!Times(end.out, j)
              = IF \E i \in 1 .. size[t] : storage[t][i] = j THEN 1 ELSE 0
    BY <1>1, <2>1, LoopSignalsAll DEF Enumerates
  <2>3. \A j \in Joiner : t \in Joins!Members(j) <=> \E i \in 1 .. size[t] : storage[t][i] = j
    BY <2>1 DEF Enumerates, Monitors
  <2> QED BY <2>2, <2>3
<1>4. ASSUME NEW j \in Joiner
      PROVE  m_threads_n'[j] = Cardinality(Open(j)') /\ m_threads_n'[j] \in Nat
  <2>1. /\ m_threads_n[j] = Cardinality(Open(j))
        /\ m_threads_n'[j] = m_threads_n[j] - Joins!Times(end.out, j)
        /\ IsFiniteSet(Open(j)) /\ Cardinality(Open(j)) \in Nat
    BY <1>2, JoinSize, OpenFinite DEF Joins!CountExact, Open
  <2>2. CASE t \notin Joins!Members(j)
    <3>1. Open(j)' = Open(j)
      BY <1>2, <2>2 DEF Open, Joins!Members
    <3> QED BY <1>3, <2>1, <2>2, <3>1
  <2>3. CASE t \in Joins!Members(j)
    <3>1. PICK i \in 1 .. added[j] : Adds[j][i] = t
      BY <2>3 DEF Joins!Members
    <3>2. 1 .. added[j] \subseteq DOMAIN Adds[j]
      BY DEF Joins!TypeOK, Joins!JoinAssumption, JoinersRight
    <3>3. i \in Open(j) /\ Open(j)' = Open(j) \ {i}
      BY <1>2, <3>1, <3>2 DEF Open, JoinsOnce
    <3>4. Cardinality(Open(j)') = Cardinality(Open(j)) - 1 /\ IsFiniteSet(Open(j)')
      BY <2>1, <3>3, FS_RemoveElement
    <3> QED BY <1>3, <2>1, <2>3, <3>4, FS_CardinalityType
  <2> QED BY <2>2, <2>3
<1>5. \A u \in Joinable : u # t => storage'[u] = storage[u] /\ size'[u] = size[u]
  BY <1>2 DEF Joins!TypeOK
<1>6. storage'[t] = end.storage /\ size'[t] = 0
  BY <1>2, <1>3 DEF Joins!TypeOK
<1>7. Joins!TypeOK'
  <2>1. storage' \in [Joinable -> Seq(Joiner)]
    <3>1. storage' = [u \in Joinable |-> storage'[u]]
      BY <1>2 DEF Joins!TypeOK
    <3>2. \A u \in Joinable : storage'[u] \in Seq(Joiner)
      BY <1>3, <1>5, <1>6 DEF Joins!TypeOK
    <3> QED BY <3>1, <3>2
  <2>2. size' \in [Joinable -> Nat]
    BY <1>2, <1>3 DEF Joins!TypeOK
  <2>3. m_threads_n' \in [Joiner -> Nat]
    <3>1. m_threads_n' = [j \in Joiner |-> m_threads_n'[j]]
      BY <1>2
    <3> QED BY <1>4, <3>1
  <2>4. joinNotified' \subseteq Joiner
    BY <1>2 DEF Joins!NotifyLast, Joins!TypeOK
  <2> QED BY <1>2, <2>1, <2>2, <2>3, <2>4 DEF Joins!TypeOK
<1>8. MonitorsRight'
  <2> SUFFICES ASSUME NEW u \in Joinable \ zombie'
               PROVE  Enumerates(storage'[u], size'[u], Monitors(u)')
    BY DEF MonitorsRight, Enumerates
  <2>1. u # t /\ u \notin zombie /\ Monitors(u)' = Monitors(u)
    BY <1>2 DEF Monitors, Joins!Members
  <2> QED BY <1>5, <2>1 DEF MonitorsRight
<1>9. JoinersRight'
  <2> SUFFICES ASSUME NEW j \in Joiner
               PROVE  /\ place[j] = "adding" => \A i \in DOMAIN Adds[j] : Adds[j][i] \notin zombie'
                      /\ j \in joinNotified' => m_threads_n'[j] = 0 /\ place[j] # "adding"
                      /\ m_threads_n[j] = 0 => m_threads_n'[j] = 0
    BY <1>2 DEF JoinersRight
  <2>1. place[j] = "adding" => \A i \in DOMAIN Adds[j] : Adds[j][i] \notin zombie'
    BY <1>2 DEF JoinersRight
  <2>2. m_threads_n[j] = 0 => m_threads_n'[j] = 0
    <3>1. m_threads_n'[j] = m_threads_n[j] - Joins!Times(end.out, j)
      BY <1>2
    <3>2. m_threads_n'[j] \in Nat /\ Joins!Times(end.out, j) \in {0, 1}
      BY <1>3, <1>4
    <3> QED BY <3>1, <3>2
  <2>3. ASSUME j \in joinNotified' PROVE m_threads_n'[j] = 0 /\ place[j] # "adding"
    <3>1. CASE j \in joinNotified
      BY <2>2, <3>1 DEF JoinersRight
    <3>2. CASE j \in Joins!NotifyLast(end.out)
      <4>1. Joins!Times(end.out, j) > 0 /\ m_threads_n[j] = Joins!Times(end.out, j)
        BY <3>2 DEF Joins!NotifyLast
      <4>2. t \in Joins!Members(j) /\ m_threads_n[j] = 1
        BY <1>3, <4>1
      <4>3. t \in {Adds[j][i] : i \in DOMAIN Adds[j]}
        BY <4>2 DEF Joins!Members, JoinersRight, Joins!TypeOK, Joins!JoinAssumption
      <4> QED BY <1>2, <1>3, <4>2, <4>3
    <3> QED BY <1>2, <2>3, <3>1, <3>2
  <2> QED BY <2>1, <2>2, <2>3
<1>10. Joins!CountExact'
  BY <1>4, JoinSize DEF Joins!CountExact, Open
<1>11. Joins!QueueEmptied'
  BY <1>2, <1>5, <1>6 DEF Joins!QueueEmptied, Joins!TypeOK
<1> QED BY <1>7, <1>8, <1>9, <1>10, <1>11

(* The other steps of a join: they change neither queues nor counters.      *)
LEMMA JoinWait ==
  ASSUME JoinInvariant, NEW j \in Joiner,
         Joins!wait(j) \/ Joins!Tick(j) \/ Joins!Return(j) \/ Joins!Trigger(j)
  PROVE  JoinInvariant'
<1> USE DEF JoinInvariant
<1>1. UNCHANGED <<storage, size, zombie, m_threads_n, added>>
  BY DEF Joins!wait, Joins!Tick, Joins!Return, Joins!Trigger
<1>2. Joins!TypeOK' /\ JoinersRight'
  <2>1. CASE Joins!wait(j)
    BY <2>1 DEF Joins!wait, Joins!TypeOK, JoinersRight
  <2>2. CASE Joins!Tick(j)
    BY <2>2 DEF Joins!Tick, Joins!TypeOK, JoinersRight
  <2>3. CASE Joins!Return(j)
    BY <2>3 DEF Joins!Return, Joins!TypeOK, JoinersRight
  <2>4. CASE Joins!Trigger(j)
    BY <2>4 DEF Joins!Trigger, Joins!TypeOK, JoinersRight
  <2> QED BY <2>1, <2>2, <2>3, <2>4
<1>3. MonitorsRight' /\ Joins!CountExact' /\ Joins!QueueEmptied'
  <2>1. \A t \in Joinable : Monitors(t)' = Monitors(t)
    BY <1>1 DEF Monitors, Joins!Members
  <2>2. MonitorsRight'
    BY <1>1, <2>1 DEF MonitorsRight, Enumerates
  <2> QED BY <1>1, <2>2 DEF Joins!CountExact, Joins!QueueEmptied
<1> QED BY <1>2, <1>3

(* What a join promises: it returns only when all of its threads have ended,*)
(* it counts those that still run, and a thread that has ended refers to no *)
(* join any more.                                                           *)
JoinsSafe == Joins!JoinedHaveEnded /\ Joins!CountExact /\ Joins!QueueEmptied

(* For any threads, joins and registrations, and for SC_JOIN and SC_CJOIN   *)
(* alike, if nobody joins a thread twice and the threads end after wait()   *)
(* has begun: disconnect_process signals every join in m_monitor_q once,    *)
(* although each signal shortens the queue that it runs over, so a join     *)
(* returns only when all its threads have ended.                            *)
THEOREM JoinsSafeHolds ==
  ASSUME Joins!JoinAssumption, JoinsOnce
  PROVE  Joins!Spec => []JoinsSafe
<1>1. Joins!Init => JoinInvariant
  <2> SUFFICES ASSUME Joins!Init PROVE JoinInvariant
    OBVIOUS
  <2>1. Joins!TypeOK /\ JoinersRight /\ Joins!QueueEmptied
    BY DEF Joins!Init, Joins!TypeOK, JoinersRight, Joins!QueueEmptied, Joins!JoinAssumption
  <2>2. MonitorsRight
    BY DEF Joins!Init, MonitorsRight, Enumerates, Monitors, Joins!Members
  <2>3. Joins!CountExact
    <3>1. \A j \in Joiner : {i \in 1 .. added[j] : Adds[j][i] \notin zombie} = {} /\ m_threads_n[j] = 0
      BY DEF Joins!Init
    <3> QED BY <3>1, JoinSize, FS_EmptySet DEF Joins!CountExact
  <2> QED BY <2>1, <2>2, <2>3 DEF JoinInvariant
<1>2. JoinInvariant /\ [Joins!Next]_Joins!vars => JoinInvariant'
  <2> SUFFICES ASSUME JoinInvariant, [Joins!Next]_Joins!vars PROVE JoinInvariant'
    OBVIOUS
  <2>1. CASE UNCHANGED Joins!vars
    BY <2>1 DEF Joins!vars, JoinInvariant, Joins!TypeOK, MonitorsRight, Enumerates, Monitors,
        Joins!Members, JoinersRight, Joins!CountExact, Joins!QueueEmptied
  <2>2. CASE Joins!Next
    BY <2>1, <2>2, JoinAdd, JoinEnd, JoinWait DEF Joins!Next, Joins!Terminating
  <2> QED BY <2>1, <2>2
<1>3. JoinInvariant => JoinsSafe
  <2> SUFFICES ASSUME JoinInvariant, NEW j \in Joiner, place[j] = "returned"
               PROVE  Joins!Members(j) \subseteq zombie
    BY DEF JoinInvariant, JoinsSafe, Joins!JoinedHaveEnded
  <2>1. Cardinality(Open(j)) = 0 /\ IsFiniteSet(Open(j))
    BY JoinSize, OpenFinite DEF JoinInvariant, JoinersRight, Joins!CountExact, Open
  <2>2. Open(j) = {}
    BY <2>1, FS_EmptySet
  <2> QED BY <2>2 DEF Open, Joins!Members
<1> QED BY <1>1, <1>2, <1>3, PTL DEF Joins!Spec
==============================================================================
