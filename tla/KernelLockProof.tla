--------------------------- MODULE KernelLockProof --------------------------
(***************************************************************************)
(* Proofs about KernelLock: for any number of processes and channels, and   *)
(* any depth of nesting, the kernel lock excludes, no wake-up is lost and   *)
(* the root thread runs user code only when the simulation is at rest.      *)
(* Then the creation of the coroutines, CorCreate, and the life of the      *)
(* process objects, ProcessLife.                                            *)
(***************************************************************************)
EXTENDS KernelLock, Integers, SequenceTheorems, TLAPS

(* The part of the state that the kernel lock is about.                     *)
LockTypeOK ==
    /\ sched \in Thread \cup {Free}
    /\ counter \in [Thread -> 0..MaxNest]
    /\ running \in SUBSET Process
    /\ pc \in [Thread -> Places]

(* The running queue holds exactly the processes that are on their way      *)
(* through user or kernel code.                                             *)
RunningPlaces ==
    \A p \in Process :
        /\ pc[p] \in {"asleep", "dead"} => p \notin running
        /\ pc[p] \notin {"asleep", "dead", "exit"} => p \in running

(* The root thread sleeps exactly while something runs; once it has left    *)
(* "woken" even the thread that woke it is out of the kernel.               *)
RootPlaces ==
    /\ pc[Root] \in {"user", "notify", "suspend", "asleep", "woken", "resume"}
    /\ pc[Root] = "asleep" => running # {}
    /\ pc[Root] # "asleep" => running = {}
    /\ pc[Root] \notin {"asleep", "woken"} =>
          \A p \in Process : pc[p] \in {"asleep", "dead"}

LockInv ==
    /\ LockTypeOK
    /\ KernelExclusion
    /\ CounterBalanced
    /\ RunningPlaces
    /\ RootPlaces

(* LockInv holds in the initial states.                                     *)
LEMMA LockInvInit == Init => LockInv
<1> USE KernelLockAssumption
<1> SUFFICES ASSUME Init PROVE LockInv
    OBVIOUS
<1>1. LockTypeOK
    BY DEF Init, LockTypeOK, Thread, Places
<1>2. KernelExclusion /\ CounterBalanced
    BY DEF Init, KernelExclusion, CounterBalanced, Inside, Thread
<1>3. RunningPlaces /\ RootPlaces
    BY DEF Init, RunningPlaces, RootPlaces, Thread
<1> QED BY <1>1, <1>2, <1>3 DEF LockInv

(* The threads a signal moves are exactly the signalled ones that slept.    *)
LEMMA WokenPlaces ==
    ASSUME NEW S, pc \in [Thread -> Places]
    PROVE  /\ Woken(S) \in [Thread -> Places]
           /\ \A u \in Thread :
                Woken(S)[u] = IF u \in S /\ pc[u] = "asleep" THEN "woken" ELSE pc[u]
BY DEF Woken, Places

(* Every step preserves LockInv.                                            *)
LEMMA LockInvStep == LockInv /\ [Next]_vars => LockInv'
<1> USE KernelLockAssumption
<1> SUFFICES ASSUME LockInv, [Next]_vars PROVE LockInv'
    OBVIOUS
<1> USE DEF LockInv
<1>0. CASE UNCHANGED vars
    BY <1>0 DEF vars, LockTypeOK, KernelExclusion, CounterBalanced,
                RunningPlaces, RootPlaces
<1>1. ASSUME NEW t \in Thread, KernelStep(t) PROVE LockInv'
  <2> USE DEF LockTypeOK, KernelExclusion, CounterBalanced, RunningPlaces,
              RootPlaces, Thread, Places, Inside
  <2>1. CASE NestedLock(t)
      BY <2>1 DEF NestedLock
  <2>2. CASE NestedUnlock(t)
      BY <2>2 DEF NestedUnlock
  <2>3. CASE EnterNotify(t)
      BY <2>3 DEF EnterNotify, Acquire
  <2>4. CASE LeaveNotify(t)
      BY <2>4 DEF LeaveNotify, Release
  <2>5. CASE WakeUp(t)
      BY <2>5 DEF WakeUp, Acquire
  <2>6. CASE LeaveWait(t)
      BY <2>6 DEF LeaveWait, Release
  <2> QED BY <1>1, <2>1, <2>2, <2>3, <2>4, <2>5, <2>6 DEF KernelStep
<1>2. ASSUME NEW p \in Process, ProcessStep(p) PROVE LockInv'
  <2> USE DEF LockTypeOK, KernelExclusion, CounterBalanced, RunningPlaces,
              RootPlaces, Thread, Places, Inside
  <2>1. CASE EnterWait(p)
      BY <2>1 DEF EnterWait, Acquire
  <2>2. CASE UnlockAll(p)
      BY <2>2 DEF UnlockAll
  <2>3. CASE SuspendAndSchedule(p)
    <3>1. PICK d \in SUBSET (Dispatchable(p) \cup {p}) :
            /\ running' = (running \ {p}) \cup d
            /\ LET w == Woken(Signalled(p, running \ {p}, d))
               IN IF p \in d
                  THEN /\ pc' = [w EXCEPT ![p] = "resume"]
                       /\ sched' = sched
                  ELSE /\ pc' = [w EXCEPT ![p] = "asleep"]
                       /\ sched' = Free
        BY <2>3 DEF SuspendAndSchedule
    <3> DEFINE w == Woken(Signalled(p, running \ {p}, d))
    <3>2. /\ w \in [Thread -> Places]
          /\ \A u \in Thread :
               w[u] = IF /\ u \in Signalled(p, running \ {p}, d)
                         /\ pc[u] = "asleep"
                      THEN "woken" ELSE pc[u]
        BY WokenPlaces
    <3>3. counter' = counter /\ pc[p] = "suspend" /\ sched = p /\ p \in running
        BY <2>3 DEF SuspendAndSchedule
    <3>4. \A u \in Thread : u # p => pc[u] \notin Inside
        BY <3>3
    <3> HIDE DEF w
    <3>5. CASE p \in d
      <4>1. pc' = [w EXCEPT ![p] = "resume"] /\ sched' = sched
          BY <3>1, <3>5 DEF w
      <4> QED BY <3>1, <3>2, <3>3, <3>4, <3>5, <4>1 DEF Signalled, Dispatchable
    <3>6. CASE p \notin d
      <4>1. pc' = [w EXCEPT ![p] = "asleep"] /\ sched' = Free
          BY <3>1, <3>6 DEF w
      <4>2. LockTypeOK' /\ CounterBalanced' /\ KernelExclusion'
          BY <3>1, <3>2, <3>3, <3>4, <4>1 DEF Signalled, Dispatchable
      <4>3. RunningPlaces'
          BY <3>1, <3>2, <3>3, <3>6, <4>1 DEF Signalled, Dispatchable
      <4>4. RootPlaces'
          BY <3>1, <3>2, <3>3, <3>6, <4>1 DEF Signalled, Dispatchable
      <4> QED BY <4>2, <4>3, <4>4
    <3> QED BY <3>5, <3>6
  <2>4. CASE SuspendOnly(p)
      BY <2>4 DEF SuspendOnly
  <2>5. CASE EnterExit(p)
      BY <2>5 DEF EnterExit, Acquire
  <2>6. CASE ExitSchedule(p)
      BY <2>6 DEF ExitSchedule, Woken, Signalled, Dispatchable
  <2>7. CASE Exit(p)
      BY <2>7 DEF Exit, Release
  <2> QED BY <1>2, <2>1, <2>2, <2>3, <2>4, <2>5, <2>6, <2>7 DEF ProcessStep
<1>3. ASSUME NEW p \in Process, ChannelStep(p) PROVE LockInv'
  <2> USE DEF LockTypeOK, KernelExclusion, CounterBalanced, RunningPlaces,
              RootPlaces, Thread, Places, Inside
  <2>1. CASE UNCHANGED <<sched, counter, running, pc>>
      BY <2>1
  <2>2. CASE LockAllDone(p)
      BY <2>2 DEF LockAllDone
  <2> QED BY <1>3, <2>1, <2>2 DEF ChannelStep, LockAndPush, LockAgain,
                                  PopAndUnlock, LockAllStep
<1>4. CASE SimulateEnter
    BY <1>4 DEF SimulateEnter, Acquire, LockTypeOK, KernelExclusion,
        CounterBalanced, RunningPlaces, RootPlaces, Thread, Places, Inside
<1>5. CASE SimulateSchedule
  <2> USE DEF LockTypeOK, KernelExclusion, CounterBalanced, RunningPlaces,
              RootPlaces, Thread, Places, Inside
  <2>1. PICK d \in SUBSET Dispatchable(Root) :
            /\ running' = running \cup d
            /\ LET w == Woken(Signalled(Root, running, d))
               IN IF running' = {}
                  THEN /\ pc' = [w EXCEPT ![Root] = "resume"]
                       /\ sched' = sched
                  ELSE /\ pc' = [w EXCEPT ![Root] = "asleep"]
                       /\ sched' = Free
      BY <1>5 DEF SimulateSchedule
  <2> DEFINE w == Woken(Signalled(Root, running, d))
  <2>2. /\ w \in [Thread -> Places]
        /\ \A u \in Thread :
             w[u] = IF u \in Signalled(Root, running, d) /\ pc[u] = "asleep"
                    THEN "woken" ELSE pc[u]
      BY WokenPlaces
  <2>3. counter' = counter /\ pc[Root] = "suspend" /\ sched = Root /\ running = {}
      BY <1>5 DEF SimulateSchedule
  <2> HIDE DEF w
  <2>4. CASE running' = {}
    <3>1. pc' = [w EXCEPT ![Root] = "resume"] /\ sched' = sched
        BY <2>1, <2>4 DEF w
    <3> QED BY <2>1, <2>2, <2>3, <2>4, <3>1 DEF Signalled, Dispatchable
  <2>5. CASE running' # {}
    <3>1. pc' = [w EXCEPT ![Root] = "asleep"] /\ sched' = Free
        BY <2>1, <2>5 DEF w
    <3> QED BY <2>1, <2>2, <2>3, <2>5, <3>1 DEF Signalled, Dispatchable
  <2> QED BY <2>4, <2>5
<1> QED BY <1>0, <1>1, <1>2, <1>3, <1>4, <1>5 DEF Next

LEMMA LockInvariant == Spec => []LockInv
BY LockInvInit, LockInvStep, PTL DEF Spec

(* Kernel code is executed by the owner of sched_mutex only, and the owner  *)
(* is always executing kernel code.                                         *)
THEOREM KernelExclusionHolds == Spec => []KernelExclusion
BY LockInvariant, PTL DEF LockInv

(* A process that was dispatched always gets its signal.                    *)
THEOREM NoLostWakeupHolds == Spec => []NoLostWakeup
<1>1. LockInv => NoLostWakeup
    BY DEF LockInv, LockTypeOK, RunningPlaces, NoLostWakeup, Places, Thread
<1> QED BY <1>1, LockInvariant, PTL

(* The root thread executes sc_main only when the simulation is at rest.    *)
THEOREM RootAloneHolds == Spec => []RootAlone
<1>1. LockInv => RootAlone
    BY DEF LockInv, RootPlaces, RootAlone
<1> QED BY <1>1, LockInvariant, PTL

(* The simulator never stops with every thread asleep.                      *)
THEOREM SomebodyAwakeHolds == Spec => []SomebodyAwake
<1>1. LockInv => SomebodyAwake
    BY KernelLockAssumption
    DEF LockInv, RootPlaces, RunningPlaces, SomebodyAwake, Thread, LockTypeOK
<1> QED BY <1>1, LockInvariant, PTL

-----------------------------------------------------------------------------
(* Channel locks                                                            *)

Holding == {"user", "notify", "wait"}

StackTypeOK ==
    /\ chan \in [Channel -> Process \cup {Free}]
    /\ acq \in [Process -> Seq(LockRecord)]

(* Channels are nested outside in, so no channel is twice on a stack.       *)
StackOrdered ==
    \A p \in Process : \A i, j \in 1..Len(acq[p]) :
        i < j => Rank[acq[p][i].lock] < Rank[acq[p][j].lock]

Owned ==
    \A p \in Process :
        /\ \A c \in Channel : chan[c] = p =>
              /\ InStack(p, c)
              /\ pc[p] \in Holding \cup {"relock"}
        /\ pc[p] \in Holding =>
              \A i \in 1..Len(acq[p]) : chan[acq[p][i].lock] = p

ChannelInv == LockTypeOK /\ StackTypeOK /\ StackOrdered /\ Owned

(* What the type of the stacks says about their elements.                   *)
LEMMA StackFacts ==
    ASSUME StackTypeOK
    PROVE  \A q \in Process :
              /\ acq[q] \in Seq(LockRecord)
              /\ Len(acq[q]) \in Nat
              /\ acq[q] # <<>> => Len(acq[q]) \in 1..Len(acq[q])
              /\ \A i \in 1..Len(acq[q]) :
                    /\ acq[q][i] \in LockRecord
                    /\ acq[q][i].lock \in Channel
                    /\ acq[q][i].count \in 1..MaxRepeat
<1>1. ASSUME NEW r \in LockRecord
      PROVE  r.lock \in Channel /\ r.count \in 1..MaxRepeat
    BY DEF LockRecord
<1>2. ASSUME NEW q \in Process
      PROVE  /\ acq[q] \in Seq(LockRecord)
             /\ Len(acq[q]) \in Nat
             /\ acq[q] # <<>> => Len(acq[q]) \in 1..Len(acq[q])
             /\ \A i \in 1..Len(acq[q]) : acq[q][i] \in LockRecord
    BY DEF StackTypeOK
<1> QED BY <1>1, <1>2

LEMMA ChannelInvInit == Init => ChannelInv
<1> USE KernelLockAssumption
<1> SUFFICES ASSUME Init PROVE ChannelInv
    OBVIOUS
<1>1. LockTypeOK
    BY LockInvInit DEF LockInv
<1>2. StackTypeOK /\ StackOrdered /\ Owned
    BY DEF Init, StackTypeOK, StackOrdered, Owned, InStack
<1> QED BY <1>1, <1>2 DEF ChannelInv

(* A step that leaves the stacks and the mutexes alone preserves the        *)
(* channel part when every process that is Holding afterwards was so before.*)
LEMMA ChannelFrame ==
    ASSUME ChannelInv, LockTypeOK', UNCHANGED <<chan, acq>>,
           \A p \in Process :
              /\ pc'[p] \in Holding => pc[p] \in Holding
              /\ pc[p] \in Holding \cup {"relock"} =>
                    pc'[p] \in Holding \cup {"relock"} \/ acq[p] = <<>>
    PROVE  ChannelInv'
BY DEF ChannelInv, StackTypeOK, StackOrdered, Owned, InStack

LEMMA ChannelInvStep == LockInv /\ LockInv' /\ ChannelInv /\ [Next]_vars => ChannelInv'
<1> USE KernelLockAssumption
<1> SUFFICES ASSUME LockInv, LockInv', ChannelInv, [Next]_vars PROVE ChannelInv'
    OBVIOUS
<1>t. LockTypeOK /\ LockTypeOK'
    BY DEF LockInv
<1>0. CASE UNCHANGED vars
    BY <1>0, <1>t, ChannelFrame DEF vars
<1>1. ASSUME NEW t \in Thread, KernelStep(t) PROVE ChannelInv'
    BY <1>1, <1>t, ChannelFrame
    DEF KernelStep, NestedLock, NestedUnlock, EnterNotify, LeaveNotify, WakeUp,
        LeaveWait, Acquire, Release, Holding, LockTypeOK, Thread
<1>2. ASSUME NEW p \in Process, ProcessStep(p) PROVE ChannelInv'
  <2>1. CASE UnlockAll(p)
    <3>1. StackTypeOK' /\ StackOrdered'
        BY <2>1 DEF UnlockAll, ChannelInv, StackTypeOK, StackOrdered
    <3>2. Owned'
      <4>1. /\ acq' = acq
            /\ pc' = [pc EXCEPT ![p] = "suspend"]
            /\ \A c \in Channel : chan'[c] = IF chan[c] = p THEN Free ELSE chan[c]
          BY <2>1 DEF UnlockAll
      <4>2. \A q \in Process : q # p => pc'[q] = pc[q]
          BY <4>1, <1>t DEF LockTypeOK, Thread
      <4>3. pc'[p] = "suspend"
          BY <4>1, <1>t DEF LockTypeOK, Thread
      <4>4. \A q \in Process : \A i \in 1..Len(acq[q]) : acq[q][i].lock \in Channel
          BY StackFacts DEF ChannelInv
      <4> QED BY <4>1, <4>2, <4>3, <4>4 DEF ChannelInv, Owned, InStack, Holding
    <3> QED BY <3>1, <3>2, <1>t DEF ChannelInv
  <2>2. CASE EnterWait(p) \/ EnterExit(p) \/ Exit(p) \/ SuspendOnly(p)
      BY <2>2, <1>t, ChannelFrame
      DEF EnterWait, EnterExit, Exit, SuspendOnly, Acquire, Release, Holding,
          LockTypeOK, Thread
  <2>3. CASE SuspendAndSchedule(p)
    <3>1. /\ UNCHANGED <<chan, acq>>
          /\ \A q \in Process : pc'[q] \in Holding => pc[q] \in Holding
          /\ \A q \in Process : pc[q] \in Holding \cup {"relock"} => pc'[q] = pc[q]
        BY <2>3, <1>t
        DEF SuspendAndSchedule, Woken, Holding, LockTypeOK, Thread
    <3> QED BY <3>1, <1>t, ChannelFrame
  <2>4. CASE ExitSchedule(p)
    <3>1. /\ UNCHANGED <<chan, acq>>
          /\ \A q \in Process : pc'[q] \in Holding => pc[q] \in Holding
          /\ \A q \in Process : pc[q] \in Holding \cup {"relock"} => pc'[q] = pc[q]
        BY <2>4, <1>t DEF ExitSchedule, Woken, Holding, LockTypeOK, Thread
    <3> QED BY <3>1, <1>t, ChannelFrame
  <2> QED BY <1>2, <2>1, <2>2, <2>3, <2>4 DEF ProcessStep
<1>3. ASSUME NEW p \in Process, ChannelStep(p) PROVE ChannelInv'
  <2> USE DEF ChannelInv, StackTypeOK
  <2>s. \A q \in Process :
          /\ acq[q] \in Seq(LockRecord)
          /\ Len(acq[q]) \in Nat
          /\ acq[q] # <<>> => Len(acq[q]) \in 1..Len(acq[q])
          /\ \A i \in 1..Len(acq[q]) :
                /\ acq[q][i] \in LockRecord
                /\ acq[q][i].lock \in Channel
                /\ acq[q][i].count \in 1..MaxRepeat
      BY StackFacts
  <2>1. ASSUME NEW c \in Channel, LockAndPush(p, c) PROVE ChannelInv'
    <3> DEFINE r == [lock |-> c, count |-> 1]
    <3>1. r \in LockRecord
        BY DEF LockRecord
    <3>2. /\ acq' = [acq EXCEPT ![p] = Append(@, r)]
          /\ chan' = [chan EXCEPT ![c] = p]
          /\ chan[c] = Free /\ pc' = pc /\ pc[p] = "user"
          /\ \A i \in 1..Len(acq[p]) : Rank[acq[p][i].lock] < Rank[c]
        BY <2>1 DEF LockAndPush
    <3>3. StackTypeOK'
        BY <3>1, <3>2
    <3>4. /\ Len(acq'[p]) = Len(acq[p]) + 1
          /\ acq'[p][Len(acq[p]) + 1] = r
          /\ \A i \in 1..Len(acq[p]) : acq'[p][i] = acq[p][i]
          /\ \A q \in Process : q # p => acq'[q] = acq[q]
        BY <3>1, <3>2
    <3>5. StackOrdered'
      <4>1. \A i, j \in 1..(Len(acq[p]) + 1) : i < j =>
               Rank[acq'[p][i].lock] < Rank[acq'[p][j].lock]
        <5>1. ASSUME NEW i \in 1..(Len(acq[p]) + 1), NEW j \in 1..(Len(acq[p]) + 1),
                     i < j
              PROVE  Rank[acq'[p][i].lock] < Rank[acq'[p][j].lock]
          <6>1. i \in 1..Len(acq[p]) /\ acq'[p][i] = acq[p][i]
              BY <2>s, <3>4, <5>1
          <6>2. CASE j = Len(acq[p]) + 1
              BY <6>1, <6>2, <3>2, <3>4
          <6>3. CASE j # Len(acq[p]) + 1
            <7>1. j \in 1..Len(acq[p]) /\ acq'[p][j] = acq[p][j]
                BY <2>s, <3>4, <6>3
            <7> QED BY <6>1, <7>1, <5>1 DEF StackOrdered
          <6> QED BY <6>2, <6>3
        <5> QED BY <5>1
      <4> QED BY <4>1, <3>4 DEF StackOrdered
    <3>6. Owned'
      <4>1. \A i \in 1..Len(acq[p]) : acq[p][i].lock # c
          BY <2>s, <3>2
      <4>2. /\ \A d \in Channel : d # c => chan'[d] = chan[d]
            /\ chan'[c] = p
          BY <3>2
      <4>3. ASSUME NEW q \in Process, q # p
            PROVE  /\ \A d \in Channel : chan'[d] = q =>
                         InStack(q, d)' /\ pc'[q] \in Holding \cup {"relock"}
                   /\ pc'[q] \in Holding =>
                         \A i \in 1..Len(acq'[q]) : chan'[acq'[q][i].lock] = q
          BY <4>3, <4>2, <3>2, <3>4, <2>s DEF Owned, InStack
      <4>4. \A d \in Channel : chan'[d] = p =>
                InStack(p, d)' /\ pc'[p] \in Holding \cup {"relock"}
          BY <4>2, <3>2, <3>4, <2>s DEF Owned, InStack, Holding
      <4>5. \A i \in 1..Len(acq'[p]) : chan'[acq'[p][i].lock] = p
          BY <4>1, <4>2, <3>2, <3>4, <2>s DEF Owned, Holding
      <4> QED BY <4>3, <4>4, <4>5 DEF Owned
    <3> QED BY <3>3, <3>5, <3>6, <1>t
  <2>2. ASSUME acq[p] # <<>>, pc[p] = "user", UNCHANGED <<chan, pc>>,
               NEW n \in 1..MaxRepeat,
               acq' = [acq EXCEPT ![p][Len(acq[p])].count = n]
        PROVE  ChannelInv'
    <3>1. /\ Len(acq[p]) \in Nat \ {0}
          /\ acq[p][Len(acq[p])] \in LockRecord
        BY <2>2
    <3> DEFINE r == [acq[p][Len(acq[p])] EXCEPT !.count = n]
    <3>2. r \in LockRecord /\ r.lock = acq[p][Len(acq[p])].lock
        BY <3>1 DEF LockRecord
    <3>3. acq'[p] = [acq[p] EXCEPT ![Len(acq[p])] = r]
        BY <2>2
    <3> HIDE DEF r
    <3>4. /\ acq'[p] \in Seq(LockRecord)
          /\ Len(acq'[p]) = Len(acq[p])
          /\ \A i \in 1..Len(acq[p]) : acq'[p][i].lock = acq[p][i].lock
        BY <3>1, <3>2, <3>3
    <3>5. \A q \in Process : q # p => acq'[q] = acq[q]
        BY <2>2
    <3>6. StackTypeOK'
        BY <2>2, <3>4, <3>5
    <3>7. ASSUME NEW q \in Process
          PROVE  /\ Len(acq'[q]) = Len(acq[q])
                 /\ \A i \in 1..Len(acq[q]) : acq'[q][i].lock = acq[q][i].lock
        BY <3>4, <3>5
    <3>8. StackOrdered'
        BY <3>7 DEF StackOrdered
    <3>9. \A q \in Process : \A c \in Channel : InStack(q, c)' <=> InStack(q, c)
        BY <3>7 DEF InStack
    <3>10. Owned'
      <4>1. \A q \in Process : \A c \in Channel : chan'[c] = q =>
                InStack(q, c)' /\ pc'[q] \in Holding \cup {"relock"}
          BY <2>2, <3>9 DEF Owned
      <4>2. \A q \in Process : pc'[q] \in Holding =>
                \A i \in 1..Len(acq'[q]) : chan'[acq'[q][i].lock] = q
          BY <2>2, <3>7 DEF Owned
      <4> QED BY <4>1, <4>2 DEF Owned
    <3> QED BY <3>6, <3>8, <3>10, <1>t
  <2>3. CASE LockAgain(p)
    <3>1. Last(acq[p]).count + 1 \in 1..MaxRepeat
      <4>1. Last(acq[p]).count \in 1..MaxRepeat /\ Last(acq[p]).count < MaxRepeat
          BY <2>3, <2>s DEF LockAgain, Last
      <4> QED BY <4>1, KernelLockAssumption
    <3>2. /\ acq[p] # <<>> /\ pc[p] = "user" /\ UNCHANGED <<chan, pc>>
          /\ acq' = [acq EXCEPT ![p][Len(acq[p])].count = Last(acq[p]).count + 1]
        BY <2>3 DEF LockAgain, Last
    <3> QED BY <2>2, <3>1, <3>2
  <2>4. CASE PopAndUnlock(p) /\ Last(acq[p]).count # 1
    <3>1. Last(acq[p]).count - 1 \in 1..MaxRepeat
      <4>1. Last(acq[p]).count \in 1..MaxRepeat /\ Last(acq[p]).count # 1
          BY <2>4, <2>s DEF PopAndUnlock, Last
      <4> QED BY <4>1, KernelLockAssumption
    <3>2. /\ acq[p] # <<>> /\ pc[p] = "user" /\ UNCHANGED <<chan, pc>>
          /\ acq' = [acq EXCEPT ![p][Len(acq[p])].count = Last(acq[p]).count - 1]
        BY <2>4 DEF PopAndUnlock, Last
    <3> QED BY <2>2, <3>1, <3>2
  <2>5. CASE PopAndUnlock(p) /\ Last(acq[p]).count = 1
    <3> DEFINE n == Len(acq[p])
               c == acq[p][n].lock
    <3>1. /\ n \in Nat \ {0}
          /\ acq[p][n] \in LockRecord /\ c \in Channel
          /\ pc[p] = "user" /\ pc' = pc
          /\ acq' = [acq EXCEPT ![p] = SubSeq(acq[p], 1, n - 1)]
          /\ chan' = [chan EXCEPT ![c] = Free]
        BY <2>5, <2>s DEF PopAndUnlock, Last, Butlast
    <3>2. /\ acq'[p] \in Seq(LockRecord)
          /\ Len(acq'[p]) = n - 1
          /\ \A i \in 1..(n - 1) : acq'[p][i] = acq[p][i]
          /\ \A q \in Process : q # p => acq'[q] = acq[q]
      <4>1. acq'[p] = SubSeq(acq[p], 1, n - 1)
          BY <3>1
      <4>2. acq[p] \in Seq(LockRecord) /\ 1 \in 1..(n + 1) /\ n - 1 \in 0..n
          BY <3>1, <2>s
      <4>3. /\ SubSeq(acq[p], 1, n - 1) \in Seq(LockRecord)
            /\ Len(SubSeq(acq[p], 1, n - 1)) = n - 1
            /\ \A i \in 1..(n - 1) : SubSeq(acq[p], 1, n - 1)[i] = acq[p][i]
        <5>1. \A i \in 1..(n - 1) : acq[p][i] \in LockRecord
            BY <2>s, <3>1
        <5>2. 1 \in Int /\ n - 1 \in Int /\ (IF 1 <= n - 1 THEN (n - 1) - 1 + 1 ELSE 0) = n - 1
              /\ (n - 1) - 1 + 1 = n - 1
          <6>1. n \in Nat /\ n # 0
              BY <3>1
          <6> HIDE DEF n
          <6> QED BY <6>1
        <5>3. /\ SubSeq(acq[p], 1, n - 1) \in Seq(LockRecord)
              /\ Len(SubSeq(acq[p], 1, n - 1)) = IF 1 <= n - 1 THEN (n - 1) - 1 + 1 ELSE 0
              /\ \A i \in 1..((n - 1) - 1 + 1) : SubSeq(acq[p], 1, n - 1)[i] = acq[p][1 + i - 1]
          <6> HIDE DEF n
          <6> QED BY <5>1, <5>2, SubSeqProperties
        <5>4. \A i \in 1..(n - 1) : 1 + i - 1 = i
            BY <3>1
        <5> QED BY <5>2, <5>3, <5>4
      <4> QED BY <4>1, <4>3, <3>1
    <3>3. StackTypeOK'
        BY <3>1, <3>2
    <3>4. StackOrdered'
        BY <3>1, <3>2 DEF StackOrdered
    <3>5. \A i \in 1..(n - 1) : acq[p][i].lock # c
      <4>1. \A i \in 1..(n - 1) : Rank[acq[p][i].lock] < Rank[c]
        <5>1. \A i \in 1..(n - 1) : i \in 1..n /\ n \in 1..n /\ i < n
            BY <3>1
        <5> QED BY <5>1 DEF StackOrdered
      <4>2. \A i \in 1..(n - 1) : Rank[acq[p][i].lock] \in Nat
          BY <2>s, <3>1, KernelLockAssumption
      <4> QED BY <4>1, <4>2, <3>1, KernelLockAssumption
    <3>6. Owned'
      <4>1. /\ \A d \in Channel : d # c => chan'[d] = chan[d]
            /\ chan'[c] = Free /\ chan[c] = p
          BY <3>1, <2>s DEF Owned, Holding
      <4>2. ASSUME NEW q \in Process, q # p
            PROVE  /\ \A d \in Channel : chan'[d] = q =>
                         InStack(q, d)' /\ pc'[q] \in Holding \cup {"relock"}
                   /\ pc'[q] \in Holding =>
                         \A i \in 1..Len(acq'[q]) : chan'[acq'[q][i].lock] = q
        <5>1. acq'[q] = acq[q] /\ pc'[q] = pc[q]
            BY <4>2, <3>1, <3>2
        <5>2. \A d \in Channel : chan'[d] = q <=> chan[d] = q
            BY <4>1, <4>2, KernelLockAssumption
        <5> QED BY <5>1, <5>2, <2>s DEF Owned, InStack
      <4>3. ASSUME NEW d \in Channel, chan'[d] = p
            PROVE  InStack(p, d)' /\ pc'[p] \in Holding \cup {"relock"}
        <5>1. d # c /\ chan[d] = p
            BY <4>1, <4>3
        <5>2. PICK i \in 1..n : acq[p][i].lock = d
            BY <5>1 DEF Owned, InStack
        <5>3. i \in 1..(n - 1)
            BY <5>1, <5>2, <3>1
        <5> QED BY <5>2, <5>3, <3>1, <3>2 DEF InStack, Holding
      <4>4. \A i \in 1..Len(acq'[p]) : chan'[acq'[p][i].lock] = p
          BY <4>1, <3>1, <3>2, <3>5, <2>s DEF Owned, Holding
      <4> QED BY <4>2, <4>3, <4>4 DEF Owned
    <3> QED BY <3>3, <3>4, <3>6, <1>t
  <2>6. CASE LockAllStep(p)
    <3>1. PICK i \in Missing(p) :
            /\ chan[acq[p][i].lock] = Free
            /\ chan' = [chan EXCEPT ![acq[p][i].lock] = p]
        BY <2>6 DEF LockAllStep
    <3>2. /\ i \in 1..Len(acq[p]) /\ acq[p][i] \in LockRecord
          /\ pc[p] = "relock" /\ UNCHANGED <<acq, pc>>
        BY <2>6 DEF LockAllStep, Missing
    <3>3. StackTypeOK' /\ StackOrdered'
        BY <3>1, <3>2 DEF StackOrdered, LockRecord
    <3>4. Owned'
      <4> DEFINE c == acq[p][i].lock
      <4>1. /\ c \in Channel /\ chan[c] = Free /\ chan'[c] = p
            /\ \A d \in Channel : d # c => chan'[d] = chan[d]
          BY <3>1, <3>2, <2>s
      <4>2. InStack(p, c)
          BY <3>2 DEF InStack
      <4> HIDE DEF c
      <4>3. ASSUME NEW q \in Process
            PROVE  \A d \in Channel : chan'[d] = q =>
                         InStack(q, d)' /\ pc'[q] \in Holding \cup {"relock"}
          BY <4>1, <4>2, <3>2 DEF Owned, InStack
      <4>4. ASSUME NEW q \in Process, pc'[q] \in Holding
            PROVE  \A j \in 1..Len(acq'[q]) : chan'[acq'[q][j].lock] = q
          BY <4>1, <4>4, <3>2, <2>s DEF Owned, Holding
      <4> QED BY <4>3, <4>4 DEF Owned
    <3> QED BY <3>3, <3>4, <1>t
  <2>7. CASE LockAllDone(p)
    <3>1. StackTypeOK' /\ StackOrdered'
        BY <2>7 DEF LockAllDone, StackOrdered
    <3>2. Owned'
      <4>1. /\ UNCHANGED <<chan, acq>> /\ pc[p] = "relock" /\ pc'[p] = "user"
            /\ \A q \in Process : q # p => pc'[q] = pc[q]
            /\ \A i \in 1..Len(acq[p]) : chan[acq[p][i].lock] = p
        <5>1. Missing(p) = {} /\ pc' = [pc EXCEPT ![p] = "user"]
              /\ UNCHANGED <<chan, acq>> /\ pc[p] = "relock"
            BY <2>7 DEF LockAllDone
        <5>2. \A i \in 1..Len(acq[p]) : chan[acq[p][i].lock] = p
            BY <5>1 DEF Missing
        <5> QED BY <5>1, <5>2, <1>t DEF LockTypeOK, Thread
      <4>2. ASSUME NEW q \in Process
            PROVE  \A c \in Channel : chan'[c] = q =>
                         InStack(q, c)' /\ pc'[q] \in Holding \cup {"relock"}
          BY <4>1 DEF Owned, InStack, Holding
      <4>3. ASSUME NEW q \in Process, pc'[q] \in Holding
            PROVE  \A i \in 1..Len(acq'[q]) : chan'[acq'[q][i].lock] = q
          BY <4>1, <4>3 DEF Owned
      <4> QED BY <4>2, <4>3 DEF Owned
    <3> QED BY <3>1, <3>2, <1>t
  <2> QED BY <1>3, <2>1, <2>3, <2>4, <2>5, <2>6, <2>7 DEF ChannelStep
<1>4. CASE SimulateEnter
    BY <1>4, <1>t, ChannelFrame
    DEF SimulateEnter, Acquire, Holding, LockTypeOK, Thread
<1>5. CASE SimulateSchedule
  <2>1. /\ UNCHANGED <<chan, acq>>
        /\ \A q \in Process : pc'[q] \in Holding => pc[q] \in Holding
        /\ \A q \in Process : pc[q] \in Holding \cup {"relock"} => pc'[q] = pc[q]
      BY <1>5, <1>t DEF SimulateSchedule, Woken, Holding, LockTypeOK, Thread
  <2> QED BY <2>1, <1>t, ChannelFrame
<1> QED BY <1>0, <1>1, <1>2, <1>3, <1>4, <1>5 DEF Next

LEMMA ChannelInvariant == Spec => []ChannelInv
BY LockInvariant, ChannelInvInit, ChannelInvStep, PTL DEF Spec

(* A process suspended inside channel methods holds none of their mutexes.  *)
THEOREM SleepersHoldNoChannelHolds == Spec => []SleepersHoldNoChannel
<1>1. ChannelInv => SleepersHoldNoChannel
    BY DEF ChannelInv, Owned, SleepersHoldNoChannel, Holding
<1> QED BY <1>1, ChannelInvariant, PTL

(* No two processes execute user code inside the same channel.              *)
THEOREM ChannelExclusionHolds == Spec => []ChannelExclusion
<1>1. ASSUME ChannelInv, NEW p \in Process, NEW c \in Channel,
             pc[p] = "user", InStack(p, c)
      PROVE  chan[c] = p
  <2>1. PICK i \in 1..Len(acq[p]) : acq[p][i].lock = c
      BY <1>1 DEF InStack
  <2>2. \A j \in 1..Len(acq[p]) : chan[acq[p][j].lock] = p
      BY <1>1 DEF ChannelInv, Owned, Holding
  <2> QED BY <2>1, <2>2
<1>2. ChannelInv => ChannelExclusion
    BY <1>1 DEF ChannelExclusion
<1> QED BY <1>2, ChannelInvariant, PTL

(* The stack of a process names the channel mutexes it owns.                *)
THEOREM StackMatchesMutexesHolds == Spec => []StackMatchesMutexes
<1>1. ChannelInv => StackMatchesMutexes
    BY DEF ChannelInv, Owned, StackMatchesMutexes, Holding
<1> QED BY <1>1, ChannelInvariant, PTL

(* No nested acquisition is outstanding when a thread leaves the kernel or  *)
(* sleeps.                                                                  *)
THEOREM CounterBalancedHolds == Spec => []CounterBalanced
<1>1. LockInv => CounterBalanced
    BY DEF LockInv
<1> QED BY <1>1, LockInvariant, PTL

(* The state of every run is of the declared type.                          *)
THEOREM TypeCorrect == Spec => []TypeOK
<1>1. ChannelInv => TypeOK
    BY DEF ChannelInv, LockTypeOK, StackTypeOK, TypeOK
<1> QED BY <1>1, ChannelInvariant, PTL

(* The kernel lock and the coroutines that pass it around do their work, for*)
(* any number of processes, channels and nested calls.                      *)
THEOREM LockSafetyHolds == Spec => []LockSafety
<1>1. TypeOK /\ KernelExclusion /\ CounterBalanced /\ NoLostWakeup /\ SomebodyAwake /\ RootAlone
        => LockSafety
    BY DEF LockSafety
<1> QED
    BY <1>1, TypeCorrect, KernelExclusionHolds, CounterBalancedHolds, NoLostWakeupHolds,
       SomebodyAwakeHolds, RootAloneHolds, PTL

(* The channel locks do theirs.                                             *)
THEOREM ChannelSafetyHolds == Spec => []ChannelSafety
<1>1. SleepersHoldNoChannel /\ ChannelExclusion /\ StackMatchesMutexes => ChannelSafety
    BY DEF ChannelSafety
<1> QED
    BY <1>1, SleepersHoldNoChannelHolds, ChannelExclusionHolds, StackMatchesMutexesHolds, PTL
-----------------------------------------------------------------------------
(* The creation of the coroutines: CorCreate for the same processes and the *)
(* same thread of sc_main, with the two mutexes and the threads' places in  *)
(* variables of its own.                                                    *)
CONSTANTS By, Spurious
VARIABLES create, handed, target, created, dispatched, stage

Creation == INSTANCE CorCreate WITH Child <- Process, sched <- handed, pc <- stage

OwnsCreate == {"locked", "started", "returning", "born", "signalled", "holding"}
Creator(t) == stage[t] \in Creation!Creating
MainDone == \A c \in Process : By[c] = Root => c \in created

(* A thread in create() is the one that creates its target, for the first   *)
(* time.                                                                    *)
Targets ==
    \A t \in Thread : Creator(t) =>
        target[t] \in Process /\ By[target[t]] = t /\ target[t] \notin created

(* Who owns the mutexes.  A process creates inside its kernel lock.         *)
Owners ==
    /\ \A t \in Thread : stage[t] \in OwnsCreate => create = t
    /\ \A t \in Thread : stage[t] \in {"holding", "leaving", "kernel"} => handed = t
    /\ \A c \in Process : Creator(c) => handed = c

(* Nothing runs before sc_main has created its coroutines.                  *)
AfterMain ==
    /\ stage[Root] = "kernel" => MainDone
    /\ \A c \in Process : stage[c] \notin Creation!Prestart \cup {"dormant"} => MainDone

(* The creator waits for a thread that has not signalled yet, and no longer *)
(* than that.                                                               *)
HandOver ==
    /\ \A c \in Process : stage[c] \in {"new", "born"} =>
          target[By[c]] = c /\ stage[By[c]] \in {"started", "create_wait"}
    /\ \A t \in Thread : stage[t] \in {"create_woken", "returning"} =>
          stage[target[t]] \notin {"none", "new", "born"}

CreationInv ==
    /\ Creation!TypeOK /\ Targets /\ Owners /\ AfterMain /\ HandOver
    /\ Creation!Dormant /\ Creation!NoLostStart /\ dispatched \subseteq created

(* sc_main creates before it enters the kernel and a process while it is in *)
(* it, so that never two threads are in create().                           *)
LEMMA OneCreator ==
  ASSUME Creation!CorCreateAssumption, CreationInv,
         NEW t \in Thread, NEW u \in Thread, Creator(t), Creator(u)
  PROVE  t = u
  BY DEF Creation!CorCreateAssumption, CreationInv, Creation!TypeOK, Targets, Owners,
         AfterMain, Creator, MainDone, Thread, Creation!Thread, Creation!Prestart,
         Creation!Creating

(* Every step preserves CreationInv, if pthread_cond_wait returns only after*)
(* a signal.                                                                *)
LEMMA CreationInvStep ==
  ASSUME Creation!CorCreateAssumption, ~Spurious, CreationInv, [Creation!Next]_Creation!vars
  PROVE  CreationInv'
<1> USE DEF Creation!CorCreateAssumption, CreationInv, Creation!TypeOK, Targets, Owners,
            AfterMain, HandOver, Creation!Dormant, Creation!NoLostStart, Creator, OwnsCreate,
            MainDone, Thread, Creation!Thread, Creation!Prestart, Creation!Creating,
            Creation!Goto
<1>1. CASE UNCHANGED Creation!vars
  BY <1>1 DEF Creation!vars
<1>2. ASSUME NEW t \in Thread, NEW c \in Process, Creation!CreateLock(t, c) PROVE CreationInv'
  BY <1>2 DEF Creation!CreateLock
<1>3. ASSUME NEW t \in Thread, NEW c \in Process, Creation!go(t, c) PROVE CreationInv'
  BY <1>3 DEF Creation!go
<1>4. ASSUME NEW t \in Thread, Creation!PthreadCreate(t) PROVE CreationInv'
  BY <1>4 DEF Creation!PthreadCreate
<1>5. ASSUME NEW t \in Thread, Creation!WaitCreated(t) PROVE CreationInv'
  BY <1>5 DEF Creation!WaitCreated
<1>6. ASSUME NEW t \in Thread, Creation!Relock(t) PROVE CreationInv'
  BY <1>6 DEF Creation!Relock
<1>7. ASSUME NEW t \in Thread, Creation!CreateReturn(t) PROVE CreationInv'
  BY <1>7 DEF Creation!CreateReturn
<1>8. ASSUME NEW t \in Thread, Creation!EnterKernel(t) PROVE CreationInv'
  BY <1>8 DEF Creation!EnterKernel
<1>9. ASSUME NEW t \in Thread, Creation!LeaveKernel(t) PROVE CreationInv'
  BY <1>9 DEF Creation!LeaveKernel
<1>10. ASSUME NEW c \in Process, Creation!ChildLock(c) PROVE CreationInv'
  BY <1>10 DEF Creation!ChildLock
<1>11. ASSUME NEW c \in Process, Creation!ChildSignal(c) PROVE CreationInv'
  BY <1>11, OneCreator DEF Creation!ChildSignal
<1>12. ASSUME NEW c \in Process, Creation!ChildSched(c) PROVE CreationInv'
  BY <1>12 DEF Creation!ChildSched
<1>13. ASSUME NEW c \in Process, Creation!ChildUnlock(c) PROVE CreationInv'
  BY <1>13 DEF Creation!ChildUnlock
<1>14. ASSUME NEW c \in Process, Creation!ChildWait(c) PROVE CreationInv'
  BY <1>14 DEF Creation!ChildWait
<1>15. ASSUME NEW c \in Process, Creation!ChildStart(c) PROVE CreationInv'
  BY <1>15 DEF Creation!ChildStart
<1> HIDE DEF CreationInv, Creation!Goto
<1> QED
  BY <1>1, <1>2, <1>3, <1>4, <1>5, <1>6, <1>7, <1>8, <1>9, <1>10, <1>11, <1>12, <1>13, <1>14, <1>15
  DEF Creation!Next, Creation!CreateStep, Creation!ChildStep, Creation!Terminating

(* For any number of coroutines, created by sc_main or by each other: when  *)
(* create() has returned, the new thread holds sched_mutex until it waits,  *)
(* so that the signal of go is not lost; and the mutexes exclude.           *)
THEOREM CreationSafe ==
  ASSUME Creation!CorCreateAssumption, ~Spurious
  PROVE  Creation!Spec =>
           [](Creation!TypeOK /\ Creation!Dormant /\ Creation!NoLostStart /\ Creation!Exclusive)
<1>1. Creation!Init => CreationInv
  BY DEF Creation!CorCreateAssumption, Creation!Init, CreationInv, Creation!TypeOK, Targets,
         Owners, AfterMain, HandOver, Creation!Dormant, Creation!NoLostStart, Creator,
         OwnsCreate, MainDone, Thread, Creation!Thread, Creation!Prestart, Creation!Creating
<1>2. CreationInv /\ [Creation!Next]_Creation!vars => CreationInv'
  BY CreationInvStep
<1>3. CreationInv => /\ Creation!TypeOK /\ Creation!Dormant
                     /\ Creation!NoLostStart /\ Creation!Exclusive
  BY DEF CreationInv, Owners, OwnsCreate, Creation!Exclusive, Thread, Creation!Thread
<1> QED BY <1>1, <1>2, <1>3, PTL DEF Creation!Spec

-----------------------------------------------------------------------------
(* How long a process object lives: ProcessLife for the same processes and  *)
(* the same thread of sc_main.                                              *)
CONSTANTS Holder, MaxHandles
VARIABLES life, refs, handles, exists, collectable, counting

Lives == INSTANCE ProcessLife WITH Main <- Root, place <- life, op <- counting

(* Only sc_main copies and drops handles.                                   *)
MainHolds == Holder \subseteq {Root}

Counts(a, p) == counting[a] # Lives!Idle /\ counting[a].of = p
Own(p) == IF ~Lives!Ended(p) \/ p \in collectable THEN 1 ELSE 0

(* Whoever counts does so alone: sc_main while no process is under way, a   *)
(* process that ends its own reference and with the kernel lock.            *)
CountsAlone ==
    /\ \A a, b \in Lives!Actor :
          counting[a] # Lives!Idle /\ counting[b] # Lives!Idle => a = b
    /\ counting[Root] # Lives!Idle => \A p \in Process : life[p] \in {"waiting", "over"}
    /\ \A p \in Process : counting[p] # Lives!Idle =>
          life[p] = "ending" /\ counting[p].of = p /\ counting[p].kind = "dec"
    /\ \A p, q \in Process : life[p] = "ending" /\ life[q] = "ending" => p = q

(* What a step of a count has still to do.                                  *)
CountRight(a) ==
    LET c == counting[a]
    IN  /\ c.at = "store" => c.n = refs[c.of]
        /\ c.at = "test" => c.kind = "dec"
        /\ c.kind = "inc" => handles[Root][c.of] >= 2
        /\ refs[c.of] = Own(c.of) + handles[Root][c.of]
                          + (IF c.at = "test" THEN 0 ELSE IF c.kind = "inc" THEN -1 ELSE 1)

LifeTypeOK ==
    /\ life \in [Process -> {"waiting", "running", "ending", "over"}]
    /\ refs \in [Process -> Nat]
    /\ handles \in [Lives!Actor -> [Process -> 0 .. MaxHandles]]
    /\ exists \subseteq Process
    /\ collectable \subseteq Process /\ \A p \in collectable : Lives!Ended(p)
    /\ counting = [a \in Lives!Actor |-> counting[a]]
    /\ \A a \in Lives!Actor : counting[a] # Lives!Idle =>
          counting[a] \in [at : {"load", "store", "test"}, kind : {"inc", "dec"}, of : Process, n : Int]

LifeInvariant ==
    /\ LifeTypeOK
    /\ \A p, q \in Process : handles[p][q] = 0
    /\ CountsAlone
    /\ \A a \in Lives!Actor : counting[a] # Lives!Idle => CountRight(a)
    /\ \A p \in exists : (\A a \in Lives!Actor : ~Counts(a, p)) =>
          refs[p] = Own(p) + handles[Root][p] /\ refs[p] > 0
    /\ Lives!InUseExist

LifeAssumption == Lives!ProcessLifeAssumption /\ MainHolds

LEMMA LifeInit ==
  ASSUME LifeAssumption, Lives!Init
  PROVE  LifeInvariant
<1> USE DEF LifeAssumption, MainHolds, Lives!ProcessLifeAssumption, Lives!Actor
<1>1. PICK kept \in SUBSET Process :
         /\ handles = [a \in Lives!Actor |-> [p \in Process |->
                            IF a = Root /\ p \in kept THEN 1 ELSE 0]]
         /\ refs = [p \in Process |-> IF p \in kept THEN 2 ELSE 1]
  BY DEF Lives!Init
<1>2. /\ life = [p \in Process |-> "waiting"]
      /\ exists = Process /\ collectable = {}
      /\ counting = [a \in Lives!Actor |-> Lives!Idle]
  BY DEF Lives!Init
<1>3. LifeTypeOK
  <2>1. handles \in [Lives!Actor -> [Process -> 0 .. MaxHandles]]
    BY <1>1
  <2> QED BY <1>1, <1>2, <2>1 DEF LifeTypeOK
<1>4. CountsAlone /\ \A a \in Lives!Actor : counting[a] = Lives!Idle
  BY <1>2 DEF CountsAlone
<1>5. \A p \in Process : refs[p] = Own(p) + handles[Root][p] /\ refs[p] > 0
  BY <1>1, <1>2 DEF Own, Lives!Ended
<1>6. \A p, q \in Process : handles[p][q] = 0
  BY <1>1
<1>7. Lives!InUseExist
  BY <1>1, <1>2, <1>4 DEF Lives!InUseExist
<1> QED BY <1>2, <1>3, <1>4, <1>5, <1>6, <1>7 DEF LifeInvariant

(* A process is dispatched or suspends: nobody counts it otherwise.         *)
LEMMA LifeMove ==
  ASSUME LifeAssumption, LifeInvariant, NEW p \in Process,
         Lives!Wake(p) \/ Lives!Wait(p) \/ Lives!Sleep(p)
  PROVE  LifeInvariant'
<1> USE DEF LifeInvariant, LifeAssumption, Lives!ProcessLifeAssumption
<1>1. /\ life' = [life EXCEPT ![p] = life'[p]]
      /\ life[p] \in {"ending", "over"} <=> life'[p] \in {"ending", "over"}
      /\ life'[p] \in {"waiting", "running", "over"}
      /\ life[p] # "over"
      /\ UNCHANGED <<refs, handles, exists, collectable, counting>>
  <2>1. p # Root
    OBVIOUS
  <2>2. CASE Lives!Wake(p)
    BY <2>2 DEF Lives!Wake, LifeTypeOK
  <2>3. CASE Lives!Wait(p)
    BY <2>1, <2>3 DEF Lives!Wait, Lives!Active, LifeTypeOK
  <2>4. CASE Lives!Sleep(p)
    BY <2>4 DEF Lives!Sleep, LifeTypeOK
  <2> QED BY <2>2, <2>3, <2>4
<1>2. LifeTypeOK'
  <2>1. life' \in [Process -> {"waiting", "running", "ending", "over"}]
    BY <1>1 DEF LifeTypeOK
  <2>2. \A q \in collectable : Lives!Ended(q)'
    BY <1>1 DEF LifeTypeOK, Lives!Ended
  <2> QED BY <1>1, <2>1, <2>2 DEF LifeTypeOK
<1>3. \A q \in Process : Own(q)' = Own(q)
  BY <1>1 DEF Own, Lives!Ended, LifeTypeOK
<1>4. CountsAlone'
  <2>1. CASE Lives!Wake(p)
    BY <1>1, <2>1 DEF Lives!Wake, CountsAlone, LifeTypeOK
  <2>2. CASE Lives!Wait(p) \/ Lives!Sleep(p)
    BY <1>1, <2>2 DEF Lives!Wait, Lives!Sleep, Lives!Active, CountsAlone, LifeTypeOK, Lives!Actor
  <2> QED BY <2>1, <2>2
<1>5. \A a \in Lives!Actor : counting[a] # Lives!Idle => CountRight(a)'
  BY <1>1, <1>3 DEF CountRight, LifeTypeOK
<1>6. Lives!InUseExist'
  BY <1>1 DEF Lives!InUseExist, LifeTypeOK
<1>7. \A q \in exists : \A a \in Lives!Actor : Counts(a, q)' <=> Counts(a, q)
  BY <1>1 DEF Counts
<1>8. \A q \in exists : q \in Process
  BY DEF LifeTypeOK
<1> QED BY <1>1, <1>2, <1>3, <1>4, <1>5, <1>6, <1>7, <1>8

(* Changing one or two fields of the step at which a is.                    *)
LEMMA CountChange ==
  ASSUME NEW A, NEW a \in A, NEW f, f = [b \in A |-> f[b]], NEW S,
         f[a] \in [at : {"load", "store", "test"}, kind : {"inc", "dec"}, of : S, n : Int],
         NEW v, NEW m
  PROVE  /\ [f EXCEPT ![a].at = v]
               = [f EXCEPT ![a] = [at |-> v, kind |-> f[a].kind, of |-> f[a].of, n |-> f[a].n]]
         /\ [f EXCEPT ![a].at = v, ![a].n = m]
               = [f EXCEPT ![a] = [at |-> v, kind |-> f[a].kind, of |-> f[a].of, n |-> m]]
<1> DEFINE r == [at |-> v, kind |-> f[a].kind, of |-> f[a].of, n |-> f[a].n]
           s == [at |-> v, kind |-> f[a].kind, of |-> f[a].of, n |-> m]
<1>1. f[a] = [at |-> f[a].at, kind |-> f[a].kind, of |-> f[a].of, n |-> f[a].n]
  OBVIOUS
<1>2. [f[a] EXCEPT !.at = v] = r
  <2>1. \A t, k, o, c : [[at |-> t, kind |-> k, of |-> o, n |-> c] EXCEPT !.at = v]
                          = [at |-> v, kind |-> k, of |-> o, n |-> c]
    OBVIOUS
  <2>2. [f[a] EXCEPT !.at = v]
          = [[at |-> f[a].at, kind |-> f[a].kind, of |-> f[a].of, n |-> f[a].n] EXCEPT !.at = v]
    BY <1>1, Zenon
  <2> QED BY <2>1, <2>2
<1>3. [r EXCEPT !.n = m] = s
  OBVIOUS
<1> HIDE DEF r, s
<1>4. [f EXCEPT ![a].at = v] = [f EXCEPT ![a] = r]
  <2>1. [f EXCEPT ![a].at = v] = [f EXCEPT ![a] = [f[a] EXCEPT !.at = v]]
    OBVIOUS
  <2> QED BY <1>2, <2>1, Zenon
<1>5. PICK g : g = [f EXCEPT ![a] = r]
  OBVIOUS
<1>6. g = [b \in A |-> g[b]] /\ g[a] = r /\ \A b \in A \ {a} : g[b] = f[b]
  BY <1>5
<1>7. [f EXCEPT ![a].at = v, ![a].n = m] = [g EXCEPT ![a].n = m]
  <2>1. [f EXCEPT ![a].at = v, ![a].n = m] = [[f EXCEPT ![a].at = v] EXCEPT ![a].n = m]
    OBVIOUS
  <2> QED BY <1>4, <1>5, <2>1, Zenon
<1>8. [g EXCEPT ![a].n = m] = [g EXCEPT ![a] = s]
  <2>1. [g EXCEPT ![a].n = m] = [g EXCEPT ![a] = [g[a] EXCEPT !.n = m]]
    BY <1>6
  <2> QED BY <1>3, <1>6, <2>1, Zenon
<1>9. [g EXCEPT ![a] = s] = [f EXCEPT ![a] = s]
  BY <1>5, <1>6
<1> QED BY <1>4, <1>7, <1>8, <1>9 DEF r, s

(* What is common to the steps of a count: a changes what is known of p.    *)
LEMMA LifeCount ==
  ASSUME LifeAssumption, LifeInvariant, NEW a \in Lives!Actor, NEW p \in Process, NEW new,
         counting' = [counting EXCEPT ![a] = new],
         \A b \in Lives!Actor \ {a} : counting[b] = Lives!Idle,
         counting[a] # Lives!Idle => counting[a].of = p,
         \/ a = Root /\ life' = life /\ \A q \in Process : life[q] \in {"waiting", "over"}
         \/ /\ a = p /\ life'[p] = "ending" /\ (new # Lives!Idle => new.kind = "dec")
            /\ \A q \in Process : life'[q] = "ending" => q = p,
         LifeTypeOK', Lives!InUseExist', exists' \subseteq exists,
         \A q, r \in Process : handles'[q][r] = 0,
         \A q \in Process \ {p} :
            refs'[q] = refs[q] /\ Own(q)' = Own(q) /\ handles'[Root][q] = handles[Root][q],
         new # Lives!Idle => new.of = p /\ CountRight(a)',
         new = Lives!Idle /\ p \in exists' => refs'[p] = Own(p)' + handles'[Root][p] /\ refs'[p] > 0
  PROVE  LifeInvariant'
<1> USE DEF LifeInvariant
<1>1. counting'[a] = new /\ \A b \in Lives!Actor \ {a} : counting'[b] = Lives!Idle
  BY DEF LifeTypeOK
<1>2. Root \notin Process /\ Process \subseteq Lives!Actor /\ Root \in Lives!Actor
  BY DEF LifeAssumption, Lives!ProcessLifeAssumption, Lives!Actor
<1>3. CountsAlone'
  BY <1>1, <1>2 DEF CountsAlone
<1>4. \A b \in Lives!Actor : counting'[b] # Lives!Idle => CountRight(b)'
  BY <1>1
<1>5. ASSUME NEW q \in exists', \A b \in Lives!Actor : ~Counts(b, q)'
      PROVE  refs'[q] = Own(q)' + handles'[Root][q] /\ refs'[q] > 0
  <2>1. q \in exists /\ q \in Process
    BY DEF LifeTypeOK
  <2>2. CASE q = p
    BY <1>1, <1>5, <2>2 DEF Counts
  <2>3. CASE q # p
    <3>1. \A b \in Lives!Actor : ~Counts(b, q)
      BY <2>3 DEF Counts
    <3> QED BY <2>1, <2>3, <3>1
  <2> QED BY <2>2, <2>3
<1> QED BY <1>3, <1>4, <1>5

(* sc_main copies or drops a handle.                                        *)
LEMMA LifeHandle ==
  ASSUME LifeAssumption, LifeInvariant, NEW a \in Lives!Actor, NEW p \in Process,
         Lives!Copy(a, p) \/ Lives!Drop(a, p)
  PROVE  LifeInvariant'
<1> USE DEF LifeInvariant
<1>1. a = Root /\ counting[a] = Lives!Idle /\ handles[Root][p] > 0
      /\ \A q \in Process : life[q] \in {"waiting", "over"}
  BY DEF LifeAssumption, MainHolds, Lives!ProcessLifeAssumption, Lives!Copy, Lives!Drop, Lives!Active
<1>2. /\ \A b \in Lives!Actor \ {a} : counting[b] = Lives!Idle
      /\ Root \notin Process /\ Process \subseteq Lives!Actor /\ Root \in Lives!Actor
  BY <1>1 DEF CountsAlone, LifeAssumption, Lives!ProcessLifeAssumption, Lives!Actor
<1>3. PICK kind, d :
        /\ \/ kind = "inc" /\ d = handles[Root][p] + 1
           \/ kind = "dec" /\ d = handles[Root][p] - 1
        /\ d \in 0 .. MaxHandles
        /\ handles' = [handles EXCEPT ![Root][p] = d]
        /\ counting' = [counting EXCEPT ![a] = Lives!Step("load", kind, p, 0)]
        /\ UNCHANGED <<life, refs, exists, collectable>>
  <2>1. handles[Root][p] \in 0 .. MaxHandles /\ MaxHandles \in Nat
    BY <1>2 DEF LifeTypeOK, LifeAssumption, Lives!ProcessLifeAssumption
  <2>2. CASE Lives!Copy(a, p)
    <3>1. handles[Root][p] + 1 \in 0 .. MaxHandles
      BY <1>1, <2>1, <2>2 DEF Lives!Copy
    <3> QED BY <1>1, <2>2, <3>1 DEF Lives!Copy
  <2>3. CASE Lives!Drop(a, p)
    <3>1. handles[Root][p] - 1 \in 0 .. MaxHandles
      BY <1>1, <2>1
    <3> QED BY <1>1, <2>3, <3>1 DEF Lives!Drop
  <2> QED BY <2>2, <2>3
<1> DEFINE new == Lives!Step("load", kind, p, 0)
<1>4. /\ new \in [at : {"load", "store", "test"}, kind : {"inc", "dec"}, of : Process, n : Int]
      /\ new.at = "load" /\ new.kind = kind /\ new.of = p
  BY <1>3 DEF Lives!Step
<1>5. new # Lives!Idle /\ counting' = [counting EXCEPT ![a] = new]
  BY <1>3, <1>4 DEF Lives!Idle
<1>6. counting'[a] = new /\ \A b \in Lives!Actor \ {a} : counting'[b] = counting[b]
  BY <1>3 DEF LifeTypeOK
<1> HIDE DEF new
<1>7. /\ handles'[Root][p] = d
      /\ \A q \in Process \ {p} : handles'[Root][q] = handles[Root][q]
      /\ \A q, r \in Process : handles'[q][r] = 0
  BY <1>2, <1>3 DEF LifeTypeOK
<1>8. LifeTypeOK'
  <2>1. handles' \in [Lives!Actor -> [Process -> 0 .. MaxHandles]]
    BY <1>2, <1>3 DEF LifeTypeOK
  <2>2. counting' = [b \in Lives!Actor |-> counting'[b]]
    BY <1>3 DEF LifeTypeOK
  <2> QED BY <1>3, <1>4, <1>6, <2>1, <2>2 DEF LifeTypeOK, Lives!Ended
<1>9. p \in exists
  BY <1>1, <1>2 DEF Lives!InUseExist
<1>10. Lives!InUseExist'
  <2>1. \A b \in Lives!Actor : counting'[b] # Lives!Idle => counting'[b].of \in exists
    BY <1>4, <1>6, <1>9 DEF Lives!InUseExist
  <2>2. \A b \in Lives!Actor, q \in Process : handles'[b][q] > 0 => q \in exists
    <3> SUFFICES ASSUME NEW b \in Lives!Actor, NEW q \in Process, handles'[b][q] > 0, q # p
                 PROVE  q \in exists
      BY <1>9
    <3>1. b = Root
      BY <1>7 DEF Lives!Actor
    <3> QED BY <1>2, <1>7, <3>1 DEF Lives!InUseExist
  <2> QED BY <1>3, <2>1, <2>2 DEF Lives!InUseExist
<1>11. \A q \in Process : Own(q)' = Own(q)
  BY <1>3 DEF Own, Lives!Ended
<1>12. CountRight(a)'
  <2>1. refs[p] = Own(p) + handles[Root][p]
    BY <1>1, <1>2, <1>9 DEF Counts
  <2>2. Own(p) \in {0, 1} /\ handles[Root][p] \in Nat
    BY <1>2 DEF Own, LifeTypeOK, LifeAssumption, Lives!ProcessLifeAssumption
  <2> QED BY <1>1, <1>3, <1>4, <1>6, <1>7, <1>11, <2>1, <2>2 DEF CountRight
<1>13. /\ life' = life /\ exists' \subseteq exists
       /\ \A q \in Process \ {p} :
            refs'[q] = refs[q] /\ Own(q)' = Own(q) /\ handles'[Root][q] = handles[Root][q]
  BY <1>3, <1>7, <1>11
<1> QED BY <1>1, <1>2, <1>4, <1>5, <1>7, <1>8, <1>10, <1>12, <1>13, LifeCount


(* The function of a process returns.                                       *)
LEMMA LifeEnds ==
  ASSUME LifeAssumption, LifeInvariant, NEW p \in Process, Lives!Ends(p)
  PROVE  LifeInvariant'
<1> USE DEF LifeInvariant
<1> DEFINE new == Lives!Step("load", "dec", p, 0)
<1>1. /\ Root \notin Process /\ Process \subseteq Lives!Actor /\ Root \in Lives!Actor
      /\ p # Root
  BY DEF LifeAssumption, Lives!ProcessLifeAssumption, Lives!Actor
<1>2. /\ counting[p] = Lives!Idle /\ life[p] = "running"
      /\ \A q \in Process : life[q] # "ending"
      /\ life' = [life EXCEPT ![p] = "ending"]
      /\ counting' = [counting EXCEPT ![p] = new]
      /\ UNCHANGED <<refs, handles, exists, collectable>>
  BY <1>1 DEF Lives!Ends, Lives!Active
<1>3. \A b \in Lives!Actor : counting[b] = Lives!Idle
  BY <1>2 DEF CountsAlone, Lives!Actor
<1>4. /\ new \in [at : {"load", "store", "test"}, kind : {"inc", "dec"}, of : Process, n : Int]
      /\ new.at = "load" /\ new.kind = "dec" /\ new.of = p
  BY DEF Lives!Step
<1>5. new # Lives!Idle
  BY <1>4 DEF Lives!Idle
<1> HIDE DEF new
<1>6. counting'[p] = new /\ \A b \in Lives!Actor \ {p} : counting'[b] = counting[b]
  BY <1>1, <1>2 DEF LifeTypeOK
<1>7. life'[p] = "ending" /\ \A q \in Process \ {p} : life'[q] = life[q]
  BY <1>2 DEF LifeTypeOK
<1>8. LifeTypeOK'
  <2>1. counting' = [b \in Lives!Actor |-> counting'[b]]
    BY <1>2 DEF LifeTypeOK
  <2>2. \A q \in collectable : Lives!Ended(q)'
    BY <1>7 DEF LifeTypeOK, Lives!Ended
  <2>3. life' \in [Process -> {"waiting", "running", "ending", "over"}]
    BY <1>2 DEF LifeTypeOK
  <2> QED BY <1>2, <1>3, <1>4, <1>6, <2>1, <2>2, <2>3 DEF LifeTypeOK
<1>9. p \in exists
  BY <1>2 DEF Lives!InUseExist
<1>10. Lives!InUseExist'
  <2>1. \A b \in Lives!Actor : counting'[b] # Lives!Idle => counting'[b].of \in exists
    BY <1>3, <1>4, <1>6, <1>9
  <2>2. \A q \in Process : life'[q] # "over" => q \in exists
    BY <1>7, <1>9 DEF Lives!InUseExist
  <2> QED BY <1>2, <2>1, <2>2 DEF Lives!InUseExist
<1>11. /\ \A q \in Process \ {p} : Own(q)' = Own(q)
       /\ Own(p) = 1 /\ Own(p)' = 0
  BY <1>2, <1>7 DEF Own, LifeTypeOK, Lives!Ended
<1>12. CountRight(p)'
  <2>1. refs[p] = Own(p) + handles[Root][p] /\ handles[Root][p] \in Nat
    BY <1>1, <1>3, <1>9 DEF Counts, LifeTypeOK, LifeAssumption, Lives!ProcessLifeAssumption
  <2> QED BY <1>2, <1>4, <1>6, <1>11, <2>1 DEF CountRight
<1>13. \A q \in Process : life'[q] = "ending" => q = p
  BY <1>2, <1>7
<1>14. /\ exists' \subseteq exists /\ \A q, r \in Process : handles'[q][r] = 0
       /\ \A q \in Process \ {p} :
            refs'[q] = refs[q] /\ Own(q)' = Own(q) /\ handles'[Root][q] = handles[Root][q]
  BY <1>2, <1>11
<1>15. p \in Lives!Actor /\ counting' = [counting EXCEPT ![p] = new]
       /\ \A b \in Lives!Actor \ {p} : counting[b] = Lives!Idle
  BY <1>1, <1>2, <1>3
<1>16. new # Lives!Idle => new.of = p /\ new.kind = "dec" /\ CountRight(p)'
  BY <1>4, <1>12
<1>17. counting[p] # Lives!Idle => counting[p].of = p
  BY <1>2
<1> QED BY <1>5, <1>7, <1>8, <1>10, <1>13, <1>14, <1>15, <1>16, <1>17, LifeCount, Zenon

(* Who is in the middle of a count is alone, and what it counts exists.     *)
LEMMA LifeAlone ==
  ASSUME LifeAssumption, LifeInvariant, NEW a \in Lives!Actor, counting[a].at # "idle"
  PROVE  /\ counting[a] # Lives!Idle
         /\ counting[a] \in [at : {"load", "store", "test"}, kind : {"inc", "dec"},
                              of : Process, n : Int]
         /\ \A b \in Lives!Actor \ {a} : counting[b] = Lives!Idle
         /\ CountRight(a) /\ counting[a].of \in exists
         /\ \/ a = Root /\ \A q \in Process : life[q] \in {"waiting", "over"}
            \/ /\ a = counting[a].of /\ a \in Process /\ life[a] = "ending"
               /\ counting[a].kind = "dec"
               /\ \A q \in Process : life[q] = "ending" => q = a
<1>1. counting[a] # Lives!Idle
  BY DEF Lives!Idle
<1>2. a = Root \/ a \in Process
  BY DEF Lives!Actor
<1>3. LifeTypeOK /\ CountsAlone /\ Lives!InUseExist /\ CountRight(a)
  BY <1>1 DEF LifeInvariant
<1>4. /\ counting[a] \in [at : {"load", "store", "test"}, kind : {"inc", "dec"},
                           of : Process, n : Int]
      /\ counting[a].of \in exists
  BY <1>1, <1>3 DEF LifeTypeOK, Lives!InUseExist
<1>5. \A b \in Lives!Actor \ {a} : counting[b] = Lives!Idle
  BY <1>1, <1>3 DEF CountsAlone
<1>6. CASE a = Root
  BY <1>1, <1>3, <1>4, <1>5, <1>6 DEF CountsAlone
<1>7. CASE a \in Process
  BY <1>1, <1>3, <1>4, <1>5, <1>7 DEF CountsAlone
<1> QED BY <1>2, <1>6, <1>7

(* Its load and its store, which nobody comes between.                      *)
LEMMA LifeLoadStore ==
  ASSUME LifeAssumption, LifeInvariant, NEW a \in Lives!Actor, Lives!Load(a) \/ Lives!Store(a)
  PROVE  LifeInvariant'
<1> USE DEF LifeInvariant
<1> DEFINE c == counting[a]
<1>1. PICK p : p = c.of
  OBVIOUS
<1>2. c.at \in {"load", "store"}
  BY DEF Lives!Load, Lives!Store
<1>3. /\ c # Lives!Idle /\ p \in Process /\ p \in exists /\ CountRight(a)
      /\ c \in [at : {"load", "store", "test"}, kind : {"inc", "dec"}, of : Process, n : Int]
      /\ \A b \in Lives!Actor \ {a} : counting[b] = Lives!Idle
      /\ \/ a = Root /\ \A q \in Process : life[q] \in {"waiting", "over"}
         \/ /\ a = p /\ life[p] = "ending" /\ c.kind = "dec"
            /\ \A q \in Process : life[q] = "ending" => q = p
  BY <1>1, <1>2, LifeAlone
<1>4. /\ UNCHANGED <<life, handles, exists, collectable>>
      /\ counting = [b \in Lives!Actor |-> counting[b]]
      /\ \A q \in Process : refs[q] \in Nat /\ handles[Root][q] \in Nat
      /\ \A q \in Process : Own(q) \in {0, 1} /\ Own(q)' = Own(q)
  BY DEF Lives!Load, Lives!Store, LifeTypeOK, Lives!Actor, Own, Lives!Ended,
     LifeAssumption, Lives!ProcessLifeAssumption
<1>0. \A v, m :
         /\ [counting EXCEPT ![a].at = v]
               = [counting EXCEPT ![a] = [at |-> v, kind |-> c.kind, of |-> c.of, n |-> c.n]]
         /\ [counting EXCEPT ![a].at = v, ![a].n = m]
               = [counting EXCEPT ![a] = [at |-> v, kind |-> c.kind, of |-> c.of, n |-> m]]
  BY <1>3, <1>4, CountChange, Zenon
<1>5. PICK new :
        /\ counting' = [counting EXCEPT ![a] = new]
        /\ \A q \in Process \ {p} : refs'[q] = refs[q]
        /\ refs' \in [Process -> Nat]
        /\ new # Lives!Idle =>
              /\ new \in [at : {"load", "store", "test"}, kind : {"inc", "dec"}, of : Process, n : Int]
              /\ new.of = p /\ new.kind = c.kind
              /\ \/ new.at = "store" /\ new.n = refs'[p] /\ refs'[p] = refs[p]
                 \/ new.at = "test" /\ c.kind = "dec" /\ refs'[p] = Own(p) + handles[Root][p]
              /\ c.at = "load" => new.at = "store"
              /\ c.at = "store" => new.at = "test"
        /\ new = Lives!Idle => refs'[p] = Own(p) + handles[Root][p] /\ refs'[p] > 0
  <2>1. CASE Lives!Load(a)
    <3> DEFINE new == [at |-> "store", kind |-> c.kind, of |-> c.of, n |-> refs[c.of]]
    <3>1. counting' = [counting EXCEPT ![a] = new]
      BY <1>0, <2>1, Zenon DEF Lives!Load
    <3>2. refs' = refs /\ c.at = "load"
      BY <2>1 DEF Lives!Load
    <3>3. new \in [at : {"load", "store", "test"}, kind : {"inc", "dec"}, of : Process, n : Int]
      BY <1>1, <1>3, <1>4
    <3>4. new # Lives!Idle
      BY DEF Lives!Idle
    <3> QED BY <1>1, <3>1, <3>2, <3>3, <3>4 DEF LifeTypeOK
  <2>2. CASE Lives!Store(a) /\ c.kind = "inc"
    <3>1. /\ counting' = [counting EXCEPT ![a] = Lives!Idle]
          /\ refs' = [refs EXCEPT ![p] = c.n + 1] /\ c.at = "store"
      BY <1>1, <2>2 DEF Lives!Store
    <3>2. /\ c.n = refs[p] /\ handles[Root][p] >= 2
          /\ refs[p] = Own(p) + handles[Root][p] - 1
      BY <1>1, <1>3, <1>4, <2>2, <3>1 DEF CountRight
    <3>3. refs[p] + 1 = Own(p) + handles[Root][p] /\ refs[p] + 1 > 0 /\ refs[p] + 1 \in Nat
      BY <1>3, <1>4, <3>2
    <3>4. /\ refs'[p] = refs[p] + 1 /\ refs' \in [Process -> Nat]
          /\ \A q \in Process \ {p} : refs'[q] = refs[q]
      BY <1>3, <3>1, <3>2, <3>3 DEF LifeTypeOK
    <3> QED BY <3>1, <3>3, <3>4
  <2>3. CASE Lives!Store(a) /\ c.kind # "inc"
    <3> DEFINE new == [at |-> "test", kind |-> c.kind, of |-> c.of, n |-> c.n]
    <3>1. /\ counting' = [counting EXCEPT ![a].at = "test"]
          /\ refs' = [refs EXCEPT ![p] = c.n - 1] /\ c.at = "store" /\ c.kind = "dec"
      BY <1>1, <1>3, <2>3 DEF Lives!Store
    <3>2. counting' = [counting EXCEPT ![a] = new]
      BY <1>0, <3>1, Zenon
    <3>3. c.n = refs[p] /\ refs[p] = Own(p) + handles[Root][p] + 1
      BY <1>1, <1>3, <1>4, <3>1 DEF CountRight
    <3>4. refs[p] - 1 = Own(p) + handles[Root][p] /\ refs[p] - 1 \in Nat
      BY <1>3, <1>4, <3>3
    <3>5. /\ refs'[p] = refs[p] - 1 /\ refs' \in [Process -> Nat]
          /\ \A q \in Process \ {p} : refs'[q] = refs[q]
      BY <1>3, <3>1, <3>3, <3>4 DEF LifeTypeOK
    <3>6. new \in [at : {"load", "store", "test"}, kind : {"inc", "dec"}, of : Process, n : Int]
      BY <1>3
    <3>7. new # Lives!Idle
      BY DEF Lives!Idle
    <3>8. new.of = p /\ new.kind = c.kind /\ new.at = "test"
      BY <1>1
    <3> HIDE DEF new
    <3> QED BY <3>1, <3>2, <3>4, <3>5, <3>6, <3>7, <3>8
  <2> QED BY <2>1, <2>2, <2>3
<1>6. counting'[a] = new /\ \A b \in Lives!Actor \ {a} : counting'[b] = counting[b]
  BY <1>4, <1>5
<1>7. LifeTypeOK'
  <2>1. counting' = [b \in Lives!Actor |-> counting'[b]]
    BY <1>4, <1>5
  <2> QED BY <1>3, <1>4, <1>5, <1>6, <2>1 DEF LifeTypeOK, Lives!Ended
<1>8. Lives!InUseExist'
  BY <1>3, <1>4, <1>5, <1>6 DEF Lives!InUseExist
<1>9. new # Lives!Idle => CountRight(a)'
  <2> SUFFICES ASSUME new # Lives!Idle PROVE CountRight(a)'
    OBVIOUS
  <2>1. /\ c.kind = "inc" => handles[Root][p] >= 2
        /\ c.at # "test" => refs[p] = Own(p) + handles[Root][p] + (IF c.kind = "inc" THEN -1 ELSE 1)
    BY <1>1, <1>3 DEF CountRight
  <2>2. handles' = handles /\ Own(p)' = Own(p) /\ counting'[a] = new /\ new.of = p
        /\ new.kind = c.kind
    BY <1>3, <1>4, <1>5, <1>6
  <2> QED BY <1>2, <1>3, <1>4, <1>5, <2>1, <2>2 DEF CountRight
<1> QED BY <1>1, <1>3, <1>4, <1>5, <1>7, <1>8, <1>9, LifeCount

(* Its test: an object whose count is zero is deleted, or put aside by the  *)
(* process itself.                                                          *)
LEMMA LifeTest ==
  ASSUME LifeAssumption, LifeInvariant, NEW a \in Lives!Actor, Lives!Test(a)
  PROVE  LifeInvariant'
<1> USE DEF LifeInvariant
<1> DEFINE c == counting[a]
<1>1. PICK p : p = c.of
  OBVIOUS
<1>2. /\ c.at = "test" /\ UNCHANGED <<life, handles>>
      /\ counting' = [counting EXCEPT ![a] = Lives!Idle]
      /\ \/ refs[p] = 0 /\ Lives!DeleteProcess(a, p)
         \/ refs[p] # 0 /\ UNCHANGED <<refs, exists, collectable>>
  BY <1>1 DEF Lives!Test
<1>3. /\ c # Lives!Idle /\ p \in Process /\ p \in exists /\ CountRight(a)
      /\ \A b \in Lives!Actor \ {a} : counting[b] = Lives!Idle
      /\ \/ a = Root /\ \A q \in Process : life[q] \in {"waiting", "over"}
         \/ /\ a = p /\ life[p] = "ending"
            /\ \A q \in Process : life[q] = "ending" => q = p
  BY <1>1, <1>2, LifeAlone
<1>4. Root \notin Process /\ Process \subseteq Lives!Actor /\ Root \in Lives!Actor
  BY DEF LifeAssumption, Lives!ProcessLifeAssumption, Lives!Actor
<1>5. /\ refs[p] = Own(p) + handles[Root][p]
      /\ Own(p) \in {0, 1} /\ refs[p] \in Nat /\ handles[Root][p] \in Nat
  BY <1>1, <1>2, <1>3, <1>4 DEF CountRight, Own, LifeTypeOK, LifeAssumption, Lives!ProcessLifeAssumption
<1>6. \A b \in Lives!Actor : counting'[b] = Lives!Idle
  BY <1>2, <1>3 DEF LifeTypeOK
<1>7. counting' = [b \in Lives!Actor |-> counting'[b]]
  BY <1>2 DEF LifeTypeOK
<1>8. CASE refs[p] = 0 /\ p # a
  <2>1. /\ exists' = exists \ {p} /\ UNCHANGED <<refs, collectable>>
        /\ a = Root /\ \A q \in Process : life[q] \in {"waiting", "over"}
    BY <1>2, <1>3, <1>8 DEF Lives!DeleteProcess
  <2>2. Own(p) = 0 /\ handles[Root][p] = 0
    BY <1>5, <1>8
  <2>3. life[p] = "over"
    BY <1>3, <2>1, <2>2 DEF Own, Lives!Ended
  <2>4. LifeTypeOK'
    BY <1>2, <1>6, <1>7, <2>1 DEF LifeTypeOK, Lives!Ended
  <2>5. Lives!InUseExist'
    <3>1. \A b \in Lives!Actor, q \in Process : handles[b][q] > 0 => q # p
      BY <2>2 DEF Lives!Actor
    <3> QED BY <1>2, <1>6, <2>1, <2>3, <3>1 DEF Lives!InUseExist
  <2>6. \A q \in Process : Own(q)' = Own(q)
    BY <1>2, <2>1 DEF Own, Lives!Ended
  <2> QED BY <1>1, <1>2, <1>3, <2>1, <2>4, <2>5, <2>6, LifeCount
<1>9. CASE refs[p] = 0 /\ p = a
  <2>1. /\ refs' = [refs EXCEPT ![p] = 1] /\ collectable' = collectable \cup {p}
        /\ exists' = exists
        /\ life[p] = "ending" /\ \A q \in Process : life[q] = "ending" => q = p
    BY <1>2, <1>3, <1>4, <1>9 DEF Lives!DeleteProcess
  <2>2. handles[Root][p] = 0
    BY <1>5, <1>9
  <2>3. LifeTypeOK'
    BY <1>2, <1>3, <1>6, <1>7, <2>1 DEF LifeTypeOK, Lives!Ended
  <2>4. Lives!InUseExist'
    BY <1>2, <1>6, <2>1 DEF Lives!InUseExist
  <2>5. \A q \in Process \ {p} : refs'[q] = refs[q] /\ Own(q)' = Own(q)
    BY <1>2, <2>1 DEF Own, Lives!Ended, LifeTypeOK
  <2>6. refs'[p] = 1 /\ Own(p)' = 1 /\ handles'[Root][p] = 0
    BY <1>2, <1>3, <2>1, <2>2 DEF Own, LifeTypeOK
  <2>7. /\ a = p /\ life'[p] = "ending" /\ \A q \in Process : life'[q] = "ending" => q = p
        /\ \A q, r \in Process : handles'[q][r] = 0
        /\ \A q \in Process : handles'[Root][q] = handles[Root][q]
        /\ counting[a].of = p
    BY <1>1, <1>2, <1>9, <2>1
  <2>8. exists' \subseteq exists
    BY <2>1
  <2>9. refs'[p] = Own(p)' + handles'[Root][p] /\ refs'[p] > 0
    BY <2>6
  <2>10. \A q \in Process \ {p} :
            refs'[q] = refs[q] /\ Own(q)' = Own(q) /\ handles'[Root][q] = handles[Root][q]
    BY <2>5, <2>7
  <2>11. counting' = [counting EXCEPT ![a] = Lives!Idle]
    BY <1>2
  <2>12. p \in Process /\ \A b \in Lives!Actor \ {a} : counting[b] = Lives!Idle
    BY <1>3
  <2> HIDE DEF LifeInvariant
  <2> QED BY <2>3, <2>4, <2>7, <2>8, <2>9, <2>10, <2>11, <2>12, LifeCount
<1>10. CASE refs[p] # 0
  <2>1. UNCHANGED <<refs, exists, collectable>>
    BY <1>2, <1>10
  <2>2. LifeTypeOK'
    BY <1>2, <1>6, <1>7, <2>1 DEF LifeTypeOK, Lives!Ended
  <2>3. Lives!InUseExist'
    BY <1>2, <1>6, <2>1 DEF Lives!InUseExist
  <2>4. \A q \in Process : Own(q)' = Own(q)
    BY <1>2, <2>1 DEF Own, Lives!Ended
  <2>5. refs'[p] = Own(p)' + handles'[Root][p] /\ refs'[p] > 0
    BY <1>2, <1>3, <1>5, <1>10, <2>1, <2>4
  <2> QED BY <1>1, <1>2, <1>3, <2>1, <2>2, <2>3, <2>4, <2>5, LifeCount
<1> QED BY <1>8, <1>9, <1>10

(* What a step of the invariant says: an object counts zero only while      *)
(* whoever brought it there is about to test it.                            *)
LEMMA LifeForgetsNothing ==
  ASSUME LifeAssumption, LifeInvariant
  PROVE  Lives!NothingForgotten
<1> SUFFICES ASSUME NEW p \in exists, refs[p] = 0
             PROVE  \E a \in Lives!Actor : counting[a] # Lives!Idle /\ counting[a].of = p
                                            /\ counting[a].at = "test"
  BY DEF Lives!NothingForgotten
<1> USE DEF LifeInvariant
<1>1. PICK a \in Lives!Actor : Counts(a, p)
  BY SMT
<1>2. /\ counting[a] # Lives!Idle /\ counting[a].of = p /\ CountRight(a)
      /\ counting[a] \in [at : {"load", "store", "test"}, kind : {"inc", "dec"},
                           of : Process, n : Int]
  BY <1>1 DEF Counts, LifeTypeOK
<1>3. p \in Process /\ Own(p) \in {0, 1} /\ handles[Root][p] \in Nat
  BY DEF LifeTypeOK, Own, LifeAssumption, Lives!ProcessLifeAssumption, Lives!Actor
<1>4. counting[a].at = "test"
  <2> SUFFICES ASSUME counting[a].at # "test" PROVE FALSE
    OBVIOUS
  <2>1. /\ counting[a].kind = "inc" => handles[Root][p] >= 2
        /\ 0 = Own(p) + handles[Root][p] + (IF counting[a].kind = "inc" THEN -1 ELSE 1)
    BY <1>2 DEF CountRight
  <2> QED BY <1>3, <2>1
<1> QED BY <1>2, <1>4

LivesSafe == Lives!InUseExist /\ Lives!NothingForgotten

(* Where only sc_main copies and drops handles: an object that a handle, a  *)
(* count or a thread on its way out still uses is not deleted, and one to   *)
(* which nothing refers any more is deleted or put aside.                   *)
THEOREM LivesSafeHolds ==
  ASSUME Lives!ProcessLifeAssumption, MainHolds
  PROVE  Lives!Spec => []LivesSafe
<1>0. LifeAssumption
  BY DEF LifeAssumption
<1>1. Lives!Init => LifeInvariant
  BY <1>0, LifeInit
<1>2. LifeInvariant /\ [Lives!Next]_(Lives!vars) => LifeInvariant'
  <2> SUFFICES ASSUME LifeInvariant, [Lives!Next]_(Lives!vars) PROVE LifeInvariant'
    OBVIOUS
  <2>1. CASE UNCHANGED Lives!vars
    <3>1. UNCHANGED <<life, refs, handles, exists, collectable, counting>>
      BY <2>1 DEF Lives!vars
    <3>2. LifeTypeOK' /\ CountsAlone' /\ Lives!InUseExist'
      BY <3>1 DEF LifeInvariant, LifeTypeOK, CountsAlone, Lives!Ended, Lives!InUseExist
    <3>3. /\ \A q \in Process : Own(q)' = Own(q)
          /\ \A a \in Lives!Actor : \A q \in Process : Counts(a, q)' <=> Counts(a, q)
      BY <3>1 DEF Own, Counts, Lives!Ended
    <3>4. \A a \in Lives!Actor : CountRight(a) => CountRight(a)'
      BY <3>1 DEF CountRight, Own, Lives!Ended
    <3>5. exists \subseteq Process
      BY DEF LifeInvariant, LifeTypeOK
    <3> QED BY <3>1, <3>2, <3>3, <3>4, <3>5 DEF LifeInvariant
  <2>2. ASSUME NEW p \in Process, Lives!Wake(p) \/ Lives!Wait(p) \/ Lives!Sleep(p)
        PROVE  LifeInvariant'
    BY <1>0, <2>2, LifeMove
  <2>3. ASSUME NEW p \in Process, Lives!Ends(p) PROVE LifeInvariant'
    BY <1>0, <2>3, LifeEnds
  <2>4. ASSUME NEW a \in Lives!Actor, NEW p \in Process, Lives!Copy(a, p) \/ Lives!Drop(a, p)
        PROVE  LifeInvariant'
    BY <1>0, <2>4, LifeHandle
  <2>5. ASSUME NEW a \in Lives!Actor, Lives!Load(a) \/ Lives!Store(a) PROVE LifeInvariant'
    BY <1>0, <2>5, LifeLoadStore
  <2>6. ASSUME NEW a \in Lives!Actor, Lives!Test(a) PROVE LifeInvariant'
    BY <1>0, <2>6, LifeTest
  <2> QED BY <2>1, <2>2, <2>3, <2>4, <2>5, <2>6 DEF Lives!Next
<1>3. LifeInvariant => LivesSafe
  BY <1>0, LifeForgetsNothing DEF LivesSafe, LifeInvariant
<1> QED BY <1>1, <1>2, <1>3, PTL DEF Lives!Spec
=============================================================================
