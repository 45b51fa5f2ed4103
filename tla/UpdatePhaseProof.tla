--------------------------- MODULE UpdatePhaseProof ---------------------------
(***************************************************************************)
(* Proofs about UpdatePhase for any number of processes and channels, with  *)
(* any policies and with requests from outside the simulator.               *)
(*                                                                         *)
(* The invariant says where everybody can be (PlacesOK), which mutexes a    *)
(* process owns there and what is on its stack (LocksOK), that the update   *)
(* list is a list (ListOK: every channel on it has a rank, counted from the *)
(* end), and who has written (PoliciesOK).  The mutexes are what keeps the  *)
(* list in one piece: between the two assignments of request_update nobody  *)
(* else is in the registry.  From the list and NoLostWrite follows that no  *)
(* value is left when perform_update reaches list_end, which is all that    *)
(* the refinement of SignalSpec needs.                                      *)
(***************************************************************************)
EXTENDS UpdatePhase, FiniteSetTheorems, WellFoundedInduction, TLAPS

(* Who executes the update phase, and where the others are meanwhile.       *)
InWrite(a) == at[a] \in {"write", "compare", "enlist", "link", "publish"}
Updates(a) == at[a] \in {"update", "pending", "accept", "walk", "enlist", "link", "publish"}

PlacesOK ==
    /\ Root \in running => running = {Root}
    /\ \A a \in running : at[a] = "user" \/ InWrite(a)
    /\ \A a \in Actor \ running : at[a] = "user" \/ (running = {} /\ Updates(a))
    /\ \A a, b \in Actor \ running : Updates(a) /\ Updates(b) => a = b
    /\ \A a \in Actor : InWrite(a) => arg[a].chan \in Channel

(* The mutexes that a process owns where it is, and its stack of locks.     *)
Stack(p) ==
    LET c == arg[p].chan
    IN  CASE at[p] \in {"pending", "accept", "walk"} -> <<Registry>>
          [] at[p] = "compare" -> <<c>>
          [] at[p] = "enlist" -> IF p \in running THEN <<c, c>> ELSE <<Registry, c>>
          [] at[p] \in {"link", "publish"} -> <<c, c, Registry>>
          [] OTHER -> <<>>

Owned(p) ==
    CASE at[p] \in {"pending", "accept", "walk"} -> {Registry}
      [] at[p] = "compare" -> {arg[p].chan}
      [] at[p] = "enlist" -> IF p \in running THEN {arg[p].chan} ELSE {Registry, arg[p].chan}
      [] at[p] \in {"link", "publish"} -> {arg[p].chan, Registry}
      [] OTHER -> {}

LocksOK ==
    /\ \A p \in Process : acq[p] = Stack(p)
    /\ \A l \in Lock, p \in Process : owner[l] = p <=> l \in Owned(p)
    /\ \A p \in Process : at[p] \in {"link", "publish"} => p \in running

-----------------------------------------------------------------------------
First == IF Walking THEN now ELSE head

(* rank[c] is the place of c on the list, counted from its end; n places.   *)
IsList(rank, n) ==
    LET L == {c \in Channel : rank[c] # 0}
    IN  /\ First = End <=> n = 0
        /\ n # 0 => First \in Channel /\ rank[First] = n
        /\ \A c \in L : /\ rank[c] <= n
                        /\ rank[c] = 1 => next[c] = End
                        /\ rank[c] > 1 => next[c] \in Channel /\ rank[next[c]] = rank[c] - 1
        /\ \A c, d \in L : rank[c] = rank[d] => c = d
        /\ L \cup InHand = {c \in Channel : next[c] # None}
        /\ L \cap InHand = {}

ListOK ==
    /\ \E rank \in [Channel -> Nat], n \in Nat : IsList(rank, n)
    /\ \A a \in Actor : at[a] = "publish" => next[arg[a].chan] = head
    /\ \A a \in Actor : at[a] \in {"enlist", "link"} => next[arg[a].chan] = None
    /\ Walking => head = End
    /\ ~Walking => now = End

PoliciesOK ==
    \A c \in Channel : \A w \in wrote[c] :
        /\ w[2] /\ Policy[c] # "unchecked" => \A u \in wrote[c] : u[2] => u[1] = w[1]
        /\ running # {} /\ w[2] /\ Policy[c] # "unchecked" => writer[c] = w[1]

UpdateInvariant ==
    TypeOK /\ PlacesOK /\ LocksOK /\ ListOK /\ NoLostWrite /\ PoliciesOK /\ OneWriter

-----------------------------------------------------------------------------
(* Type correctness.                                                        *)

(* What the scoped locks do to their variables.                             *)
LEMMA LocksType ==
    ASSUME UpdatePhaseAssumption, TypeOK, NEW a \in Actor, NEW l \in Lock, NEW n \in Nat,
           LockAndPush(a, l) \/ PopAndUnlock(a, n)
    PROVE  owner' \in [Lock -> Process \cup {None}] /\ acq' \in [Process -> Seq(Lock)]
<1>0. owner \in [Lock -> Process \cup {None}] /\ acq \in [Process -> Seq(Lock)]
    BY DEF TypeOK
<1>1. CASE a = Root
    BY <1>0, <1>1 DEF LockAndPush, PopAndUnlock, locks
<1>2. CASE a # Root /\ LockAndPush(a, l)
  <2>1. a \in Process
      BY <1>2 DEF Actor
  <2>2. owner' = owner \/ owner' = [owner EXCEPT ![l] = a]
      BY <1>2 DEF LockAndPush
  <2>3. acq' = [acq EXCEPT ![a] = Append(@, l)]
      BY <1>2 DEF LockAndPush
  <2>4. Append(acq[a], l) \in Seq(Lock)
      BY <1>0, <2>1
  <2> QED BY <1>0, <2>1, <2>2, <2>3, <2>4
<1>3. CASE a # Root /\ PopAndUnlock(a, n)
  <2> DEFINE left == SubSeq(acq[a], 1, Len(acq[a]) - n)
  <2> DEFINE held == {left[i] : i \in DOMAIN left}
  <2>1. a \in Process
      BY <1>3 DEF Actor
  <2>2. acq' = [acq EXCEPT ![a] = left]
      BY <1>3 DEF PopAndUnlock
  <2>3. left \in Seq(Lock)
    <3>1. acq[a] \in Seq(Lock) /\ Len(acq[a]) \in Nat
        BY <1>0, <2>1
    <3>2. \A i \in 1..(Len(acq[a]) - n) : acq[a][i] \in Lock
        BY <3>1
    <3> QED BY <3>1, <3>2
  <2>4. owner' = [k \in Lock |-> IF owner[k] = a /\ k \notin held THEN None ELSE owner[k]]
      BY <1>3 DEF PopAndUnlock
  <2> HIDE DEF left, held
  <2>5. owner' \in [Lock -> Process \cup {None}]
      BY <1>0, <2>4
  <2> QED BY <1>0, <2>1, <2>2, <2>3, <2>5
<1> QED BY <1>1, <1>2, <1>3

(* TypeOK is kept by the steps of a write.                                  *)
LEMMA TypeWrite ==
    ASSUME UpdatePhaseAssumption, TypeOK, PlacesOK, NEW a \in Actor, WriteStep(a)
    PROVE  TypeOK'
<1> USE DEF TypeOK, signals, list, async, locks, history, Goto, Places
<1>0. /\ Null \in [chan : Channel \cup {None}, val : Value]
      /\ at[a] \in {"write", "compare", "enlist", "link", "publish"} =>
            arg[a].chan \in Channel /\ arg[a].chan \in Lock /\ arg[a].val \in Value
      /\ Registry \in Lock
    BY DEF Null, UpdatePhaseAssumption, PlacesOK, InWrite, Lock
<1>1. CASE Enter(a)
  <2>1. owner' \in [Lock -> Process \cup {None}] /\ acq' \in [Process -> Seq(Lock)]
      BY <1>0, <1>1, LocksType DEF Enter
  <2> QED BY <1>1, <2>1 DEF Enter
<1>2. CASE Reject(a)
  <2>1. owner' \in [Lock -> Process \cup {None}] /\ acq' \in [Process -> Seq(Lock)]
      BY <1>0, <1>2, LocksType DEF Reject
  <2> QED BY <1>0, <1>2, <2>1 DEF Reject
<1>3. CASE Store(a)
  <2> DEFINE c == arg[a].chan
  <2> DEFINE v == arg[a].val
  <2>1. c \in Channel /\ v \in Value /\ c \in Lock
      BY <1>0, <1>3 DEF Store
  <2>2. owner' \in [Lock -> Process \cup {None}] /\ acq' \in [Process -> Seq(Lock)]
      BY <1>3, <2>1, LocksType DEF Store
  <2>3. writer' \in [Channel -> Process \cup {None}]
    <3>1. Me(a) \in Process \cup {None}
        BY DEF Me, Actor
    <3> QED BY <1>3, <2>1, <3>1 DEF Store
  <2>4. new' \in [Channel -> Value]
      BY <1>3, <2>1 DEF Store
  <2>5. wrote' \in [Channel -> SUBSET (Process \X BOOLEAN)]
    <3>1. Changes(c, v) \in BOOLEAN
        BY DEF Changes
    <3>2. CASE a = Root
        BY <1>3, <3>2 DEF Store
    <3>3. CASE a # Root
      <4>1. wrote' = [wrote EXCEPT ![c] = @ \cup {<<a, Changes(c, v)>>}] /\ a \in Process
          BY <1>3, <3>3 DEF Store, Actor
      <4> QED BY <2>1, <3>1, <4>1
    <3> QED BY <3>2, <3>3
  <2>6. arg' \in [Actor -> [chan : Channel \cup {None}, val : Value]] /\ at' \in [Actor -> Places]
      BY <1>0, <1>3 DEF Store
  <2> QED BY <1>3, <2>2, <2>3, <2>4, <2>5, <2>6 DEF Store
<1>4. CASE Enlist(a)
  <2>1. owner' \in [Lock -> Process \cup {None}] /\ acq' \in [Process -> Seq(Lock)]
      BY <1>0, <1>4, LocksType DEF Enlist
  <2> QED BY <1>4, <2>1 DEF Enlist
<1>5. CASE Link(a)
    BY <1>0, <1>5 DEF Link
<1>6. CASE Publish(a)
  <2>1. owner' \in [Lock -> Process \cup {None}] /\ acq' \in [Process -> Seq(Lock)]
      BY <1>0, <1>6, LocksType DEF Publish
  <2>2. arg' \in [Actor -> [chan : Channel \cup {None}, val : Value]] /\ at' \in [Actor -> Places]
      BY <1>0, <1>6 DEF Publish
  <2> QED BY <1>0, <1>6, <2>1, <2>2 DEF Publish
<1> QED BY <1>1, <1>2, <1>3, <1>4, <1>5, <1>6 DEF WriteStep

(* TypeOK is kept by the steps of the update phase.                         *)
LEMMA TypeUpdate ==
    ASSUME UpdatePhaseAssumption, TypeOK, PlacesOK, ListOK, NEW a \in Actor, UpdateStep(a)
    PROVE  TypeOK'
<1> USE DEF TypeOK, signals, list, async, locks, history, Goto, Places
<1>0. Registry \in Lock /\ Channel \subseteq Lock
    BY DEF Lock
<1>1. CASE BeginUpdate(a)
  <2>1. owner' \in [Lock -> Process \cup {None}] /\ acq' \in [Process -> Seq(Lock)]
      BY <1>0, <1>1, LocksType DEF BeginUpdate
  <2> QED BY <1>1, <2>1 DEF BeginUpdate
<1>2. CASE AcceptUpdates(a)
    BY <1>2 DEF AcceptUpdates
<1>3. CASE AcceptOne(a)
  <2>1. Head(pop) \in Channel /\ Tail(pop) \in Seq(Channel)
      BY <1>3 DEF AcceptOne
  <2>2. owner' \in [Lock -> Process \cup {None}] /\ acq' \in [Process -> Seq(Lock)]
      BY <1>0, <1>3, <2>1, LocksType DEF AcceptOne
  <2>3. arg' \in [Actor -> [chan : Channel \cup {None}, val : Value]] /\ at' \in [Actor -> Places]
    <3>1. arg' = arg \/ arg' = [arg EXCEPT ![a].chan = Head(pop)]
        BY <1>3 DEF AcceptOne
    <3>2. at' \in [Actor -> Places]
        BY <1>3 DEF AcceptOne
    <3>3. [arg EXCEPT ![a].chan = Head(pop)] \in [Actor -> [chan : Channel \cup {None}, val : Value]]
      <4>1. [arg[a] EXCEPT !.chan = Head(pop)] \in [chan : Channel \cup {None}, val : Value]
          BY <2>1
      <4> QED BY <4>1
    <3> QED BY <3>1, <3>2, <3>3
  <2> QED BY <1>3, <2>1, <2>2, <2>3 DEF AcceptOne
<1>4. CASE BeginWalk(a)
    BY <1>4 DEF BeginWalk, NewHead
<1>5. CASE UpdateOne(a)
  <2>1. now \in Channel
      BY <1>5 DEF UpdateOne
  <2>2. /\ writer' = [writer EXCEPT ![now] = Forget(now)] /\ Forget(now) \in Process \cup {None}
        /\ cur' = [cur EXCEPT ![now] = new[now]]
        /\ next' = [next EXCEPT ![now] = None]
        /\ stamp' = [stamp EXCEPT ![now] = 0] \/ stamp' = stamp
        /\ fresh' \subseteq Channel /\ asked' \subseteq Channel
        /\ UNCHANGED <<running, at, arg, new, head, push, pop, locks, wrote>>
    <3>1. stamp' = [stamp EXCEPT ![now] =
                      IF now \in Buffer \/ new[now] # cur[now] THEN change_stamp ELSE @]
        BY <1>5 DEF UpdateOne
    <3> QED BY <1>5, <2>1, <3>1 DEF UpdateOne, Forget, Mark, change_stamp
  <2>3. now' \in Channel \cup {End}
    <3>1. next[now] # None
      <4>1. PICK rank \in [Channel -> Nat], n \in Nat : IsList(rank, n)
          BY DEF ListOK
      <4>2. First = now /\ now # End
          BY <1>5 DEF First, Walking, UpdateOne
      <4>3. rank[now] # 0
          BY <2>1, <4>1, <4>2 DEF IsList
      <4> QED BY <2>1, <4>1, <4>3 DEF IsList
    <3> QED BY <1>5, <2>1, <3>1 DEF UpdateOne
  <2>4. /\ cur' \in [Channel -> Value] /\ new' \in [Channel -> Value]
        /\ writer' \in [Channel -> Process \cup {None}]
        /\ stamp' \in [Channel -> Nat \cup {None}]
        /\ next' \in [Channel -> Channel \cup {None, End}]
      BY <2>1, <2>2
  <2>5. UNCHANGED <<running, at, arg, owner, acq, head, push, pop, wrote>>
      BY <2>2
  <2> QED BY <2>2, <2>3, <2>4, <2>5
<1>6. CASE EndUpdate(a)
  <2>1. owner' \in [Lock -> Process \cup {None}] /\ acq' \in [Process -> Seq(Lock)]
      BY <1>0, <1>6, LocksType DEF EndUpdate
  <2>2. running' \subseteq Actor
      BY <1>6 DEF EndUpdate, Actor
  <2> QED BY <1>6, <2>1, <2>2 DEF EndUpdate
<1> QED BY <1>1, <1>2, <1>3, <1>4, <1>5, <1>6 DEF UpdateStep

(* TypeOK is kept by every step.                                            *)
LEMMA TypeStep ==
    ASSUME UpdatePhaseAssumption, TypeOK, PlacesOK, ListOK, [Next]_vars
    PROVE  TypeOK'
<1> USE DEF TypeOK, signals, list, async, locks, history
<1>1. ASSUME NEW a \in Actor, NEW c \in Channel, NEW v \in Value, Call(a, c, v) PROVE TypeOK'
  <2>1. arg' \in [Actor -> [chan : Channel \cup {None}, val : Value]] /\ at' \in [Actor -> Places]
      BY <1>1 DEF Call, Goto, Places
  <2> QED BY <1>1, <2>1 DEF Call
<1>2. ASSUME NEW a \in Actor, Suspend(a) PROVE TypeOK'
  <2>1. at' \in [Actor -> Places]
      BY <1>2 DEF Suspend, Goto, Places
  <2> QED BY <1>2, <2>1 DEF Suspend
<1>3. ASSUME NEW x \in External, NEW c \in Channel, AsyncRequest(x, c) PROVE TypeOK'
    BY <1>3 DEF AsyncRequest
<1>4. CASE UNCHANGED vars
    BY <1>4 DEF vars
<1> QED BY <1>1, <1>2, <1>3, <1>4, TypeWrite, TypeUpdate DEF Next

-----------------------------------------------------------------------------
(* The places of the processes.                                             *)

(* A step of a write leaves the process in it, or ends it: in the update    *)
(* phase it goes on with the queue of requests.                             *)
LEMMA WritePlaces ==
    ASSUME TypeOK, PlacesOK, NEW a \in Actor, WriteStep(a)
    PROVE  /\ running' = running
           /\ at' = [at EXCEPT ![a] = at'[a]]
           /\ InWrite(a)
           /\ a \in running => at'[a] \in {"user", "compare", "enlist", "link", "publish"}
           /\ a \notin running => at[a] \in {"enlist", "link", "publish"}
                                  /\ at'[a] \in {"link", "publish", "accept"}
           /\ \A b \in Actor \ {a} : arg'[b] = arg[b]
           /\ InWrite(a)' => arg'[a] = arg[a]
<1> USE DEF TypeOK, Goto, Places
<1>0. a \notin running => at[a] = "user" \/ Updates(a)
    BY DEF PlacesOK
<1>1. CASE Enter(a)
    BY <1>0, <1>1 DEF Enter, InWrite, Updates
<1>2. CASE Reject(a)
    BY <1>0, <1>2 DEF Reject, InWrite, Updates
<1>3. CASE Store(a)
    BY <1>0, <1>3 DEF Store, InWrite, Updates
<1>4. CASE Enlist(a)
    BY <1>0, <1>4 DEF Enlist, InWrite, Updates
<1>5. CASE Link(a)
    BY <1>0, <1>5 DEF Link, InWrite, Updates
<1>6. CASE Publish(a)
    BY <1>0, <1>6 DEF Publish, InWrite, Updates
<1> QED BY <1>1, <1>2, <1>3, <1>4, <1>5, <1>6 DEF WriteStep

(* So does a step of the update phase, of which nobody runs any more.       *)
LEMMA UpdatePlaces ==
    ASSUME TypeOK, PlacesOK, NEW a \in Actor, UpdateStep(a)
    PROVE  /\ running = {} /\ a \notin running /\ Updates(a)
           /\ \A b \in Actor \ {a} : at[b] = "user"
           /\ at' = [at EXCEPT ![a] = at'[a]]
           /\ \A b \in Actor \ {a} : arg'[b] = arg[b]
<1>1. at[a] \in {"update", "pending", "accept", "walk"}
    BY DEF UpdateStep, BeginUpdate, AcceptUpdates, AcceptOne, BeginWalk, UpdateOne, EndUpdate
<1>2. a \notin running /\ running = {} /\ Updates(a)
    BY <1>1 DEF PlacesOK, InWrite, Updates
<1>3. \A b \in Actor \ {a} : at[b] = "user"
    BY <1>2 DEF PlacesOK
<1>4. at' = [at EXCEPT ![a] = at'[a]]
    BY DEF UpdateStep, BeginUpdate, AcceptUpdates, AcceptOne, BeginWalk, UpdateOne, EndUpdate, Goto, TypeOK
<1>5. \A b \in Actor \ {a} : arg'[b] = arg[b]
    BY DEF UpdateStep, BeginUpdate, AcceptUpdates, AcceptOne, BeginWalk, UpdateOne, EndUpdate, TypeOK
<1> QED BY <1>2, <1>3, <1>4, <1>5

(* PlacesOK is kept by every step.                                          *)
LEMMA PlacesStep ==
    ASSUME UpdatePhaseAssumption, TypeOK, PlacesOK, [Next]_vars
    PROVE  PlacesOK'
<1>0. at \in [Actor -> Places] /\ running \subseteq Actor
    BY DEF TypeOK
<1>1. ASSUME NEW a \in Actor, NEW c \in Channel, NEW v \in Value, Call(a, c, v) PROVE PlacesOK'
  <2>1. /\ a \in running /\ running' = running /\ at' = [at EXCEPT ![a] = "write"]
        /\ arg' = [arg EXCEPT ![a] = [chan |-> c, val |-> v]]
      BY <1>1 DEF Call, Goto
  <2> QED BY <1>0, <2>1 DEF PlacesOK, InWrite, Updates, TypeOK
<1>2. ASSUME NEW a \in Actor, Suspend(a) PROVE PlacesOK'
  <2>1. /\ a \in running /\ at[a] = "user" /\ running' = running \ {a} /\ arg' = arg
        /\ at' = [at EXCEPT ![a] = IF running = {a} THEN "update" ELSE "user"]
      BY <1>2 DEF Suspend, Goto, Last
  <2>2. \A b \in Actor \ running : at[b] = "user"
      BY <2>1 DEF PlacesOK
  <2> QED BY <1>0, <2>1, <2>2 DEF PlacesOK, InWrite, Updates
<1>3. ASSUME NEW a \in Actor, WriteStep(a) PROVE PlacesOK'
    BY <1>0, <1>3, WritePlaces DEF PlacesOK, InWrite, Updates
<1>4. ASSUME NEW a \in Actor, UpdateStep(a) PROVE PlacesOK'
  <2>1. /\ running = {} /\ \A b \in Actor \ {a} : at[b] = "user"
        /\ at' = [at EXCEPT ![a] = at'[a]] /\ \A b \in Actor \ {a} : arg'[b] = arg[b]
      BY <1>4, UpdatePlaces
  <2>2. CASE EndUpdate(a)
    <3>1. at'[a] = "user" /\ (running' \subseteq Process \/ running' = {Root})
        BY <1>0, <2>2 DEF EndUpdate, Goto
    <3>2. \A b \in Actor : at'[b] = "user"
        BY <1>0, <2>1, <3>1
    <3>3. running' \subseteq Actor /\ (Root \in running' => running' = {Root})
        BY <3>1 DEF UpdatePhaseAssumption, Actor
    <3> QED BY <3>2, <3>3 DEF PlacesOK, InWrite, Updates
  <2>3. CASE ~EndUpdate(a)
    <3>1. /\ running' = running
          /\ at'[a] \in {"pending", "accept", "walk", "enlist"}
          /\ at'[a] = "enlist" => arg'[a].chan \in Channel
        BY <1>0, <1>4, <2>3
           DEF UpdateStep, BeginUpdate, AcceptUpdates, AcceptOne, BeginWalk, UpdateOne, Goto, TypeOK
    <3>2. \A b \in Actor : InWrite(b)' => arg'[b].chan \in Channel
        BY <1>0, <2>1, <3>1 DEF InWrite
    <3>3. \A b \in Actor : at'[b] = "user" \/ (b = a /\ Updates(b)')
        BY <1>0, <2>1, <3>1 DEF Updates
    <3> QED BY <2>1, <3>1, <3>2, <3>3 DEF PlacesOK, Updates
  <2> QED BY <2>2, <2>3
<1>5. CASE UNCHANGED vars \/ \E x \in External, c \in Channel : AsyncRequest(x, c)
  <2>1. UNCHANGED <<running, at, arg>>
      BY <1>5 DEF vars, AsyncRequest
  <2> QED BY <2>1 DEF PlacesOK, InWrite, Updates
<1> QED BY <1>1, <1>2, <1>3, <1>4, <1>5 DEF Next

-----------------------------------------------------------------------------
(* The mutexes and the stacks of the scoped locks.                          *)

(* A step of a leaves the others where they are with what they own.         *)
Aside(a) ==
    \A p \in Process \ {a} :
        /\ at'[p] = at[p] /\ arg'[p] = arg[p]
        /\ (p \in running' <=> p \in running) \/ at[p] = "user"

(* No step of an actor interferes with the place or the call of another.    *)
LEMMA AsideStep ==
    ASSUME TypeOK, PlacesOK, NEW a \in Actor,
           WriteStep(a) \/ UpdateStep(a) \/ Suspend(a) \/ \E c \in Channel, v \in Value : Call(a, c, v)
    PROVE  Aside(a)
<1>0. at \in [Actor -> Places] /\ Process \subseteq Actor /\ arg \in [Actor -> [chan : Channel \cup {None}, val : Value]]
    BY DEF TypeOK, Actor
<1>1. CASE WriteStep(a)
    BY <1>0, <1>1, WritePlaces DEF Aside
<1>2. CASE UpdateStep(a)
    BY <1>0, <1>2, UpdatePlaces DEF Aside
<1>3. CASE Suspend(a)
    BY <1>0, <1>3 DEF Aside, Suspend, Goto
<1>4. ASSUME NEW c \in Channel, NEW v \in Value, Call(a, c, v) PROVE Aside(a)
    BY <1>0, <1>4 DEF Aside, Call, Goto
<1> QED BY <1>1, <1>2, <1>3, <1>4

(* So their part of LocksOK is that of the variables of the locks.          *)
LEMMA AsideLocks ==
    ASSUME LocksOK, NEW a \in Actor, Aside(a), NEW p \in Process, p # a
    PROVE  /\ Stack(p)' = Stack(p) /\ Owned(p)' = Owned(p)
           /\ at'[p] \in {"link", "publish"} => p \in running'
<1>1. /\ at'[p] = at[p] /\ arg'[p] = arg[p]
      /\ (p \in running' <=> p \in running) \/ at[p] = "user"
    BY DEF Aside
<1> QED BY <1>1 DEF Stack, Owned, LocksOK

(* A step that touches no lock.                                             *)
LEMMA LocksKept ==
    ASSUME LocksOK, NEW a \in Actor, Aside(a), UNCHANGED locks,
           a \in Process => /\ Stack(a)' = Stack(a) /\ Owned(a)' = Owned(a)
                            /\ at'[a] \in {"link", "publish"} => a \in running'
    PROVE  LocksOK'
<1>1. \A p \in Process : /\ Stack(p)' = Stack(p) /\ Owned(p)' = Owned(p)
                         /\ at'[p] \in {"link", "publish"} => p \in running'
    BY AsideLocks
<1> QED BY <1>1 DEF LocksOK, locks

(* A lock that is taken, or taken again.                                    *)
LEMMA LocksTaken ==
    ASSUME UpdatePhaseAssumption, TypeOK, LocksOK, NEW a \in Process, Aside(a), NEW l \in Lock,
           LockAndPush(a, l), Stack(a)' = Append(Stack(a), l), Owned(a)' = Owned(a) \cup {l},
           Top(a) = l => l \in Owned(a), at'[a] \in {"link", "publish"} => a \in running'
    PROVE  LocksOK'
<1>0. a \in Actor /\ a # Root /\ a # None /\ owner \in [Lock -> Process \cup {None}]
      /\ acq \in [Process -> Seq(Lock)]
    BY DEF UpdatePhaseAssumption, Actor, TypeOK
<1>1. /\ acq' = [acq EXCEPT ![a] = Append(@, l)]
      /\ \/ owner' = owner /\ l \in Owned(a)
         \/ owner[l] = None /\ owner' = [owner EXCEPT ![l] = a]
    BY <1>0 DEF LockAndPush
<1>2. \A p \in Process \ {a} : /\ Stack(p)' = Stack(p) /\ Owned(p)' = Owned(p)
                               /\ at'[p] \in {"link", "publish"} => p \in running'
    BY <1>0, AsideLocks
<1>3. \A p \in Process : acq'[p] = Stack(p)'
    BY <1>0, <1>1, <1>2 DEF LocksOK
<1>4. ASSUME NEW k \in Lock, NEW p \in Process PROVE owner'[k] = p <=> k \in Owned(p)'
  <2>1. owner[k] = p <=> k \in Owned(p)
      BY DEF LocksOK
  <2>2. CASE p = a
      BY <1>0, <1>1, <2>1, <2>2
  <2>3. CASE p # a
    <3>1. Owned(p)' = Owned(p) /\ p # None
        BY <1>2, <2>3 DEF UpdatePhaseAssumption
    <3> QED BY <1>0, <1>1, <2>1, <2>3, <3>1
  <2> QED BY <2>2, <2>3
<1> QED BY <1>2, <1>3, <1>4 DEF LocksOK

(* All the locks of a process are released.                                 *)
LEMMA LocksReleased ==
    ASSUME UpdatePhaseAssumption, TypeOK, LocksOK, NEW a \in Process, Aside(a), NEW n \in Nat,
           n = Len(Stack(a)), PopAndUnlock(a, n), Stack(a)' = <<>>, Owned(a)' = {}, at'[a] = "user"
    PROVE  LocksOK'
<1>0. a \in Actor /\ a # Root /\ a # None /\ owner \in [Lock -> Process \cup {None}]
      /\ acq \in [Process -> Seq(Lock)] /\ acq[a] = Stack(a)
    BY DEF UpdatePhaseAssumption, Actor, TypeOK, LocksOK
<1> DEFINE left == SubSeq(acq[a], 1, Len(acq[a]) - n)
<1>1. left = <<>> /\ {left[i] : i \in DOMAIN left} = {}
    BY <1>0
<1>2. /\ acq' = [acq EXCEPT ![a] = left]
      /\ owner' = [k \in Lock |-> IF owner[k] = a /\ k \notin {left[i] : i \in DOMAIN left}
                                 THEN None ELSE owner[k]]
    BY <1>0 DEF PopAndUnlock
<1> HIDE DEF left
<1>3. /\ acq' = [acq EXCEPT ![a] = <<>>]
      /\ owner' = [k \in Lock |-> IF owner[k] = a THEN None ELSE owner[k]]
    BY <1>1, <1>2
<1>4. \A p \in Process \ {a} : /\ Stack(p)' = Stack(p) /\ Owned(p)' = Owned(p)
                               /\ at'[p] \in {"link", "publish"} => p \in running'
    BY <1>0, AsideLocks
<1>5. \A p \in Process : acq'[p] = Stack(p)'
    BY <1>0, <1>3, <1>4 DEF LocksOK
<1>6. ASSUME NEW k \in Lock, NEW p \in Process PROVE owner'[k] = p <=> k \in Owned(p)'
  <2>1. (owner[k] = p <=> k \in Owned(p)) /\ p # None
      BY DEF LocksOK, UpdatePhaseAssumption
  <2> QED BY <1>0, <1>3, <1>4, <2>1
<1> QED BY <1>4, <1>5, <1>6 DEF LocksOK

(* sc_main touches no lock.                                                 *)
LEMMA RootLocks ==
    ASSUME UpdatePhaseAssumption, TypeOK, PlacesOK, LocksOK, WriteStep(Root) \/ UpdateStep(Root)
    PROVE  LocksOK'
<1>1. UNCHANGED locks
    BY DEF WriteStep, UpdateStep, Enter, Reject, Store, Enlist, Link, Publish, BeginUpdate,
           AcceptUpdates, AcceptOne, BeginWalk, UpdateOne, EndUpdate, LockAndPush, PopAndUnlock
<1>2. Root \in Actor /\ Root \notin Process
    BY DEF Actor, UpdatePhaseAssumption
<1> QED BY <1>1, <1>2, AsideStep, LocksKept

(* LocksOK is kept by the steps of a write.                                 *)
LEMMA LocksWrite ==
    ASSUME UpdatePhaseAssumption, TypeOK, PlacesOK, LocksOK, NEW a \in Process, WriteStep(a)
    PROVE  LocksOK'
<1> DEFINE c == arg[a].chan
<1>0. /\ a \in Actor /\ a # Root /\ Aside(a) /\ running' = running
      /\ c \in Channel /\ c \in Lock /\ Registry \in Lock /\ c # Registry
      /\ at \in [Actor -> Places] /\ arg \in [Actor -> [chan : Channel \cup {None}, val : Value]]
      /\ acq[a] = Stack(a)
      /\ at'[a] # "user" /\ at'[a] # "accept" => arg'[a] = arg[a]
      /\ a \notin running => at[a] \in {"enlist", "link", "publish"}
  <2>1. a \in Actor /\ a # Root
      BY DEF Actor, UpdatePhaseAssumption
  <2>2. InWrite(a) /\ running' = running /\ (InWrite(a)' => arg'[a] = arg[a])
        /\ (at'[a] \in {"user", "compare", "enlist", "link", "publish", "accept"})
        /\ (a \notin running => at[a] \in {"enlist", "link", "publish"})
      BY <2>1, WritePlaces
  <2>3. c \in Channel /\ c # Registry
      BY <2>1, <2>2 DEF PlacesOK, UpdatePhaseAssumption
  <2> QED BY <2>1, <2>2, <2>3, AsideStep DEF TypeOK, Lock, LocksOK, InWrite
<1> USE DEF Goto
<1>1. CASE Enter(a)
  <2>1. at[a] = "write" /\ at'[a] = "compare" /\ LockAndPush(a, c) /\ a \in running
      BY <1>0, <1>1 DEF Enter
  <2>2. Stack(a) = <<>> /\ Stack(a)' = <<c>> /\ Owned(a) = {} /\ Owned(a)' = {c}
      BY <1>0, <2>1 DEF Stack, Owned
  <2>3. Top(a) = None /\ c # None
      BY <1>0, <2>2 DEF Top, UpdatePhaseAssumption
  <2>4. Stack(a)' = Append(Stack(a), c) /\ Owned(a)' = Owned(a) \cup {c}
      BY <2>2
  <2> QED BY <1>0, <2>1, <2>3, <2>4, LocksTaken
<1>2. CASE Reject(a)
  <2>1. at[a] = "compare" /\ at'[a] = "user" /\ PopAndUnlock(a, 1)
      BY <1>0, <1>2 DEF Reject
  <2>2. Len(Stack(a)) = 1 /\ Stack(a)' = <<>> /\ Owned(a)' = {}
      BY <2>1 DEF Stack, Owned
  <2> QED BY <1>0, <2>1, <2>2, LocksReleased
<1>3. CASE Store(a)
  <2>1. at[a] = "compare" /\ a \in running
      BY <1>0, <1>3 DEF Store
  <2>2. Stack(a) = <<c>> /\ Owned(a) = {c}
      BY <2>1 DEF Stack, Owned
  <2>3. CASE LockAndPush(a, c) /\ at'[a] = "enlist"
    <3>1. Stack(a)' = <<c, c>> /\ Owned(a)' = {c}
        BY <1>0, <2>1, <2>3 DEF Stack, Owned
    <3>2. Stack(a)' = Append(Stack(a), c) /\ Owned(a)' = Owned(a) \cup {c}
        BY <2>2, <3>1
    <3> QED BY <1>0, <2>2, <2>3, <3>2, LocksTaken
  <2>4. CASE PopAndUnlock(a, 1) /\ at'[a] = "user"
    <3>1. Len(Stack(a)) = 1 /\ Stack(a)' = <<>> /\ Owned(a)' = {}
        BY <2>2, <2>4 DEF Stack, Owned
    <3> QED BY <1>0, <2>4, <3>1, LocksReleased
  <2> QED BY <1>0, <1>3, <2>3, <2>4 DEF Store
<1>4. CASE Enlist(a)
  <2>1. at[a] = "enlist" /\ at'[a] = "link" /\ LockAndPush(a, Registry)
      BY <1>0, <1>4 DEF Enlist
  <2>2. CASE a \in running
    <3>1. Stack(a) = <<c, c>> /\ Owned(a) = {c}
        BY <2>1, <2>2 DEF Stack, Owned
    <3>2. Stack(a)' = <<c, c, Registry>> /\ Owned(a)' = {c, Registry}
        BY <1>0, <2>1 DEF Stack, Owned
    <3>3. Top(a) = c
        BY <1>0, <3>1 DEF Top
    <3>4. Stack(a)' = Append(Stack(a), Registry) /\ Owned(a)' = Owned(a) \cup {Registry}
        BY <3>1, <3>2
    <3> QED BY <1>0, <2>1, <2>2, <3>3, <3>4, LocksTaken
  <2>3. CASE a \notin running
    <3>1. Stack(a) = <<Registry, c>> /\ Registry \in Owned(a)
        BY <2>1, <2>3 DEF Stack, Owned
    <3>2. owner[Registry] = a /\ a # None
        BY <1>0, <3>1 DEF LocksOK, UpdatePhaseAssumption
    <3>3. Top(a) = c
        BY <1>0, <3>1 DEF Top
    <3> QED BY <1>0, <2>1, <3>2, <3>3 DEF LockAndPush
  <2> QED BY <2>2, <2>3
<1>5. CASE Link(a)
  <2>1. at[a] = "link" /\ at'[a] = "publish" /\ UNCHANGED locks /\ a \in running
      BY <1>0, <1>5 DEF Link, LocksOK
  <2>2. Stack(a)' = Stack(a) /\ Owned(a)' = Owned(a)
      BY <1>0, <2>1 DEF Stack, Owned
  <2> QED BY <1>0, <2>1, <2>2, LocksKept
<1>6. CASE Publish(a)
  <2>1. at[a] = "publish" /\ a \in running
      BY <1>6 DEF Publish, LocksOK
  <2>2. at'[a] = "user" /\ PopAndUnlock(a, 3)
      BY <1>0, <1>6, <2>1 DEF Publish
  <2>3. Len(Stack(a)) = 3 /\ Stack(a)' = <<>> /\ Owned(a)' = {}
      BY <2>1, <2>2 DEF Stack, Owned
  <2> QED BY <1>0, <2>2, <2>3, LocksReleased
<1> QED BY <1>1, <1>2, <1>3, <1>4, <1>5, <1>6 DEF WriteStep

(* LocksOK is kept by the steps of the update phase.                        *)
LEMMA LocksUpdate ==
    ASSUME UpdatePhaseAssumption, TypeOK, PlacesOK, LocksOK, NEW a \in Process, UpdateStep(a)
    PROVE  LocksOK'
<1>0. /\ a \in Actor /\ a # Root /\ Aside(a) /\ a \notin running
      /\ Registry \in Lock /\ Channel \subseteq Lock /\ Registry \notin Channel
      /\ at \in [Actor -> Places] /\ arg \in [Actor -> [chan : Channel \cup {None}, val : Value]]
      /\ acq[a] = Stack(a)
  <2>1. a \in Actor /\ a # Root /\ Registry \notin Channel
      BY DEF Actor, UpdatePhaseAssumption
  <2> QED BY <2>1, AsideStep, UpdatePlaces DEF TypeOK, Lock, LocksOK
<1> USE DEF Goto
<1>1. CASE BeginUpdate(a)
  <2>1. at[a] = "update" /\ at'[a] = "pending" /\ LockAndPush(a, Registry)
      BY <1>0, <1>1 DEF BeginUpdate
  <2>2. /\ Stack(a) = <<>> /\ Stack(a)' = <<Registry>> /\ Owned(a) = {} /\ Owned(a)' = {Registry}
      BY <2>1 DEF Stack, Owned
  <2>3. Top(a) = None /\ Registry # None
      BY <1>0, <2>2 DEF Top, UpdatePhaseAssumption
  <2>4. Stack(a)' = Append(Stack(a), Registry) /\ Owned(a)' = Owned(a) \cup {Registry}
      BY <2>2
  <2> QED BY <1>0, <2>1, <2>3, <2>4, LocksTaken
<1>2. CASE AcceptUpdates(a) \/ BeginWalk(a)
  <2>1. /\ at[a] \in {"pending", "accept"} /\ at'[a] \in {"accept", "walk"}
        /\ UNCHANGED <<locks, arg>>
      BY <1>0, <1>2 DEF AcceptUpdates, BeginWalk
  <2>2. Stack(a)' = Stack(a) /\ Owned(a)' = Owned(a)
      BY <2>1 DEF Stack, Owned
  <2> QED BY <1>0, <2>1, <2>2, LocksKept
<1>3. CASE AcceptOne(a)
  <2> DEFINE c == Head(pop)
  <2>1. at[a] = "accept" /\ c \in Channel
      BY <1>3 DEF AcceptOne, TypeOK
  <2>2. CASE next[c] = None
    <3>1. LockAndPush(a, c) /\ at'[a] = "enlist" /\ arg'[a].chan = c /\ running' = running
        BY <1>0, <1>3, <2>2 DEF AcceptOne
    <3> HIDE DEF c
    <3>2. Stack(a) = <<Registry>> /\ Owned(a) = {Registry}
        BY <2>1 DEF Stack, Owned
    <3>3. Stack(a)' = <<Registry, c>> /\ Owned(a)' = {Registry, c}
        BY <1>0, <3>1 DEF Stack, Owned
    <3>4. Stack(a)' = Append(Stack(a), c) /\ Owned(a)' = Owned(a) \cup {c}
        BY <3>2, <3>3
    <3>5. Top(a) = Registry /\ c \in Lock /\ c # Registry
        BY <1>0, <2>1, <3>2 DEF Top
    <3> QED BY <1>0, <3>1, <3>4, <3>5, LocksTaken
  <2>3. CASE next[c] # None
    <3>1. UNCHANGED <<at, arg, locks>>
        BY <1>3, <2>3 DEF AcceptOne
    <3>2. Stack(a)' = Stack(a) /\ Owned(a)' = Owned(a)
        BY <2>1, <3>1 DEF Stack, Owned
    <3> QED BY <1>0, <2>1, <3>1, <3>2, LocksKept
  <2> QED BY <2>2, <2>3
<1>4. CASE UpdateOne(a)
  <2>1. at[a] = "walk" /\ UNCHANGED <<locks, arg, at>>
      BY <1>4 DEF UpdateOne
  <2>2. Stack(a)' = Stack(a) /\ Owned(a)' = Owned(a)
      BY <2>1 DEF Stack, Owned
  <2> QED BY <1>0, <2>1, <2>2, LocksKept
<1>5. CASE EndUpdate(a)
  <2>1. at[a] = "walk" /\ at'[a] = "user" /\ PopAndUnlock(a, 1)
      BY <1>0, <1>5 DEF EndUpdate
  <2>2. Len(Stack(a)) = 1 /\ Stack(a)' = <<>> /\ Owned(a)' = {}
      BY <2>1 DEF Stack, Owned
  <2> QED BY <1>0, <2>1, <2>2, LocksReleased
<1> QED BY <1>1, <1>2, <1>3, <1>4, <1>5 DEF UpdateStep

(* LocksOK is kept by every step.                                           *)
LEMMA LocksStep ==
    ASSUME UpdatePhaseAssumption, TypeOK, PlacesOK, LocksOK, [Next]_vars
    PROVE  LocksOK'
<1>1. ASSUME NEW a \in Actor, WriteStep(a) \/ UpdateStep(a) PROVE LocksOK'
    BY <1>1, RootLocks, LocksWrite, LocksUpdate DEF Actor
<1>2. ASSUME NEW a \in Actor, Suspend(a) \/ \E c \in Channel, v \in Value : Call(a, c, v)
      PROVE  LocksOK'
  <2>1. at \in [Actor -> Places] /\ Aside(a)
      BY <1>2, AsideStep DEF TypeOK
  <2>2. at[a] = "user" /\ at'[a] \in {"user", "update", "write"} /\ UNCHANGED locks
      BY <1>2, <2>1 DEF Suspend, Call, Goto
  <2>3. Stack(a)' = Stack(a) /\ Owned(a)' = Owned(a)
      BY <2>2 DEF Stack, Owned
  <2> QED BY <2>1, <2>2, <2>3, LocksKept
<1>3. CASE UNCHANGED vars \/ \E x \in External, c \in Channel : AsyncRequest(x, c)
  <2>1. UNCHANGED <<running, at, arg, owner, acq>>
      BY <1>3 DEF vars, locks, AsyncRequest
  <2> QED BY <2>1 DEF LocksOK, Stack, Owned
<1> QED BY <1>1, <1>2, <1>3 DEF Next

-----------------------------------------------------------------------------
(* The update list.                                                         *)

(* While somebody writes nobody walks the list.                             *)
LEMMA WriterDoesNotWalk ==
    ASSUME TypeOK, PlacesOK, NEW a \in Actor, InWrite(a)
    PROVE  ~Walking
<1> SUFFICES ASSUME NEW b \in Actor, at[b] = "walk" PROVE FALSE
    BY DEF Walking
<1>1. b \notin running /\ running = {} /\ Updates(b)
    BY DEF PlacesOK, InWrite, Updates
<1>2. Updates(a)
    BY <1>1 DEF PlacesOK, InWrite
<1> QED BY <1>1, <1>2 DEF PlacesOK, InWrite

(* Two that have come past the mutex of a channel have different channels,  *)
(* and at most one of them is in the registry.                              *)
LEMMA Exclusion ==
    ASSUME UpdatePhaseAssumption, TypeOK, PlacesOK, LocksOK, NEW a \in Actor, NEW b \in Actor, a # b,
           at[a] \in {"compare", "enlist", "link", "publish"},
           at[b] \in {"compare", "enlist", "link", "publish"}
    PROVE  /\ arg[a].chan # arg[b].chan
           /\ ~(at[a] \in {"link", "publish"} /\ at[b] \in {"link", "publish"})
<1>1. InWrite(a) /\ InWrite(b) /\ arg[a].chan \in Channel /\ arg[b].chan \in Channel
    BY DEF InWrite, PlacesOK
<1>2. a \in running /\ b \in running
    BY <1>1 DEF PlacesOK, Updates
<1>3. a # Root /\ b # Root
    BY <1>2 DEF PlacesOK
<1>4. a \in Process /\ b \in Process /\ Registry \in Lock /\ Channel \subseteq Lock
    BY <1>3 DEF Actor, Lock
<1>5. arg[a].chan \in Owned(a) /\ arg[b].chan \in Owned(b)
    BY <1>2 DEF Owned
<1>6. /\ at[a] \in {"link", "publish"} => Registry \in Owned(a)
      /\ at[b] \in {"link", "publish"} => Registry \in Owned(b)
    BY DEF Owned
<1> QED BY <1>1, <1>4, <1>5, <1>6 DEF LocksOK

(* Where the list begins and who is in the registry is all that IsList      *)
(* needs of the processes.                                                  *)
LEMMA ListSame ==
    ASSUME NEW rank, NEW n, IsList(rank, n), next' = next, InHand' = InHand, First' = First
    PROVE  IsList(rank, n)'
BY DEF IsList

(* Link: the channel is in hand.                                            *)
LEMMA ListLink ==
    ASSUME UpdatePhaseAssumption, TypeOK, PlacesOK, LocksOK, ListOK, NEW a \in Actor, Link(a)
    PROVE  ListOK'
<1> DEFINE c == arg[a].chan
<1>0. /\ at[a] = "link" /\ at' = [at EXCEPT ![a] = "publish"] /\ arg' = arg
      /\ next' = [next EXCEPT ![c] = head] /\ UNCHANGED <<head, now>>
    BY DEF Link, Goto
<1>1. /\ at \in [Actor -> Places] /\ next \in [Channel -> Channel \cup {None, End}]
      /\ head \in Channel \cup {End} /\ head # None /\ c \in Channel /\ next[c] = None
    BY <1>0 DEF TypeOK, PlacesOK, InWrite, ListOK, UpdatePhaseAssumption
<1>2. ~Walking /\ ~Walking'
    BY <1>0, <1>1, WriterDoesNotWalk DEF InWrite, Walking
<1>3. First' = First
    BY <1>0, <1>2 DEF First
<1>4. InHand' = InHand \cup {c}
    BY <1>0, <1>1 DEF InHand
<1>5. PICK rank \in [Channel -> Nat], n \in Nat : IsList(rank, n)
    BY DEF ListOK
<1>6. IsList(rank, n)'
  <2> DEFINE L == {d \in Channel : rank[d] # 0}
  <2>1. /\ L \cup InHand = {d \in Channel : next[d] # None} /\ L \cap InHand = {}
        /\ First = End <=> n = 0
        /\ n # 0 => First \in Channel /\ rank[First] = n
        /\ \A d, e \in L : rank[d] = rank[e] => d = e
        /\ \A d \in L : /\ rank[d] <= n
                        /\ rank[d] = 1 => next[d] = End
                        /\ rank[d] > 1 => next[d] \in Channel /\ rank[next[d]] = rank[d] - 1
      BY <1>5 DEF IsList
  <2>2. c \notin L
      BY <1>1, <2>1
  <2>3. L \cup InHand' = {d \in Channel : next'[d] # None} /\ L \cap InHand' = {}
      BY <1>0, <1>1, <1>4, <2>1, <2>2
  <2>4. \A d \in L : next'[d] = next[d]
      BY <1>0, <1>1, <2>2
  <2> QED BY <1>3, <2>1, <2>3, <2>4 DEF IsList
<1>7. \A b \in Actor \ {a} : at[b] \in {"enlist", "link", "publish"} =>
          arg[b].chan # c /\ arg[b].chan \in Channel /\ at[b] # "publish"
    BY <1>0, Exclusion DEF PlacesOK, InWrite
<1>8. \A b \in Actor : at'[b] = "publish" => next'[arg'[b].chan] = head'
    BY <1>0, <1>1, <1>7
<1>9. \A b \in Actor : at'[b] \in {"enlist", "link"} => next'[arg'[b].chan] = None
    BY <1>0, <1>1, <1>7 DEF ListOK
<1> QED BY <1>0, <1>2, <1>5, <1>6, <1>8, <1>9 DEF ListOK

(* Publish: the channel is the new head.                                    *)
LEMMA ListPublish ==
    ASSUME UpdatePhaseAssumption, TypeOK, PlacesOK, LocksOK, ListOK, NEW a \in Actor, Publish(a)
    PROVE  ListOK'
<1>c. PICK c \in Channel : c = arg[a].chan
    BY DEF Publish, PlacesOK, InWrite
<1>0. /\ at[a] = "publish" /\ at' = [at EXCEPT ![a] = at'[a]] /\ at'[a] \in {"user", "accept"}
      /\ \A b \in Actor \ {a} : arg'[b] = arg[b]
      /\ next' = next /\ head' = c /\ now' = now
    BY <1>c DEF Publish, Goto, TypeOK
<1>1. /\ at \in [Actor -> Places] /\ next \in [Channel -> Channel \cup {None, End}]
      /\ c \in Channel /\ next[c] = head /\ End \notin Channel
    BY <1>c, <1>0 DEF TypeOK, ListOK, UpdatePhaseAssumption
<1>2. ~Walking /\ ~Walking'
    BY <1>0, <1>1, WriterDoesNotWalk DEF InWrite, Walking
<1>3. First = head /\ First' = c
    BY <1>0, <1>2 DEF First
<1>4. \A b \in Actor \ {a} : at[b] # "publish" /\ at[b] # "link"
    BY <1>0, Exclusion
<1>5. InHand = {c} /\ InHand' = {}
    BY <1>c, <1>0, <1>1, <1>4 DEF InHand
<1>6. PICK rank \in [Channel -> Nat], n \in Nat : IsList(rank, n)
    BY DEF ListOK
<1> DEFINE L == {d \in Channel : rank[d] # 0}
<1>7. /\ L \cup {c} = {d \in Channel : next[d] # None} /\ c \notin L
      /\ head = End <=> n = 0
      /\ n # 0 => head \in Channel /\ rank[head] = n
      /\ \A d, e \in L : rank[d] = rank[e] => d = e
      /\ \A d \in L : /\ rank[d] <= n
                      /\ rank[d] = 1 => next[d] = End
                      /\ rank[d] > 1 => next[d] \in Channel /\ rank[next[d]] = rank[d] - 1
    BY <1>3, <1>5, <1>6 DEF IsList
<1> DEFINE rank2 == [rank EXCEPT ![c] = n + 1]
<1> DEFINE L2 == {d \in Channel : rank2[d] # 0}
<1>8. /\ rank2 \in [Channel -> Nat] /\ rank2[c] = n + 1
      /\ \A d \in Channel \ {c} : rank2[d] = rank[d]
    BY <1>1, <1>6
<1>9. L2 = L \cup {c}
    BY <1>1, <1>6, <1>8
<1> HIDE DEF rank2, L, L2
<1>10. IsList(rank2, n + 1)'
  <2>1. L2 \cup {} = {d \in Channel : next[d] # None}
      BY <1>7, <1>9
  <2>2. \A d \in L : d \in Channel /\ d # c /\ rank2[d] = rank[d]
      BY <1>7, <1>8 DEF L
  <2>3. \A d, e \in L2 : rank2[d] = rank2[e] => d = e
    <3>1. \A d \in L : rank2[d] # n + 1
        BY <1>6, <1>7, <2>2
    <3> QED BY <1>7, <1>8, <1>9, <2>2, <3>1
  <2>4. /\ rank2[c] <= n + 1
        /\ rank2[c] = 1 => next[c] = End
        /\ rank2[c] > 1 => next[c] \in Channel /\ rank2[next[c]] = rank2[c] - 1
    <3>1. n # 0 => head \in L
        BY <1>6, <1>7 DEF L
    <3> QED BY <1>1, <1>6, <1>7, <1>8, <2>2, <3>1
  <2>5. ASSUME NEW d \in L
        PROVE  /\ rank2[d] <= n + 1
               /\ rank2[d] = 1 => next[d] = End
               /\ rank2[d] > 1 => next[d] \in Channel /\ rank2[next[d]] = rank2[d] - 1
    <3>1. rank2[d] = rank[d] /\ rank[d] <= n /\ rank[d] \in Nat /\ rank[d] # 0
        BY <1>6, <1>7, <2>2 DEF L
    <3>2. rank[d] > 1 => next[d] \in L
        BY <1>6, <1>7, <3>1 DEF L
    <3> QED BY <1>6, <1>7, <2>2, <3>1, <3>2
  <2>6. First' \in Channel /\ First' # End /\ rank2[First'] = n + 1 /\ n + 1 # 0
      BY <1>1, <1>3, <1>6, <1>8
  <2> QED BY <1>0, <1>5, <1>9, <2>1, <2>3, <2>4, <2>5, <2>6 DEF IsList, L2
<1>11. \A b \in Actor : at'[b] = "publish" => next'[arg'[b].chan] = head'
    BY <1>0, <1>1, <1>4
<1>12. \A b \in Actor : at'[b] \in {"enlist", "link"} => next'[arg'[b].chan] = None
    BY <1>0, <1>1 DEF ListOK
<1>13. n + 1 \in Nat
    BY <1>6
<1> QED BY <1>0, <1>2, <1>8, <1>10, <1>11, <1>12, <1>13 DEF ListOK

(* UpdateOne: the first channel is taken from the list.                     *)
LEMMA ListUpdate ==
    ASSUME UpdatePhaseAssumption, TypeOK, PlacesOK, ListOK, NEW a \in Actor, UpdateOne(a)
    PROVE  ListOK'
<1>c. PICK c \in Channel : c = now
    BY DEF UpdateOne, TypeOK
<1>0. /\ at[a] = "walk" /\ now' = next[c] /\ next' = [next EXCEPT ![c] = None]
      /\ UNCHANGED <<at, arg, head>>
    BY <1>c DEF UpdateOne, Mark
<1>1. /\ next \in [Channel -> Channel \cup {None, End}] /\ End \notin Channel
      /\ None # End /\ Walking /\ Walking' /\ head = End
    BY <1>0 DEF TypeOK, ListOK, UpdatePhaseAssumption, Walking
<1>2. \A b \in Actor : at[b] \notin {"enlist", "link", "publish"}
    BY <1>0, UpdatePlaces DEF UpdateStep
<1>3. InHand = {} /\ InHand' = {} /\ First = c /\ First' = next[c]
    BY <1>c, <1>0, <1>1, <1>2 DEF InHand, First
<1>4. PICK rank \in [Channel -> Nat], n \in Nat : IsList(rank, n)
    BY DEF ListOK
<1> DEFINE L == {d \in Channel : rank[d] # 0}
<1>5. /\ L = {d \in Channel : next[d] # None}
      /\ n # 0 /\ rank[c] = n
      /\ \A d, e \in L : rank[d] = rank[e] => d = e
      /\ \A d \in L : /\ rank[d] <= n
                      /\ rank[d] = 1 => next[d] = End
                      /\ rank[d] > 1 => next[d] \in Channel /\ rank[next[d]] = rank[d] - 1
    BY <1>1, <1>3, <1>4 DEF IsList
<1> DEFINE rank2 == [rank EXCEPT ![c] = 0]
<1> DEFINE L2 == {d \in Channel : rank2[d] # 0}
<1>6. rank2 \in [Channel -> Nat] /\ \A d \in Channel \ {c} : rank2[d] = rank[d]
    BY <1>4
<1>7. L2 = L \ {c} /\ c \in L
    BY <1>4, <1>5, <1>6
<1> HIDE DEF rank2, L, L2
<1>8. IsList(rank2, n - 1)'
  <2>1. L2 = {d \in Channel : next'[d] # None}
      BY <1>0, <1>1, <1>5, <1>7
  <2>2. \A d \in L2 : d \in Channel /\ d # c /\ d \in L /\ rank2[d] = rank[d] /\ next'[d] = next[d]
      BY <1>0, <1>1, <1>6, <1>7 DEF L
  <2>3. \A d, e \in L2 : rank2[d] = rank2[e] => d = e
      BY <1>5, <2>2
  <2>4. ASSUME NEW d \in L2
        PROVE  /\ rank2[d] <= n - 1
               /\ rank2[d] = 1 => next'[d] = End
               /\ rank2[d] > 1 => next'[d] \in Channel /\ rank2[next'[d]] = rank2[d] - 1
    <3>1. rank[d] \in Nat /\ rank[d] <= n /\ rank[d] # n /\ rank[d] # 0
        BY <1>4, <1>5, <1>7, <2>2 DEF L
    <3>2. rank[d] > 1 => next[d] # c /\ next[d] \in Channel /\ rank[next[d]] = rank[d] - 1
        BY <1>4, <1>5, <2>2, <3>1
    <3> QED BY <1>4, <1>5, <1>6, <2>2, <3>1, <3>2
  <2>5. /\ First' = End <=> n - 1 = 0
        /\ n - 1 # 0 => First' \in Channel /\ rank2[First'] = n - 1
    <3>1. n = 1 => next[c] = End
        BY <1>5, <1>7
    <3>2. n > 1 => next[c] \in Channel /\ rank[next[c]] = n - 1
        BY <1>5, <1>7
    <3>3. n = 1 \/ n > 1
        BY <1>4, <1>5
    <3>4. n > 1 => next[c] # c
        BY <1>4, <1>5, <3>2
    <3> QED BY <1>1, <1>3, <1>4, <1>6, <3>1, <3>2, <3>3, <3>4
  <2> QED BY <1>3, <2>1, <2>3, <2>4, <2>5 DEF IsList, L2
<1>9. n - 1 \in Nat
    BY <1>4, <1>5
<1> QED BY <1>0, <1>1, <1>2, <1>6, <1>8, <1>9 DEF ListOK

(* ListOK is kept by every step.                                            *)
LEMMA ListStep ==
    ASSUME UpdatePhaseAssumption, TypeOK, PlacesOK, LocksOK, ListOK, [Next]_vars
    PROVE  ListOK'
<1>t. /\ at \in [Actor -> Places] /\ next \in [Channel -> Channel \cup {None, End}]
      /\ arg \in [Actor -> [chan : Channel \cup {None}, val : Value]]
    BY DEF TypeOK
<1>1. ASSUME NEW a \in Actor, UNCHANGED <<next, head, now>>, \A b \in Actor \ {a} : arg'[b] = arg[b],
             at' = [at EXCEPT ![a] = at'[a]], at[a] \notin {"publish", "walk"},
             at'[a] \notin {"publish", "walk"},
             at'[a] \in {"enlist", "link"} => next[arg'[a].chan] = None
      PROVE  ListOK'
  <2>1. InHand' = InHand /\ Walking' = Walking
      BY <1>t, <1>1 DEF InHand, Walking
  <2>2. First' = First
      BY <1>1, <2>1 DEF First
  <2>3. PICK rank \in [Channel -> Nat], n \in Nat : IsList(rank, n)
      BY DEF ListOK
  <2>4. IsList(rank, n)'
      BY <1>1, <2>1, <2>2, <2>3, ListSame
  <2>5. \A b \in Actor : at'[b] = "publish" => next'[arg'[b].chan] = head'
      BY <1>t, <1>1 DEF ListOK
  <2>6. \A b \in Actor : at'[b] \in {"enlist", "link"} => next'[arg'[b].chan] = None
      BY <1>t, <1>1 DEF ListOK
  <2> QED BY <1>1, <2>1, <2>3, <2>4, <2>5, <2>6 DEF ListOK
<1>2. ASSUME NEW a \in Actor, WriteStep(a) PROVE ListOK'
  <2>1. /\ at' = [at EXCEPT ![a] = at'[a]] /\ \A b \in Actor \ {a} : arg'[b] = arg[b]
        /\ InWrite(a)' => arg'[a] = arg[a]
      BY <1>2, WritePlaces
  <2>2. CASE Enter(a) \/ Reject(a) \/ Enlist(a)
    <3>1. /\ UNCHANGED <<next, head, now>> /\ at[a] \notin {"publish", "walk"}
          /\ at'[a] \notin {"publish", "walk"}
          /\ at'[a] \in {"enlist", "link"} => at[a] \in {"enlist", "link"}
        BY <1>t, <2>2 DEF Enter, Reject, Enlist, list, Goto
    <3> QED BY <1>1, <2>1, <3>1 DEF ListOK, InWrite
  <2>3. CASE Store(a)
    <3>1. /\ UNCHANGED <<next, head, now>> /\ at[a] = "compare" /\ at'[a] \in {"enlist", "user"}
          /\ at'[a] = "enlist" => next[arg[a].chan] = None
        BY <1>t, <2>3 DEF Store, list, Goto
    <3> QED BY <1>1, <2>1, <3>1 DEF InWrite
  <2> QED BY <1>2, <2>2, <2>3, ListLink, ListPublish DEF WriteStep
<1>3. ASSUME NEW a \in Actor, UpdateStep(a) PROVE ListOK'
  <2>1. /\ at' = [at EXCEPT ![a] = at'[a]] /\ \A b \in Actor \ {a} : arg'[b] = arg[b] /\ at[b] = "user"
      BY <1>3, UpdatePlaces
  <2>2. CASE BeginUpdate(a) \/ AcceptUpdates(a) \/ AcceptOne(a)
    <3>1. /\ UNCHANGED <<next, head, now>> /\ at[a] \notin {"publish", "walk"}
          /\ at'[a] \in {"pending", "accept", "enlist"}
        BY <1>t, <2>2 DEF BeginUpdate, AcceptUpdates, AcceptOne, list, Goto
    <3>2. at'[a] = "enlist" => next[arg'[a].chan] = None
        BY <1>t, <2>2 DEF BeginUpdate, AcceptUpdates, AcceptOne, list, Goto
    <3> QED BY <1>1, <2>1, <3>1, <3>2
  <2>3. CASE BeginWalk(a) \/ EndUpdate(a)
    <3>1. /\ at[a] \notin {"publish", "enlist", "link"} /\ next' = next
          /\ at'[a] \in {"walk", "user"}
        BY <1>t, <2>3 DEF BeginWalk, EndUpdate, list, Goto
    <3>2. First' = First /\ (Walking' => head' = End) /\ (~Walking' => now' = End)
      <4>1. CASE BeginWalk(a)
        <5>1. ~Walking /\ Walking' /\ now' = head /\ head' = End
            BY <1>t, <2>1, <4>1 DEF BeginWalk, Walking, Goto, NewHead
        <5> QED BY <5>1 DEF First
      <4>2. CASE EndUpdate(a)
        <5>1. Walking /\ ~Walking' /\ now = End /\ UNCHANGED <<head, now>>
            BY <1>t, <2>1, <4>2 DEF EndUpdate, Walking, Goto, list
        <5> QED BY <5>1 DEF First, ListOK
      <4> QED BY <2>3, <4>1, <4>2
    <3>3. InHand = {} /\ InHand' = {}
        BY <1>t, <2>1, <3>1 DEF InHand
    <3>4. PICK rank \in [Channel -> Nat], n \in Nat : IsList(rank, n)
        BY DEF ListOK
    <3>5. IsList(rank, n)'
        BY <3>1, <3>2, <3>3, <3>4, ListSame
    <3>6. \A b \in Actor : at'[b] \notin {"publish", "enlist", "link"}
        BY <1>t, <2>1, <3>1
    <3> QED BY <3>2, <3>4, <3>5, <3>6 DEF ListOK
  <2> QED BY <1>3, <2>2, <2>3, ListUpdate DEF UpdateStep
<1>4. ASSUME NEW a \in Actor, Suspend(a) \/ \E c \in Channel, v \in Value : Call(a, c, v)
      PROVE  ListOK'
    BY <1>t, <1>1, <1>4 DEF Suspend, Call, Goto, list
<1>5. CASE UNCHANGED vars \/ \E x \in External, c \in Channel : AsyncRequest(x, c)
  <2>1. UNCHANGED <<next, head, now, at, arg>>
      BY <1>5 DEF vars, list, AsyncRequest
  <2>2. UNCHANGED <<InHand, Walking, First>>
      BY <2>1 DEF InHand, Walking, First
  <2>3. PICK rank \in [Channel -> Nat], n \in Nat : IsList(rank, n)
      BY DEF ListOK
  <2>4. IsList(rank, n)'
      BY <2>1, <2>2, <2>3, ListSame
  <2> QED BY <2>1, <2>2, <2>3, <2>4 DEF ListOK
<1> QED BY <1>2, <1>3, <1>4, <1>5 DEF Next

-----------------------------------------------------------------------------
(* Written values and the writer policies.                                  *)

(* A step that changes no value keeps a channel that is on its way to the   *)
(* list on its way, unless it arrives.                                      *)
LEMMA LostKept ==
    ASSUME TypeOK, NoLostWrite, NEW a \in Actor,
           \A b \in Actor \ {a} : at'[b] = at[b] /\ arg'[b] = arg[b],
           UNCHANGED <<cur, new>>,
           \A c \in Channel : next[c] # None => next'[c] # None,
           at[a] \in {"enlist", "link"} =>
               \/ next'[arg[a].chan] # None
               \/ at'[a] \in {"enlist", "link"} /\ arg'[a] = arg[a]
    PROVE  NoLostWrite'
BY DEF NoLostWrite

(* NoLostWrite is kept by every step.                                       *)
LEMMA LostStep ==
    ASSUME UpdatePhaseAssumption, TypeOK, PlacesOK, ListOK, NoLostWrite, [Next]_vars
    PROVE  NoLostWrite'
<1>t. /\ at \in [Actor -> Places] /\ next \in [Channel -> Channel \cup {None, End}]
      /\ arg \in [Actor -> [chan : Channel \cup {None}, val : Value]]
      /\ cur \in [Channel -> Value] /\ new \in [Channel -> Value]
      /\ head # None /\ None # End
    BY DEF TypeOK, UpdatePhaseAssumption
<1>1. ASSUME NEW a \in Actor, WriteStep(a) PROVE NoLostWrite'
  <2>1. /\ \A b \in Actor \ {a} : at'[b] = at[b] /\ arg'[b] = arg[b]
        /\ InWrite(a)' => arg'[a] = arg[a]
      BY <1>t, <1>1, WritePlaces
  <2>2. CASE Enter(a) \/ Reject(a) \/ Enlist(a) \/ Publish(a)
    <3>1. /\ UNCHANGED <<next, cur, new>>
          /\ at[a] \in {"enlist", "link"} => at'[a] = "link"
        BY <1>t, <2>2 DEF Enter, Reject, Enlist, Publish, list, signals, Goto
    <3> QED BY <2>1, <3>1, LostKept DEF InWrite
  <2>3. CASE Link(a)
    <3>1. /\ UNCHANGED <<cur, new>> /\ next' = [next EXCEPT ![arg[a].chan] = head]
          /\ arg[a].chan \in Channel
        BY <2>3 DEF Link, signals, PlacesOK, InWrite
    <3>2. next'[arg[a].chan] # None /\ \A c \in Channel : next[c] # None => next'[c] # None
        BY <1>t, <3>1
    <3> QED BY <2>1, <3>1, <3>2, LostKept
  <2>4. CASE Store(a)
    <3>0. PICK c \in Channel : c = arg[a].chan
        BY <2>4 DEF Store, PlacesOK, InWrite
    <3>1. PICK v \in Value : v = arg[a].val
        BY <1>t
    <3>2. /\ new' = [new EXCEPT ![c] = v] /\ cur' = cur /\ next' = next
          /\ at[a] = "compare"
          /\ \/ at'[a] = "enlist" /\ arg'[a] = arg[a]
             \/ next[c] # None
             \/ ~Requests(c, v)
        BY <1>t, <2>4, <3>0, <3>1 DEF Store, list, Goto
    <3>3. ~Requests(c, v) => v = cur[c]
        BY DEF Requests, Changes
    <3>4. ASSUME NEW d \in Channel, new'[d] # cur'[d]
          PROVE  \/ next'[d] # None
                 \/ \E b \in Actor : arg'[b].chan = d /\ at'[b] \in {"enlist", "link"}
      <4>1. CASE d = c
          BY <1>t, <3>0, <3>2, <3>3, <3>4, <4>1
      <4>2. CASE d # c
        <5>1. new[d] # cur[d]
            BY <1>t, <3>2, <3>4, <4>2
        <5>2. CASE next[d] # None
            BY <3>2, <5>2
        <5>3. CASE next[d] = None
          <6>1. PICK b \in Actor : arg[b].chan = d /\ at[b] \in {"enlist", "link"}
              BY <5>1, <5>3 DEF NoLostWrite
          <6>2. b # a
              BY <3>2, <6>1
          <6> QED BY <2>1, <6>1, <6>2
        <5> QED BY <5>2, <5>3
      <4> QED BY <4>1, <4>2
    <3> QED BY <3>4 DEF NoLostWrite
  <2> QED BY <1>1, <2>2, <2>3, <2>4 DEF WriteStep
<1>2. ASSUME NEW a \in Actor, UpdateStep(a) PROVE NoLostWrite'
  <2>1. \A b \in Actor \ {a} : at'[b] = at[b] /\ arg'[b] = arg[b] /\ at[b] = "user"
      BY <1>t, <1>2, UpdatePlaces
  <2>2. CASE UpdateOne(a)
    <3>0. PICK c \in Channel : c = now
        BY <2>2 DEF UpdateOne, TypeOK
    <3>1. /\ cur' = [cur EXCEPT ![c] = new[c]] /\ new' = new /\ at[a] = "walk"
          /\ next' = [next EXCEPT ![c] = None]
        BY <2>2, <3>0 DEF UpdateOne, Mark
    <3>2. \A b \in Actor : at[b] \notin {"enlist", "link"}
        BY <2>1, <3>1
    <3>3. \A d \in Channel : new'[d] # cur'[d] => next'[d] # None
        BY <1>t, <3>1, <3>2 DEF NoLostWrite
    <3> QED BY <3>3 DEF NoLostWrite
  <2>3. CASE ~UpdateOne(a)
    <3>1. UNCHANGED <<next, cur, new>> /\ at[a] \notin {"enlist", "link"}
        BY <1>2, <2>3 DEF UpdateStep, BeginUpdate, AcceptUpdates, AcceptOne, BeginWalk, EndUpdate,
                          list, signals
    <3> QED BY <2>1, <3>1, LostKept
  <2> QED BY <2>2, <2>3
<1>3. ASSUME NEW a \in Actor, Suspend(a) \/ \E c \in Channel, v \in Value : Call(a, c, v)
      PROVE  NoLostWrite'
  <2>1. /\ UNCHANGED <<next, cur, new>> /\ at[a] = "user"
        /\ \A b \in Actor \ {a} : at'[b] = at[b] /\ arg'[b] = arg[b]
      BY <1>t, <1>3 DEF Suspend, Call, Goto, list, signals
  <2> QED BY <2>1, LostKept
<1>4. CASE UNCHANGED vars \/ \E x \in External, c \in Channel : AsyncRequest(x, c)
  <2>1. UNCHANGED <<next, cur, new, at, arg>>
      BY <1>4 DEF vars, list, signals, AsyncRequest
  <2> QED BY <2>1 DEF NoLostWrite
<1> QED BY <1>1, <1>2, <1>3, <1>4 DEF Next

(* The policy and the writers of the channel that is written.               *)
LEMMA StorePolicies ==
    ASSUME UpdatePhaseAssumption, TypeOK, PlacesOK, PoliciesOK, OneWriter, NEW a \in Actor, Store(a)
    PROVE  PoliciesOK' /\ OneWriter'
<1>0. PICK c \in Channel : c = arg[a].chan
    BY DEF Store, PlacesOK, InWrite
<1>1. PICK change \in BOOLEAN : change = Changes(c, arg[a].val)
    BY DEF Changes
<1>t. /\ writer \in [Channel -> Process \cup {None}]
      /\ wrote \in [Channel -> SUBSET (Process \X BOOLEAN)]
      /\ Policy[c] \in {"one", "many", "unchecked"}
      /\ a # Root => a \in Process /\ a # None
    BY DEF TypeOK, UpdatePhaseAssumption, Actor
<1>2. /\ running' = running /\ ~Conflicts(a, c, change)
      /\ writer' = [writer EXCEPT ![c] = IF Checks(c, change) /\ @ = None THEN Me(a) ELSE @]
    BY <1>0, <1>1 DEF Store
<1>3. CASE a = Root
  <2>1. wrote' = wrote
      BY <1>3 DEF Store
  <2>2. Me(a) = None
      BY <1>3 DEF Me
  <2>3. writer' = writer
      BY <1>t, <1>2, <2>2
  <2> QED BY <1>2, <2>1, <2>3 DEF PoliciesOK, OneWriter
<1>4. CASE a # Root
  <2>1. wrote' = [wrote EXCEPT ![c] = @ \cup {<<a, change>>}]
      BY <1>0, <1>1, <1>4 DEF Store
  <2>2. Me(a) = a /\ running # {}
    <3>1. a \in running
        BY DEF Store, PlacesOK, Updates
    <3> QED BY <1>4, <3>1 DEF Me
  <2>3. /\ \A d \in Channel \ {c} : wrote'[d] = wrote[d] /\ writer'[d] = writer[d]
        /\ wrote'[c] = wrote[c] \cup {<<a, change>>}
        /\ writer'[c] = IF Checks(c, change) /\ writer[c] = None THEN a ELSE writer[c]
      BY <1>t, <1>2, <2>1, <2>2
  <2>4. Checks(c, change) => writer[c] \in {None, a} /\ writer'[c] = a
      BY <1>t, <1>2, <1>4, <2>2, <2>3 DEF Conflicts
  <2>5. \A w \in wrote[c] : w = <<w[1], w[2]>> /\ w[1] \in Process /\ w[1] # None
      BY <1>t DEF UpdatePhaseAssumption
  <2>6. ASSUME NEW w \in wrote[c], w[2], Policy[c] # "unchecked" PROVE writer[c] = w[1]
      BY <2>2, <2>6 DEF PoliciesOK
  <2>7. ASSUME NEW w \in wrote'[c], w[2], Policy[c] # "unchecked" PROVE writer'[c] = w[1]
    <3>1. CASE w \in wrote[c]
      <4>1. writer[c] = w[1] /\ writer[c] # None
          BY <2>5, <2>6, <2>7, <3>1
      <4> QED BY <2>3, <4>1
    <3>2. CASE w = <<a, change>>
      <4>1. Checks(c, change)
          BY <1>t, <2>7, <3>2 DEF Checks
      <4> QED BY <2>4, <3>2, <4>1
    <3> QED BY <2>3, <2>7, <3>1, <3>2
  <2>8. PoliciesOK'
      BY <1>2, <2>3, <2>7 DEF PoliciesOK
  <2>9. OneWriter'
    <3>1. ASSUME Policy[c] = "one", NEW w \in wrote'[c] PROVE w[1] = writer'[c]
      <4>1. Checks(c, change)
          BY <3>1 DEF Checks
      <4>2. writer'[c] = a /\ writer[c] \in {None, a}
          BY <2>4, <4>1
      <4>3. CASE w \in wrote[c]
        <5>1. w[1] = writer[c] /\ w[1] # None
            BY <2>5, <3>1, <4>3 DEF OneWriter
        <5> QED BY <4>2, <5>1
      <4>4. CASE w = <<a, change>>
          BY <4>2, <4>4
      <4> QED BY <2>3, <3>1, <4>3, <4>4
    <3> QED BY <2>3, <3>1 DEF OneWriter
  <2> QED BY <2>8, <2>9
<1> QED BY <1>3, <1>4

(* PoliciesOK and OneWriter are kept by every step.                         *)
LEMMA PoliciesStep ==
    ASSUME UpdatePhaseAssumption, TypeOK, PlacesOK, PoliciesOK, OneWriter, [Next]_vars
    PROVE  PoliciesOK' /\ OneWriter'
<1>1. ASSUME UNCHANGED <<writer, wrote>>, running' # {} => running # {}
      PROVE  PoliciesOK' /\ OneWriter'
    BY <1>1 DEF PoliciesOK, OneWriter
<1>2. ASSUME NEW a \in Actor, WriteStep(a) PROVE PoliciesOK' /\ OneWriter'
  <2>1. CASE ~Store(a)
    <3>1. UNCHANGED <<writer, wrote, running>>
        BY <1>2, <2>1 DEF WriteStep, Enter, Reject, Enlist, Link, Publish, signals, history
    <3> QED BY <1>1, <3>1
  <2> QED BY <2>1, StorePolicies
<1>3. ASSUME NEW a \in Actor, UpdateStep(a) PROVE PoliciesOK' /\ OneWriter'
  <2>1. running = {}
      BY <1>3, UpdatePlaces
  <2>2. CASE UpdateOne(a)
    <3>1. /\ writer' = [writer EXCEPT ![now] = Forget(now)] /\ wrote' = wrote
          /\ running' = {}
        BY <2>1, <2>2 DEF UpdateOne
    <3>2. \A c \in Channel : Policy[c] = "one" => writer'[c] = writer[c]
        BY <3>1 DEF Forget, TypeOK
    <3> QED BY <3>1, <3>2 DEF PoliciesOK, OneWriter
  <2>3. CASE EndUpdate(a)
    <3>1. \A c \in Channel : wrote'[c] = {}
        BY <2>3 DEF EndUpdate
    <3> QED BY <3>1 DEF PoliciesOK, OneWriter
  <2>4. CASE ~UpdateOne(a) /\ ~EndUpdate(a)
    <3>1. UNCHANGED <<writer, wrote, running>>
        BY <1>3, <2>4 DEF UpdateStep, BeginUpdate, AcceptUpdates, AcceptOne, BeginWalk, signals, history
    <3> QED BY <1>1, <3>1
  <2> QED BY <2>2, <2>3, <2>4
<1>4. ASSUME NEW a \in Actor, Suspend(a) \/ \E c \in Channel, v \in Value : Call(a, c, v)
      PROVE  PoliciesOK' /\ OneWriter'
    BY <1>1, <1>4 DEF Suspend, Call, signals, history
<1>5. CASE UNCHANGED vars \/ \E x \in External, c \in Channel : AsyncRequest(x, c)
    BY <1>1, <1>5 DEF vars, AsyncRequest, signals, history
<1> QED BY <1>2, <1>3, <1>4, <1>5 DEF Next

-----------------------------------------------------------------------------
(* The invariant.                                                           *)

(* It holds before sc_main runs.                                            *)
LEMMA InvariantInit ==
    ASSUME UpdatePhaseAssumption, Init
    PROVE  UpdateInvariant
<1>1. TypeOK
    BY DEF UpdatePhaseAssumption, Init, TypeOK, Places, Null, Actor
<1>2. PlacesOK
  <2>1. \A a \in Actor : at[a] = "user"
      BY DEF Init
  <2>2. ~\E a \in Actor : InWrite(a) \/ Updates(a)
      BY <2>1 DEF InWrite, Updates
  <2> QED BY <2>1, <2>2 DEF Init, PlacesOK, Actor
<1>3. LocksOK
  <2>1. \A p \in Process : p \in Actor /\ p # None
      BY DEF UpdatePhaseAssumption, Actor
  <2>2. \A p \in Process : at[p] = "user"
      BY <2>1 DEF Init
  <2>3. \A p \in Process : Stack(p) = <<>> /\ Owned(p) = {}
      BY <2>2 DEF Stack, Owned
  <2> QED BY <2>1, <2>2, <2>3 DEF Init, LocksOK
<1>4. ListOK
  <2>1. ~Walking /\ InHand = {} /\ First = End
      BY DEF Init, Walking, InHand, First
  <2>2. IsList([c \in Channel |-> 0], 0)
    <3>1. {c \in Channel : [d \in Channel |-> 0][c] # 0} = {}
        OBVIOUS
    <3>2. {c \in Channel : next[c] # None} = {}
        BY DEF Init
    <3> QED BY <2>1, <3>1, <3>2 DEF IsList
  <2>3. \A a \in Actor : at[a] = "user"
      BY DEF Init
  <2> QED BY <2>1, <2>2, <2>3 DEF Init, ListOK
<1>5. NoLostWrite /\ PoliciesOK /\ OneWriter
    BY DEF Init, NoLostWrite, PoliciesOK, OneWriter
<1> QED BY <1>1, <1>2, <1>3, <1>4, <1>5 DEF UpdateInvariant

(* It holds always.                                                         *)
THEOREM UpdateInvariantHolds ==
    ASSUME UpdatePhaseAssumption
    PROVE  Spec => []UpdateInvariant
<1>1. Init => UpdateInvariant
    BY InvariantInit
<1>2. UpdateInvariant /\ [Next]_vars => UpdateInvariant'
  <2> SUFFICES ASSUME UpdateInvariant, [Next]_vars PROVE UpdateInvariant'
      OBVIOUS
  <2> USE DEF UpdateInvariant
  <2>1. TypeOK' /\ ListOK'
      BY TypeStep, ListStep
  <2>2. PlacesOK' /\ LocksOK'
      BY PlacesStep, LocksStep
  <2>3. NoLostWrite' /\ PoliciesOK' /\ OneWriter'
      BY LostStep, PoliciesStep
  <2> QED BY <2>1, <2>2, <2>3
<1> QED BY <1>1, <1>2, PTL DEF Spec

(* Nobody else is in the critical section of a channel, nor in that of the  *)
(* registry, which request_update and perform_update share.                 *)
Owns(a) == at[a] \in {"compare", "enlist", "link", "publish"}
InRegistry(a) == at[a] \in {"link", "publish", "pending", "accept", "walk"}

WritersExclude ==
    \A a, b \in Actor : a # b =>
        /\ Owns(a) /\ Owns(b) => arg[a].chan # arg[b].chan
        /\ ~(InRegistry(a) /\ InRegistry(b))

(* The scoped locks of write(), request_update and perform_update exclude   *)
(* (sc_signal.h:245, sc_prim_channel.h:504, sc_prim_channel.cpp:283).       *)
THEOREM WritersExcludeHolds ==
    ASSUME UpdatePhaseAssumption
    PROVE  Spec => []WritersExclude
<1>1. UpdateInvariant => WritersExclude
  <2> SUFFICES ASSUME UpdateInvariant, NEW a \in Actor, NEW b \in Actor, a # b
               PROVE  /\ Owns(a) /\ Owns(b) => arg[a].chan # arg[b].chan
                      /\ ~(InRegistry(a) /\ InRegistry(b))
      BY DEF WritersExclude
  <2> USE DEF UpdateInvariant
  <2>1. Owns(a) /\ Owns(b) => arg[a].chan # arg[b].chan
      BY Exclusion DEF Owns
  <2>2. ASSUME InRegistry(a), InRegistry(b) PROVE FALSE
    <3>1. CASE a \in running /\ b \in running
      <4>1. at[a] \in {"link", "publish"} /\ at[b] \in {"link", "publish"}
          BY <2>2, <3>1 DEF InRegistry, PlacesOK, InWrite
      <4> QED BY <4>1, Exclusion
    <3>2. CASE a \notin running \/ b \notin running
      <4>1. running = {}
          BY <2>2, <3>2 DEF InRegistry, PlacesOK
      <4>2. Updates(a) /\ Updates(b)
          BY <2>2 DEF InRegistry, Updates
      <4> QED BY <4>1, <4>2 DEF PlacesOK
    <3> QED BY <3>1, <3>2
  <2> QED BY <2>1, <2>2
<1> QED BY <1>1, UpdateInvariantHolds, PTL

-----------------------------------------------------------------------------
(* The list as it is followed, pointer by pointer.                          *)

NatLess == OpToRel(<, Nat)

(* A set of numbers has a least one.                                        *)
LEMMA LeastNumber ==
    ASSUME NEW S \in SUBSET Nat, S # {}
    PROVE  \E k \in S : \A j \in S : ~(j < k)
<1>1. IsWellFoundedOn(NatLess, Nat)
    BY NatLessThanWellFounded DEF NatLess
<1>2. PICK k \in S : \A j \in S : <<j, k>> \notin NatLess
    BY <1>1, WFMin
<1> QED BY <1>2 DEF NatLess, OpToRel

Followed(f, first) ==
    f = [k \in 0..Cardinality(Channel) |->
            IF k = 0 THEN first
            ELSE IF f[k - 1] \in Channel THEN next[f[k - 1]]
            ELSE f[k - 1]]

(* Chain(first) follows the pointers, if that can be done at all.           *)
LEMMA ChainFollows ==
    ASSUME NEW first, \E f : Followed(f, first)
    PROVE  Followed(Chain(first), first)
BY Zenon DEF Followed, Chain

(* There is only one way to follow them.                                    *)
LEMMA FollowedUnique ==
    ASSUME UpdatePhaseAssumption, NEW first, NEW f, NEW g, Followed(f, first), Followed(g, first)
    PROVE  f = g
<1>1. PICK N \in Nat : N = Cardinality(Channel)
    BY FS_CardinalityType DEF UpdatePhaseAssumption
<1> DEFINE D == {k \in 0..N : f[k] # g[k]}
<1>2. ASSUME D # {} PROVE FALSE
  <2>1. PICK k \in D : \A j \in D : ~(j < k)
    <3>1. D \subseteq Nat
        OBVIOUS
    <3> HIDE DEF D
    <3> QED BY <1>2, <3>1, LeastNumber
  <2>2. CASE k = 0
      BY <1>1, <2>1, <2>2 DEF Followed
  <2>3. CASE k # 0
    <3>1. k - 1 \in 0..N /\ k - 1 < k
        BY <1>1, <2>1, <2>3
    <3>2. f[k - 1] = g[k - 1]
        BY <2>1, <3>1
    <3>3. /\ f[k] = IF f[k - 1] \in Channel THEN next[f[k - 1]] ELSE f[k - 1]
          /\ g[k] = IF g[k - 1] \in Channel THEN next[g[k - 1]] ELSE g[k - 1]
        BY <1>1, <2>1, <2>3 DEF Followed
    <3> QED BY <2>1, <3>2, <3>3
  <2> QED BY <2>2, <2>3
<1>3. \A k \in 0..N : f[k] = g[k]
    BY <1>2
<1>4. f = [k \in 0..N |-> f[k]] /\ g = [k \in 0..N |-> g[k]]
    BY <1>1 DEF Followed
<1> QED BY <1>3, <1>4

(* A list of n channels has one of every rank up to n.                      *)
LEMMA RanksTaken ==
    ASSUME NEW rank \in [Channel -> Nat], NEW n \in Nat, IsList(rank, n), NEW j \in 1..n
    PROVE  \E c \in Channel : rank[c] = j
<1> SUFFICES ASSUME ~\E c \in Channel : rank[c] = j PROVE FALSE
    OBVIOUS
<1> DEFINE D == {k \in 0..(n - 1) : ~\E c \in Channel : rank[c] = n - k}
<1>1. n - j \in D
    BY DEF IsList
<1>2. PICK k \in D : \A i \in D : ~(i < k)
  <2>1. D \subseteq Nat
      OBVIOUS
  <2> HIDE DEF D
  <2> QED BY <1>1, <2>1, LeastNumber
<1>3. k # 0
    BY <1>2 DEF IsList
<1>4. k - 1 \in 0..(n - 1) /\ k - 1 < k
    BY <1>2, <1>3
<1>5. PICK c \in Channel : rank[c] = n - (k - 1)
    BY <1>2, <1>4
<1>6. rank[c] > 1
    BY <1>2, <1>5
<1>7. next[c] \in Channel /\ rank[next[c]] = n - k
    BY <1>2, <1>5, <1>6 DEF IsList
<1> QED BY <1>2, <1>7

(* It has no more places than there are channels.                           *)
LEMMA ListFits ==
    ASSUME UpdatePhaseAssumption,
           NEW rank \in [Channel -> Nat], NEW n \in Nat, IsList(rank, n)
    PROVE  n <= Cardinality(Channel)
<1> DEFINE L == {c \in Channel : rank[c] # 0}
<1>1. IsFiniteSet(L) /\ Cardinality(L) <= Cardinality(Channel) /\ Cardinality(Channel) \in Nat
      /\ Cardinality(L) \in Nat
    BY FS_Subset, FS_CardinalityType DEF UpdatePhaseAssumption
<1> DEFINE f == [j \in 1..n |-> CHOOSE c \in Channel : rank[c] = j]
<1>2. \A j \in 1..n : f[j] \in Channel /\ rank[f[j]] = j
    BY RanksTaken
<1> HIDE DEF f
<1>3. f \in Injection(1..n, L)
  <2>1. f = [j \in 1..n |-> f[j]]
      BY DEF f
  <2>2. f \in [1..n -> L]
      BY <1>2, <2>1
  <2> QED BY <1>2, <2>2 DEF Injection, IsInjective
<1>4. IsFiniteSet(1..n) /\ Cardinality(1..n) = n
    BY FS_Interval
<1>5. Cardinality(1..n) <= Cardinality(L)
    BY <1>1, <1>3, <1>4, FS_Injection
<1> QED BY <1>1, <1>4, <1>5

(* Followed from its head the list yields the channels that have a rank,    *)
(* and then list_end.                                                       *)
LEMMA FollowedList ==
    ASSUME UpdatePhaseAssumption, NEW rank \in [Channel -> Nat], NEW n \in Nat, IsList(rank, n)
    PROVE  /\ Chain(First)[Cardinality(Channel)] = End
           /\ Listed(First) = {c \in Channel : rank[c] # 0}
<1>1. PICK N \in Nat : N = Cardinality(Channel) /\ n <= N
    BY ListFits, FS_CardinalityType DEF UpdatePhaseAssumption
<1> DEFINE g == [k \in 0..N |-> IF k < n THEN CHOOSE c \in Channel : rank[c] = n - k ELSE End]
<1>2. \A k \in 0..N : k < n => g[k] \in Channel /\ rank[g[k]] = n - k
  <2> SUFFICES ASSUME NEW k \in 0..N, k < n PROVE g[k] \in Channel /\ rank[g[k]] = n - k
      OBVIOUS
  <2>1. n - k \in 1..n
      BY <1>1
  <2>2. \E c \in Channel : rank[c] = n - k
      BY <2>1, RanksTaken
  <2>3. g[k] = CHOOSE c \in Channel : rank[c] = n - k
      OBVIOUS
  <2> QED BY <2>2, <2>3
<1>3. \A k \in 0..N : k >= n => g[k] = End
    OBVIOUS
<1>4. g = [k \in 0..N |-> g[k]]
    OBVIOUS
<1> HIDE DEF g
<1>5. \A c, d \in Channel : rank[c] # 0 /\ rank[c] = rank[d] => c = d
    BY DEF IsList
<1>6. \A k \in 0..N :
          g[k] = IF k = 0 THEN First ELSE IF g[k - 1] \in Channel THEN next[g[k - 1]] ELSE g[k - 1]
  <2> SUFFICES ASSUME NEW k \in 0..N
               PROVE  g[k] = IF k = 0 THEN First
                             ELSE IF g[k - 1] \in Channel THEN next[g[k - 1]] ELSE g[k - 1]
      OBVIOUS
  <2>1. CASE k = 0
    <3>1. CASE n = 0
        BY <1>1, <1>3, <2>1, <3>1 DEF IsList
    <3>2. CASE n # 0
      <4>1. First \in Channel /\ rank[First] = n
          BY <3>2 DEF IsList
      <4>2. g[0] \in Channel /\ rank[g[0]] = n
          BY <1>1, <1>2, <2>1, <3>2
      <4> QED BY <1>5, <2>1, <3>2, <4>1, <4>2
    <3> QED BY <3>1, <3>2
  <2>2. CASE k # 0 /\ k - 1 >= n
    <3>1. k - 1 \in 0..N /\ k >= n
        BY <1>1, <2>2
    <3>2. g[k] = End /\ g[k - 1] = End
        BY <1>3, <2>2, <3>1
    <3> QED BY <2>2, <3>2 DEF UpdatePhaseAssumption
  <2>3. CASE k # 0 /\ k - 1 < n
    <3>1. k - 1 \in 0..N
        BY <1>1, <2>3
    <3>2. g[k - 1] \in Channel /\ rank[g[k - 1]] = n - (k - 1)
        BY <1>2, <2>3, <3>1
    <3>3. PICK c \in Channel : c = g[k - 1]
        BY <3>2
    <3>4. rank[c] # 0
        BY <1>1, <2>3, <3>2, <3>3
    <3>5. /\ rank[c] = 1 => next[c] = End
          /\ rank[c] > 1 => next[c] \in Channel /\ rank[next[c]] = rank[c] - 1
        BY <3>4 DEF IsList
    <3>6. CASE k = n
      <4>1. rank[c] = 1 /\ g[k] = End
          BY <1>1, <1>3, <3>2, <3>3, <3>6
      <4> QED BY <2>3, <3>3, <3>5, <4>1
    <3>7. CASE k # n
      <4>1. k < n
          BY <1>1, <2>3, <3>7
      <4>2. g[k] \in Channel /\ rank[g[k]] = n - k /\ n - k # 0
          BY <1>1, <1>2, <4>1
      <4>3. next[c] \in Channel /\ rank[next[c]] = n - k
          BY <1>1, <3>2, <3>3, <3>5, <4>1
      <4> QED BY <1>5, <2>3, <3>3, <4>2, <4>3
    <3> QED BY <3>6, <3>7
  <2> QED BY <1>1, <2>1, <2>2, <2>3
<1>7. Followed(g, First)
    BY <1>1, <1>4, <1>6 DEF Followed
<1>8. Chain(First) = g
    BY <1>7, ChainFollows, FollowedUnique
<1>9. Chain(First)[N] = End
    BY <1>1, <1>3, <1>8
<1>10. Listed(First) = {g[k] : k \in 0..N} \cap Channel
    BY <1>1, <1>8 DEF Listed
<1>11. ASSUME NEW c \in Channel, c \in Listed(First) PROVE rank[c] # 0
  <2>1. PICK k \in 0..N : c = g[k]
      BY <1>10, <1>11
  <2>2. k < n
      BY <1>1, <1>3, <1>11, <2>1 DEF UpdatePhaseAssumption
  <2> QED BY <1>1, <1>2, <2>1, <2>2
<1>12. ASSUME NEW c \in Channel, rank[c] # 0 PROVE c \in Listed(First)
  <2>1. rank[c] \in Nat /\ rank[c] <= n
      BY <1>12 DEF IsList
  <2>2. n - rank[c] \in 0..N /\ n - rank[c] < n
      BY <1>1, <1>12, <2>1
  <2>3. g[n - rank[c]] \in Channel /\ rank[g[n - rank[c]]] = rank[c]
      BY <1>2, <2>1, <2>2
  <2>4. g[n - rank[c]] = c
      BY <1>5, <1>12, <2>3
  <2> QED BY <1>10, <2>2, <2>4
<1>13. Listed(First) \subseteq Channel
    BY DEF Listed
<1> QED BY <1>1, <1>9, <1>11, <1>12, <1>13

(* The update list and m_update_next_p say the same (sc_prim_channel.h:502).*)
LEMMA ListIsExact ==
    ASSUME UpdatePhaseAssumption, UpdateInvariant
    PROVE  ListExact
<1>1. PICK rank \in [Channel -> Nat], n \in Nat : IsList(rank, n)
    BY DEF UpdateInvariant, ListOK
<1>2. /\ Chain(First)[Cardinality(Channel)] = End
      /\ Listed(First) = {c \in Channel : rank[c] # 0}
    BY <1>1, FollowedList
<1>3. /\ {c \in Channel : rank[c] # 0} \cup InHand = {c \in Channel : next[c] # None}
      /\ {c \in Channel : rank[c] # 0} \cap InHand = {}
    BY <1>1 DEF IsList
<1> QED BY <1>2, <1>3 DEF ListExact, First, Walking

(* In one delta cycle at most one process changes a signal with a policy.   *)
LEMMA OneChanges ==
    ASSUME UpdateInvariant
    PROVE  ChangersAlone
<1> SUFFICES ASSUME NEW c \in Channel, Policy[c] # "unchecked"
             PROVE  Cardinality({w[1] : w \in {u \in wrote[c] : u[2]}}) <= 1
    BY DEF ChangersAlone
<1> DEFINE S == {w[1] : w \in {u \in wrote[c] : u[2]}}
<1>1. \A p, q \in S : p = q
    BY DEF UpdateInvariant, PoliciesOK
<1>2. CASE S = {}
  <2>1. Cardinality(S) = 0
      BY <1>2, FS_EmptySet
  <2> QED BY <2>1
<1>3. CASE S # {}
  <2>1. PICK p \in S : TRUE
      BY <1>3
  <2>2. S = {p}
      BY <1>1, <2>1
  <2>3. Cardinality(S) = 1
      BY <2>2, FS_Singleton
  <2> QED BY <2>3
<1> QED BY <1>2, <1>3

(* The update list is exact, no value that write() stored is forgotten, at  *)
(* most one process changes a signal with a policy in one delta cycle, and  *)
(* with SC_ONE_WRITER whoever wrote is the writer on record.                *)
THEOREM UpdateRightHolds ==
    ASSUME UpdatePhaseAssumption
    PROVE  Spec => []UpdateRight
<1>1. UpdateInvariant => UpdateRight
    BY ListIsExact, OneChanges DEF UpdateInvariant, UpdateRight
<1> QED BY <1>1, UpdateInvariantHolds, PTL

-----------------------------------------------------------------------------
(* Evaluate-update semantics.                                               *)

(* When the end of the list is reached no written value is left.            *)
LEMMA WalkEnds ==
    ASSUME UpdatePhaseAssumption, UpdateInvariant, NEW a \in Actor, EndUpdate(a)
    PROVE  new = cur
<1> USE DEF UpdateInvariant
<1>1. Walking /\ First = End
    BY DEF EndUpdate, Walking, First
<1>2. \A b \in Actor : at[b] \notin {"enlist", "link", "publish"}
    BY UpdatePlaces DEF UpdateStep, EndUpdate
<1>3. PICK rank \in [Channel -> Nat], n \in Nat : IsList(rank, n)
    BY DEF ListOK
<1>4. \A c \in Channel : rank[c] = 0
    BY <1>1, <1>3 DEF IsList
<1>5. InHand = {}
    BY <1>2 DEF InHand
<1>6. \A c \in Channel : next[c] = None
    BY <1>3, <1>4, <1>5 DEF IsList
<1>7. \A c \in Channel : new[c] = cur[c]
    BY <1>2, <1>6 DEF NoLostWrite
<1> QED BY <1>7 DEF TypeOK

visible == IF Walking THEN new ELSE cur

(* What a step does to the variables of SignalSpec.                         *)
LEMMA SignalStep ==
    ASSUME UpdatePhaseAssumption, UpdateInvariant, [Next]_vars
    PROVE  \/ UNCHANGED <<visible, new, running>>
           \/ /\ \E a \in running, c \in Channel, v \in Value : new' = [new EXCEPT ![c] = v]
              /\ UNCHANGED <<visible, running>>
           \/ (\E a \in running : running' = running \ {a}) /\ UNCHANGED <<visible, new>>
           \/ running = {} /\ visible' = new /\ UNCHANGED <<new, running>>
           \/ /\ running = {} /\ visible = new /\ running' \in (SUBSET Actor) \ {{}}
              /\ UNCHANGED <<visible, new>>
<1> USE DEF UpdateInvariant
<1>t. at \in [Actor -> Places] /\ running \subseteq Actor
    BY DEF TypeOK
<1>1. ASSUME NEW a \in Actor, WriteStep(a)
      PROVE  \/ UNCHANGED <<visible, new, running>>
             \/ /\ \E b \in running, c \in Channel, v \in Value : new' = [new EXCEPT ![c] = v]
                /\ UNCHANGED <<visible, running>>
  <2>1. /\ InWrite(a) /\ running' = running
        /\ at' = [at EXCEPT ![a] = at'[a]] /\ at'[a] # "walk"
      BY <1>1, WritePlaces
  <2>2. ~Walking /\ ~Walking'
      BY <1>t, <2>1, WriterDoesNotWalk DEF Walking
  <2>3. cur' = cur
      BY <1>1 DEF WriteStep, Enter, Reject, Store, Enlist, Link, Publish, signals
  <2>4. visible' = visible
      BY <2>2, <2>3 DEF visible
  <2>5. CASE Store(a)
    <3>1. /\ new' = [new EXCEPT ![arg[a].chan] = arg[a].val] /\ at[a] = "compare"
        BY <2>5 DEF Store
    <3>2. a \in running /\ arg[a].chan \in Channel /\ arg[a].val \in Value
        BY <1>t, <2>1, <3>1 DEF PlacesOK, Updates, TypeOK
    <3> QED BY <2>1, <2>4, <3>1, <3>2
  <2>6. CASE ~Store(a)
    <3>1. new' = new
        BY <1>1, <2>6 DEF WriteStep, Enter, Reject, Enlist, Link, Publish, signals
    <3> QED BY <2>1, <2>4, <3>1
  <2> QED BY <2>5, <2>6
<1>2. ASSUME NEW a \in Actor, UpdateStep(a)
      PROVE  \/ UNCHANGED <<visible, new, running>>
             \/ running = {} /\ visible' = new /\ UNCHANGED <<new, running>>
             \/ /\ running = {} /\ visible = new /\ running' \in (SUBSET Actor) \ {{}}
                /\ UNCHANGED <<visible, new>>
  <2>1. /\ running = {} /\ \A b \in Actor \ {a} : at[b] = "user"
        /\ at' = [at EXCEPT ![a] = at'[a]]
      BY <1>2, UpdatePlaces
  <2>2. (Walking <=> at[a] = "walk") /\ (Walking' <=> at'[a] = "walk")
      BY <1>t, <2>1 DEF Walking
  <2>3. CASE BeginUpdate(a) \/ AcceptUpdates(a) \/ AcceptOne(a)
    <3>1. UNCHANGED <<cur, new, running>> /\ at[a] # "walk" /\ at'[a] # "walk"
        BY <1>t, <2>3 DEF BeginUpdate, AcceptUpdates, AcceptOne, signals, Goto
    <3> QED BY <2>2, <3>1 DEF visible
  <2>4. CASE BeginWalk(a)
    <3>1. UNCHANGED <<cur, new, running>> /\ at'[a] = "walk"
        BY <1>t, <2>4 DEF BeginWalk, signals, Goto
    <3> QED BY <2>1, <2>2, <3>1 DEF visible
  <2>5. CASE UpdateOne(a)
    <3>1. UNCHANGED <<new, running, at>> /\ at[a] = "walk"
        BY <2>5 DEF UpdateOne
    <3> QED BY <2>2, <3>1 DEF visible
  <2>6. CASE EndUpdate(a)
    <3>1. UNCHANGED <<cur, new>> /\ at[a] = "walk" /\ at'[a] = "user"
          /\ running' \in (SUBSET Actor) \ {{}}
        BY <1>t, <2>6 DEF EndUpdate, signals, Goto, Actor
    <3>2. new = cur
        BY <2>6, WalkEnds
    <3> QED BY <2>1, <2>2, <3>1, <3>2 DEF visible
  <2> QED BY <1>2, <2>3, <2>4, <2>5, <2>6 DEF UpdateStep
<1>3. ASSUME NEW a \in Actor, Suspend(a) \/ \E c \in Channel, v \in Value : Call(a, c, v)
      PROVE  /\ running' = running \/ (a \in running /\ running' = running \ {a})
             /\ UNCHANGED <<visible, new>>
  <2>1. /\ a \in running /\ UNCHANGED <<cur, new>>
        /\ at' = [at EXCEPT ![a] = at'[a]] /\ at'[a] # "walk"
        /\ running' = running \/ running' = running \ {a}
      BY <1>t, <1>3 DEF Suspend, Call, Goto, signals
  <2>2. ~Walking
      BY <2>1 DEF Walking, PlacesOK, InWrite
  <2>3. ~Walking'
      BY <1>t, <2>1, <2>2 DEF Walking
  <2> QED BY <2>1, <2>2, <2>3 DEF visible
<1>4. CASE UNCHANGED vars \/ \E x \in External, c \in Channel : AsyncRequest(x, c)
  <2>1. UNCHANGED <<cur, new, at, running>>
      BY <1>4 DEF vars, signals, AsyncRequest
  <2> QED BY <2>1 DEF visible, Walking
<1> QED BY <1>1, <1>2, <1>3, <1>4 DEF Next

(* The channels implement SignalSpec: what processes write in parallel      *)
(* becomes visible at once, while none of them runs.                        *)
THEOREM EvaluateUpdateHolds ==
    ASSUME UpdatePhaseAssumption
    PROVE  Spec => EvaluateUpdate
<1>1. Init => Signals!Init
  <2> SUFFICES ASSUME Init PROVE Signals!Init
      OBVIOUS
  <2>1. ~Walking
      BY DEF Init, Walking
  <2>2. running \in (SUBSET Actor) \ {{}}
      BY DEF Init, Actor
  <2> QED BY <2>1, <2>2 DEF Init, Signals!Init
<1>2. UpdateInvariant /\ [Next]_vars => [Signals!Next]_Signals!vars
  <2> SUFFICES ASSUME UpdateInvariant, [Next]_vars PROVE [Signals!Next]_Signals!vars
      OBVIOUS
  <2> QED BY SignalStep
          DEF visible, Signals!Next, Signals!vars, Signals!Write, Signals!Sleep,
              Signals!Update, Signals!Wake
<1> QED BY <1>1, <1>2, UpdateInvariantHolds, PTL DEF Spec, EvaluateUpdate, Signals!Spec
=============================================================================
