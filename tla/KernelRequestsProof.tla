------------------------- MODULE KernelRequestsProof -------------------------
(***************************************************************************)
(* Proofs about KernelRequests: for any number of threads, methods and      *)
(* invokers the count of the announcements is exact, whoever leaves the     *)
(* scheduling to somebody else has an heir, and the simulation does not     *)
(* freeze - provided that no SC_CTHREAD calls halt() (Spec), which is the   *)
(* only suspension that is not announced.  At the end of the module: the    *)
(* calls by which sc_main frames the simulation (SimStatus).                *)
(***************************************************************************)
EXTENDS KernelRequests, FiniteSetTheorems, TLAPS

Awake(c) == pc[c] \in {"user", "requested"}
Announced == {c \in Worker : pc[c] = "requested"}

(* The queues hold the methods of their invokers, and an invoker is in      *)
(* running_invokers exactly while its queue is not empty.                   *)
QueueOwned ==
    \A i \in Invoker :
        /\ \A m \in queue[i] : InvokerOf[m] = i
        /\ i \in runningInvokers <=> queue[i] # {}

(* What is in the running queue has not got a reason to run as well.        *)
PendingIdle == running \cap pending = {}

(* sc_main runs or sleeps in simulate().                                    *)
RootPlace == pc[Root] \in {"user", "asleep"}

RequestsInv ==
    /\ TypeOK
    /\ RootPlace
    /\ requests = Cardinality(Announced)
    /\ QueueOwned
    /\ PendingIdle
    /\ RunningIsAwake
    /\ RootIdle
    /\ DeferredHasHeir
    /\ NoFreeze

(* The processes and coroutines are finitely many.                          *)
LEMMA FiniteWorkers ==
    /\ IsFiniteSet(Worker) /\ IsFiniteSet(Announced)
    /\ \A S : S \subseteq Method => IsFiniteSet(S)
<1>1. IsFiniteSet(Worker)
    BY KernelRequestsAssumption, FS_Union DEF Worker
<1>2. IsFiniteSet(Announced)
    BY <1>1, FS_Subset DEF Announced
<1>3. \A S : S \subseteq Method => IsFiniteSet(S)
    BY KernelRequestsAssumption, FS_Subset
<1> QED BY <1>1, <1>2, <1>3

(* An announcement adds one to the number of announced coroutines, and a    *)
(* suspension takes one away; nothing else changes it.                      *)
LEMMA AnnouncedCount ==
    ASSUME requests = Cardinality(Announced), NEW c \in Worker
    PROVE  /\ Announced' = Announced \cup {c} /\ c \notin Announced
                => Cardinality(Announced') = requests + 1
           /\ Announced' = Announced \ {c} /\ c \in Announced
                => Cardinality(Announced') = requests - 1
           /\ Announced' = Announced => Cardinality(Announced') = requests
           /\ requests \in Nat
           /\ c \in Announced => requests # 0
           /\ c \in Announced /\ requests # 1 => \E d \in Announced : d # c
<1>1. IsFiniteSet(Announced)
    BY FiniteWorkers
<1>2. requests \in Nat
    BY <1>1, FS_CardinalityType
<1>3. c \in Announced => requests # 0
    BY <1>1, FS_EmptySet
<1>4. ASSUME c \in Announced, requests # 1 PROVE \E d \in Announced : d # c
    BY <1>1, <1>4, FS_Singleton
<1>5. c \notin Announced => Cardinality(Announced \cup {c}) = requests + 1
    BY <1>1, FS_AddElement
<1>6. c \in Announced => Cardinality(Announced \ {c}) = requests - 1
    BY <1>1, FS_RemoveElement
<1> QED BY <1>2, <1>3, <1>4, <1>5, <1>6

(* What a caller c of the scheduler hands to it: the record k describes     *)
(* exactly the coroutines that are awake besides c, which has left the      *)
(* running queue unless it stays awake itself.                              *)
Handed(c, k, stays) ==
    /\ k.running \subseteq Process /\ k.ready \subseteq Process
    /\ k.running \cap k.ready = {}
    /\ k.queue \in [Invoker -> SUBSET Method] /\ k.invokers \subseteq Invoker
    /\ k.methods = Cardinality(k.running \cap Method)
    /\ \A i \in Invoker :
        /\ \A m \in k.queue[i] : InvokerOf[m] = i
        /\ i \in k.invokers <=> k.queue[i] # {}
        /\ i \in k.invokers <=> Awake(i) /\ i # c
    /\ \A t \in Thread : t \in k.running <=> Awake(t) /\ (t = c => stays)
    /\ \A m \in Method : m \in k.running <=> m \in k.queue[InvokerOf[m]]
    /\ pc[Root] = "asleep" \/ (c = Root /\ k.running = {})

Left(c, k) == Handed(c, k, FALSE)

(* The parts of RequestsInv that are about the queues.                      *)
QueuesTypeOK ==
    /\ running \subseteq Process
    /\ runningInvokers \subseteq Invoker
    /\ runningMethods \in Nat
    /\ queue \in [Invoker -> SUBSET Method]
    /\ pending \subseteq Process
    /\ pc \in [Coroutine -> {"asleep", "user", "requested", "halted", "ended"}]
    /\ owed \in BOOLEAN

QueuesInv ==
    /\ QueuesTypeOK
    /\ RootPlace
    /\ QueueOwned
    /\ PendingIdle
    /\ RunningIsAwake
    /\ RootIdle
    /\ NoFreeze

(* A coroutine that schedules leaves the queues in order, whatever is       *)
(* dispatched, and nobody else withdraws an announcement.                   *)
LEMMA ScheduleEffect ==
    ASSUME QueuesTypeOK, NEW c \in Coroutine, NEW place \in {"asleep", "ended", "user"},
           NEW k, Handed(c, k, place = "user"), Schedule(c, place, k),
           c = Root => place = "asleep",
           place = "user" => c \in Thread /\ pc[c] = "user"
    PROVE  QueuesInv' /\ owed' = FALSE /\ Announced' = Announced \ {c}
<1> USE KernelRequestsAssumption
<1>0. PICK d \in SUBSET {p \in k.ready : Fits(p, k.invokers)} :
        LET methods == d \cap Method
            invokers == {InvokerOf[m] : m \in methods}
            woken == (d \cap Thread) \cup invokers \cup RootIfIdle(k.running \cup d)
        IN  /\ running' = k.running \cup d
            /\ runningInvokers' = k.invokers \cup invokers
            /\ runningMethods' = k.methods + Cardinality(methods)
            /\ queue' = [i \in Invoker |-> k.queue[i] \cup {m \in methods : InvokerOf[m] = i}]
            /\ pending' = k.ready \ d
            /\ pc' = [x \in Coroutine |-> IF x \in woken THEN "user"
                                          ELSE IF x = c THEN place ELSE pc[x]]
            /\ owed' = FALSE
    BY DEF Schedule
<1> DEFINE methods == d \cap Method
<1> DEFINE invokers == {InvokerOf[m] : m \in methods}
<1> DEFINE woken == (d \cap Thread) \cup invokers \cup RootIfIdle(k.running \cup d)
<1>1. running' = k.running \cup d /\ pending' = k.ready \ d /\ owed' = FALSE
    BY <1>0
<1>2. runningInvokers' = k.invokers \cup invokers
    BY <1>0
<1>3. runningMethods' = k.methods + Cardinality(methods)
    BY <1>0
<1>4. queue' = [i \in Invoker |-> k.queue[i] \cup {m \in methods : InvokerOf[m] = i}]
    BY <1>0
<1>5. pc' = [x \in Coroutine |-> IF x \in woken THEN "user"
                                 ELSE IF x = c THEN place ELSE pc[x]]
    BY <1>0
<1>6. d \subseteq Process /\ d \cap k.running = {} /\ d \subseteq k.ready
    BY DEF Handed
<1>7. \A m \in methods : InvokerOf[m] \in Invoker /\ InvokerOf[m] \notin k.invokers
    BY DEF Fits
<1>8. invokers \subseteq Invoker /\ invokers \cap k.invokers = {}
    BY <1>7
<1>9. \A t \in Thread : t \in woken <=> t \in d
    BY <1>8 DEF RootIfIdle
<1>10. \A i \in Invoker : i \in woken <=> i \in invokers
    BY DEF RootIfIdle
<1>11. Root \in woken <=> k.running \cup d = {}
    BY <1>8 DEF RootIfIdle
<1> HIDE DEF woken
<1>12. IsFiniteSet(k.running \cap Method) /\ IsFiniteSet(methods)
    BY FiniteWorkers
<1>13. runningMethods' = Cardinality(running' \cap Method) /\ runningMethods' \in Nat
  <2>1. (k.running \cap Method) \cap methods = {}
      BY <1>6
  <2>2. running' \cap Method = (k.running \cap Method) \cup methods
      BY <1>1
  <2>3. Cardinality(k.running \cap Method) \in Nat /\ Cardinality(methods) \in Nat
      BY <1>12, FS_CardinalityType
  <2>4. Cardinality((k.running \cap Method) \cap methods) = 0
      BY <2>1, FS_EmptySet
  <2> HIDE DEF methods
  <2>5. Cardinality((k.running \cap Method) \cup methods)
          = Cardinality(k.running \cap Method) + Cardinality(methods)
            - Cardinality((k.running \cap Method) \cap methods)
      BY <1>12, FS_Union
  <2>6. runningMethods' = Cardinality(k.running \cap Method) + Cardinality(methods)
      BY <1>3 DEF Handed
  <2>7. Cardinality(running' \cap Method)
          = Cardinality(k.running \cap Method) + Cardinality(methods)
    <3>1. Cardinality(running' \cap Method) = Cardinality((k.running \cap Method) \cup methods)
        BY <2>2
    <3>2. Cardinality((k.running \cap Method) \cup methods)
            = Cardinality(k.running \cap Method) + Cardinality(methods) - 0
        BY <2>4, <2>5
    <3> QED BY <2>3, <3>1, <3>2
  <2> QED BY <2>3, <2>6, <2>7
<1>14. \A i \in Invoker : queue'[i] = k.queue[i] \cup {m \in methods : InvokerOf[m] = i}
    BY <1>4
<1>15. \A x \in Coroutine : pc'[x] = IF x \in woken THEN "user"
                                     ELSE IF x = c THEN place ELSE pc[x]
    BY <1>5
<1>16. QueuesTypeOK'
  <2>1. pc' \in [Coroutine -> {"asleep", "user", "requested", "halted", "ended"}]
      BY <1>5 DEF QueuesTypeOK
  <2>2. queue' \in [Invoker -> SUBSET Method]
      BY <1>4 DEF Handed
  <2> QED BY <1>1, <1>2, <1>6, <1>8, <1>13, <2>1, <2>2 DEF QueuesTypeOK, Handed
<1>17. QueueOwned' /\ PendingIdle'
  <2>1. PendingIdle'
      BY <1>1, <1>6 DEF PendingIdle, Handed
  <2>2. ASSUME NEW i \in Invoker
        PROVE  /\ \A m \in queue'[i] : InvokerOf[m] = i
               /\ i \in runningInvokers' <=> queue'[i] # {}
    <3>1. i \in invokers <=> {m \in methods : InvokerOf[m] = i} # {}
        OBVIOUS
    <3>2. i \in k.invokers <=> k.queue[i] # {}
        BY DEF Handed
    <3> HIDE DEF invokers
    <3> QED BY <1>2, <1>14, <3>1, <3>2 DEF Handed
  <2> QED BY <2>1, <2>2 DEF QueueOwned
<1>18. RunningIsAwake'
  <2>1. \A t \in Thread : t \in running' <=> pc'[t] \in {"user", "requested"}
      BY <1>1, <1>9, <1>15 DEF Handed, Awake, Coroutine, Worker
  <2>2. \A m \in Method : m \in running' <=> m \in queue'[InvokerOf[m]]
      BY <1>1, <1>14 DEF Handed
  <2>3. \A i \in Invoker : i \in runningInvokers' <=> pc'[i] \in {"user", "requested"}
      BY <1>2, <1>10, <1>15 DEF Handed, Awake, Coroutine, Worker
  <2> QED BY <1>13, <2>1, <2>2, <2>3 DEF RunningIsAwake
<1>19. pc'[Root] = "user" <=> running' = {}
    BY <1>1, <1>11, <1>15 DEF Handed, Coroutine
<1>20. ASSUME running' = {} PROVE runningInvokers' = {}
  <2>1. \A i \in Invoker : queue'[i] = {}
      BY <1>18, <1>17, <1>16, <1>20 DEF RunningIsAwake, QueueOwned, QueuesTypeOK
  <2> QED BY <2>1, <1>16, <1>17 DEF QueueOwned, QueuesTypeOK
<1>21. RootIdle' /\ RootPlace'
  <2>1. pc'[Root] \in {"user", "asleep"}
      BY <1>11, <1>15 DEF Handed, Coroutine
  <2> QED BY <2>1, <1>19, <1>20 DEF RootIdle, RootPlace
<1>22. NoFreeze'
  <2> SUFFICES ASSUME pc'[Root] = "asleep"
               PROVE  \E w \in Worker : pc'[w] \in {"user", "requested"}
      BY DEF NoFreeze
  <2>1. PICK p \in running' : TRUE
      BY <1>19
  <2>2. CASE p \in Thread
      BY <2>1, <2>2, <1>18 DEF RunningIsAwake, Worker
  <2>3. CASE p \in Method
    <3>1. InvokerOf[p] \in Invoker /\ InvokerOf[p] \in runningInvokers'
        BY <2>1, <2>3, <1>17, <1>18 DEF RunningIsAwake, QueueOwned
    <3> QED BY <3>1, <1>18 DEF RunningIsAwake, Worker
  <2> QED BY <2>1, <2>2, <2>3, <1>16 DEF QueuesTypeOK, Process
<1>23. Announced' = Announced \ {c}
  <2> SUFFICES ASSUME NEW w \in Worker
               PROVE  pc'[w] = "requested" <=> pc[w] = "requested" /\ w # c
      BY DEF Announced
  <2>1. w \in Coroutine /\ w # Root
      BY DEF Coroutine, Worker
  <2>2. w \in woken /\ w # c => ~Awake(w)
      BY <1>1, <1>6, <1>8, <1>9, <1>10 DEF Handed, Worker
  <2> QED BY <2>1, <2>2, <1>15 DEF Awake
<1> QED BY <1>1, <1>16, <1>17, <1>18, <1>21, <1>22, <1>23 DEF QueuesInv

(* The same for a coroutine that leaves the running queue.                  *)
LEMMA LeavingEffect ==
    ASSUME QueuesTypeOK, NEW c \in Coroutine, NEW place \in {"asleep", "ended"},
           NEW k, Left(c, k), Schedule(c, place, k), c = Root => place = "asleep"
    PROVE  QueuesInv' /\ owed' = FALSE /\ Announced' = Announced \ {c}
<1>1. Handed(c, k, place = "user")
    BY DEF Left, Handed
<1> QED BY <1>1, ScheduleEffect

(* RequestsInv holds in the initial states.                                 *)
LEMMA RequestsInvInit == Init => RequestsInv
<1> USE KernelRequestsAssumption
<1> SUFFICES ASSUME Init PROVE RequestsInv
    OBVIOUS
<1>1. TypeOK
  <2>1. pc \in [Coroutine -> {"asleep", "user", "requested", "halted", "ended"}]
      BY DEF Init
  <2>2. queue \in [Invoker -> SUBSET Method]
      BY DEF Init
  <2>3. requests \in Int /\ runningMethods \in Nat
      BY SMT DEF Init
  <2>5. owed \in BOOLEAN
      BY Zenon DEF Init
  <2>4. running \subseteq Process /\ runningInvokers \subseteq Invoker /\ pending \subseteq Process
      BY DEF Init
  <2> QED BY <2>1, <2>2, <2>3, <2>4, <2>5 DEF TypeOK
<1>2. Announced = {}
    BY DEF Init, Announced, Worker, Coroutine
<1>3. requests = Cardinality(Announced)
    BY <1>2, FS_EmptySet DEF Init
<1>4. running \cap Method = {} /\ Cardinality(running \cap Method) = 0
    BY FS_EmptySet DEF Init
<1>5. RunningIsAwake
    BY <1>4 DEF Init, RunningIsAwake, Coroutine, Worker
<1>6. QueueOwned /\ PendingIdle /\ RootIdle /\ DeferredHasHeir /\ NoFreeze
    BY DEF Init, QueueOwned, PendingIdle, RootIdle, DeferredHasHeir, NoFreeze, Coroutine, Worker
<1>7. RootPlace
    BY DEF Init, RootPlace, Coroutine
<1> QED BY <1>1, <1>3, <1>5, <1>6, <1>7 DEF RequestsInv

(* QueuesInv is the part of RequestsInv that does not mention the count.    *)
LEMMA RequestsInvParts ==
    RequestsInv <=> /\ requests \in Int /\ requests = Cardinality(Announced)
                    /\ QueuesInv /\ DeferredHasHeir
BY DEF RequestsInv, QueuesInv, TypeOK, QueuesTypeOK

(* A thread that leaves the running queue hands Left to the scheduler; self *)
(* is the thread itself if it waits for a time.                             *)
LEMMA ThreadLeaves ==
    ASSUME QueuesInv, NEW t \in Thread, Awake(t), NEW self \in {{}, {t}}
    PROVE  Left(t, Without(t, self))
<1> USE KernelRequestsAssumption
<1> DEFINE k == Without(t, self)
<1>1. /\ k.running = running \ {t} /\ k.invokers = runningInvokers
      /\ k.methods = runningMethods /\ k.queue = queue /\ k.ready = pending \cup self
    BY DEF Without
<1> HIDE DEF k
<1>2. k.running \cap Method = running \cap Method
    BY <1>1
<1>3. k.methods = Cardinality(k.running \cap Method)
    BY <1>1, <1>2 DEF QueuesInv, RunningIsAwake
<1>4. k.running \subseteq Process /\ k.ready \subseteq Process /\ k.running \cap k.ready = {}
    BY <1>1 DEF QueuesInv, QueuesTypeOK, PendingIdle, Process
<1>5. k.queue \in [Invoker -> SUBSET Method] /\ k.invokers \subseteq Invoker
    BY <1>1 DEF QueuesInv, QueuesTypeOK
<1>6. \A i \in Invoker :
        /\ \A m \in k.queue[i] : InvokerOf[m] = i
        /\ i \in k.invokers <=> k.queue[i] # {}
        /\ i \in k.invokers <=> Awake(i) /\ i # t
    BY <1>1 DEF QueuesInv, QueueOwned, RunningIsAwake, Awake
<1>7. \A u \in Thread : u \in k.running <=> Awake(u) /\ (u = t => FALSE)
    BY <1>1 DEF QueuesInv, RunningIsAwake, Awake
<1>8. \A m \in Method : m \in k.running <=> m \in k.queue[InvokerOf[m]]
    BY <1>1 DEF QueuesInv, RunningIsAwake
<1>9. pc[Root] = "asleep"
  <2>1. t \in running
      BY DEF QueuesInv, RunningIsAwake, Awake
  <2>2. pc[Root] # "user"
      BY <2>1 DEF QueuesInv, RootIdle
  <2> QED BY <2>2 DEF QueuesInv, RootPlace
<1> QED BY <1>3, <1>4, <1>5, <1>6, <1>7, <1>8, <1>9 DEF Left, Handed, k

(* A thread that goes on hands the queues over as they are.                 *)
LEMMA ThreadStays ==
    ASSUME QueuesInv, NEW t \in Thread, Awake(t)
    PROVE  Handed(t, Here, TRUE)
<1> USE KernelRequestsAssumption
<1> DEFINE k == Here
<1>1. /\ k.running = running /\ k.invokers = runningInvokers
      /\ k.methods = runningMethods /\ k.queue = queue /\ k.ready = pending
    BY DEF Here
<1> HIDE DEF k
<1>2. /\ k.running \subseteq Process /\ k.ready \subseteq Process /\ k.running \cap k.ready = {}
      /\ k.queue \in [Invoker -> SUBSET Method] /\ k.invokers \subseteq Invoker
      /\ k.methods = Cardinality(k.running \cap Method)
    BY <1>1 DEF QueuesInv, QueuesTypeOK, PendingIdle, RunningIsAwake
<1>3. \A i \in Invoker :
        /\ \A m \in k.queue[i] : InvokerOf[m] = i
        /\ i \in k.invokers <=> k.queue[i] # {}
        /\ i \in k.invokers <=> Awake(i) /\ i # t
    BY <1>1 DEF QueuesInv, QueueOwned, RunningIsAwake, Awake
<1>4. /\ \A u \in Thread : u \in k.running <=> Awake(u)
      /\ \A m \in Method : m \in k.running <=> m \in k.queue[InvokerOf[m]]
    BY <1>1 DEF QueuesInv, RunningIsAwake, Awake
<1>5. pc[Root] = "asleep"
  <2>1. t \in running
      BY DEF QueuesInv, RunningIsAwake, Awake
  <2>2. pc[Root] # "user"
      BY <2>1 DEF QueuesInv, RootIdle
  <2> QED BY <2>2 DEF QueuesInv, RootPlace
<1> QED BY <1>2, <1>3, <1>4, <1>5 DEF Handed, k

(* An invoker whose methods have run hands Left to the scheduler; again are *)
(* the methods that asked for a time.                                       *)
LEMMA InvokerLeaves ==
    ASSUME QueuesInv, NEW i \in Invoker, Awake(i), NEW again \in SUBSET queue[i]
    PROVE  /\ Left(i, AfterQueue(i, again))
           /\ AfterQueue(i, again).methods \in Nat
<1> USE KernelRequestsAssumption
<1> DEFINE k == AfterQueue(i, again)
<1>1. /\ k.running = running \ queue[i] /\ k.invokers = runningInvokers \ {i}
      /\ k.methods = runningMethods - Cardinality(queue[i])
      /\ k.queue = [queue EXCEPT ![i] = {}] /\ k.ready = pending \cup again
    BY DEF AfterQueue
<1> HIDE DEF k
<1>2. /\ queue \in [Invoker -> SUBSET Method] /\ queue[i] \subseteq Method
      /\ \A m \in queue[i] : InvokerOf[m] = i /\ m \in running
    BY DEF QueuesInv, QueuesTypeOK, QueueOwned, RunningIsAwake
<1>3. k.methods = Cardinality(k.running \cap Method) /\ k.methods \in Nat
  <2>1. k.running \cap Method = (running \cap Method) \ queue[i]
      BY <1>1
  <2>2. (running \cap Method) \cap queue[i] = queue[i]
      BY <1>2
  <2>3. IsFiniteSet(running \cap Method)
      BY FiniteWorkers
  <2>4. Cardinality((running \cap Method) \ queue[i])
          = Cardinality(running \cap Method) - Cardinality((running \cap Method) \cap queue[i])
      BY <2>3, FS_Difference
  <2>5. Cardinality(k.running \cap Method) = Cardinality(running \cap Method) - Cardinality(queue[i])
      BY <2>1, <2>2, <2>4
  <2>6. runningMethods = Cardinality(running \cap Method)
      BY DEF QueuesInv, RunningIsAwake
  <2>7. Cardinality(k.running \cap Method) \in Nat
      BY FiniteWorkers, FS_CardinalityType
  <2> QED BY <1>1, <2>5, <2>6, <2>7
<1>4. k.running \subseteq Process /\ k.ready \subseteq Process /\ k.running \cap k.ready = {}
    BY <1>1, <1>2 DEF QueuesInv, QueuesTypeOK, PendingIdle, Process
<1>5. k.queue \in [Invoker -> SUBSET Method] /\ k.invokers \subseteq Invoker
    BY <1>1, <1>2 DEF QueuesInv, QueuesTypeOK
<1>6. ASSUME NEW j \in Invoker
      PROVE  /\ \A m \in k.queue[j] : InvokerOf[m] = j
             /\ j \in k.invokers <=> k.queue[j] # {}
             /\ j \in k.invokers <=> Awake(j) /\ j # i
    BY <1>1, <1>2 DEF QueuesInv, QueueOwned, RunningIsAwake, Awake
<1>7. \A t \in Thread : t \in k.running <=> Awake(t) /\ t # i
  <2>1. \A t \in Thread : t \notin queue[i] /\ t # i
      BY <1>2
  <2> QED BY <1>1, <2>1 DEF QueuesInv, RunningIsAwake, Awake
<1>8. ASSUME NEW m \in Method PROVE m \in k.running <=> m \in k.queue[InvokerOf[m]]
    BY <1>1, <1>2 DEF QueuesInv, RunningIsAwake
<1>9. pc[Root] = "asleep"
  <2>1. runningInvokers # {}
      BY DEF QueuesInv, RunningIsAwake, Awake
  <2> QED BY <2>1 DEF QueuesInv, RootIdle, RootPlace
<1> QED BY <1>3, <1>4, <1>5, <1>6, <1>7, <1>8, <1>9 DEF Left, Handed, k

(* A coroutine that leaves the scheduling to another one that is awake      *)
(* leaves the queues in order as well.                                      *)
LEMMA DeferEffect ==
    ASSUME QueuesTypeOK, NEW c \in Worker, NEW k, Left(c, k), k.methods \in Nat,
           Defer(c, "asleep", k),
           NEW heir \in Worker, heir # c, Awake(heir)
    PROVE  QueuesInv' /\ Announced' = Announced \ {c}
<1> USE KernelRequestsAssumption
<1>1. /\ running' = k.running /\ runningInvokers' = k.invokers
      /\ runningMethods' = k.methods /\ queue' = k.queue /\ pending' = k.ready
      /\ pc' = [pc EXCEPT ![c] = "asleep"] /\ owed' = TRUE
    BY DEF Defer
<1>2. \A x \in Coroutine : pc'[x] = IF x = c THEN "asleep" ELSE pc[x]
    BY <1>1 DEF QueuesTypeOK
<1>3. c \in Coroutine /\ c # Root /\ heir \in Coroutine /\ heir # Root
    BY DEF Coroutine, Worker
<1>4. QueuesTypeOK'
  <2>1. pc' \in [Coroutine -> {"asleep", "user", "requested", "halted", "ended"}]
      BY <1>1 DEF QueuesTypeOK
  <2>2. owed' \in BOOLEAN
      BY <1>1
  <2> QED BY <1>1, <2>1, <2>2 DEF QueuesTypeOK, Left, Handed
<1>5. QueueOwned' /\ PendingIdle'
    BY <1>1 DEF Left, Handed, QueueOwned, PendingIdle
<1>6. RunningIsAwake'
    BY <1>1, <1>2 DEF Left, Handed, RunningIsAwake, Awake, Coroutine, Worker
<1>7. pc'[Root] = "asleep"
    BY <1>2, <1>3 DEF Left, Handed, Coroutine
<1>8. RootPlace' /\ RootIdle'
    BY <1>7 DEF RootPlace, RootIdle
<1>9. NoFreeze'
  <2>1. pc'[heir] \in {"user", "requested"}
      BY <1>2, <1>3 DEF Awake
  <2> QED BY <2>1 DEF NoFreeze
<1>10. Announced' = Announced \ {c}
    BY <1>2 DEF Announced, Coroutine
<1> QED BY <1>4, <1>5, <1>6, <1>8, <1>9, <1>10 DEF QueuesInv

(* Every step preserves RequestsInv.                                        *)
LEMMA RequestsInvStep ==
    ASSUME RequestsInv, [Next]_vars
    PROVE  RequestsInv'
<1> USE KernelRequestsAssumption
<1>a. requests \in Int /\ requests = Cardinality(Announced) /\ QueuesInv /\ DeferredHasHeir
    BY RequestsInvParts
<1>b. QueuesTypeOK
    BY <1>a DEF QueuesInv
<1>c. Announced \subseteq Worker /\ \A c \in Worker : c \in Announced <=> pc[c] = "requested"
    BY DEF Announced
<1>d. SUFFICES requests' \in Int /\ requests' = Cardinality(Announced') /\ QueuesInv' /\ DeferredHasHeir'
    BY DEF RequestsInv, QueuesInv, TypeOK, QueuesTypeOK
<1>1. CASE UNCHANGED vars
  <2>1. Announced' = Announced
      BY <1>1 DEF vars, Announced
  <2>2. QueuesInv'
      BY <1>1, <1>a DEF vars, QueuesInv, QueuesTypeOK, RootPlace, QueueOwned, PendingIdle,
                        RunningIsAwake, RootIdle, NoFreeze
  <2> QED BY <1>1, <1>a, <2>1, <2>2 DEF vars, DeferredHasHeir
<1>2. CASE Start
  <2> DEFINE k == Without(Root, {})
  <2>1. pc[Root] = "user" /\ running = {} /\ runningInvokers = {}
      BY <1>2, <1>a DEF Start, QueuesInv, RootIdle
  <2>2. /\ k.running = {} /\ k.invokers = {} /\ k.methods = runningMethods
        /\ k.queue = queue /\ k.ready = pending
      BY <2>1 DEF Without
  <2> HIDE DEF k
  <2>3. k.methods = Cardinality(k.running \cap Method)
    <3>1. running \cap Method = k.running \cap Method
        BY <2>1, <2>2
    <3> QED BY <2>2, <3>1, <1>a DEF QueuesInv, RunningIsAwake
  <2>4. Left(Root, k)
      BY <2>1, <2>2, <2>3, <1>a DEF Left, Handed, QueuesInv, QueuesTypeOK, QueueOwned, RunningIsAwake, Awake
  <2>5. Root \in Coroutine /\ Root \notin Worker
      BY DEF Coroutine, Worker
  <2>6. QueuesInv' /\ owed' = FALSE /\ Announced' = Announced \ {Root}
    <3>1. Schedule(Root, "asleep", k)
        BY <1>2 DEF Start, k
    <3> QED BY <1>b, <2>4, <2>5, <3>1, LeavingEffect
  <2>7. Announced' = Announced /\ requests' = requests
      BY <2>5, <2>6, <1>2, <1>c DEF Start
  <2> QED BY <2>6, <2>7, <1>a DEF DeferredHasHeir
<1>3. ASSUME NEW c \in Worker, NEW p \in Process, Notify(c, p)
      PROVE  requests' \in Int /\ requests' = Cardinality(Announced') /\ QueuesInv' /\ DeferredHasHeir'
  <2>1. UNCHANGED <<requests, running, runningInvokers, runningMethods, queue, pc, owed>>
      BY <1>3 DEF Notify
  <2>2. pending' = pending \cup {p} /\ p \notin running
      BY <1>3 DEF Notify
  <2>3. Announced' = Announced
      BY <2>1 DEF Announced
  <2>4. QueuesInv'
      BY <2>1, <2>2, <1>a DEF QueuesInv, QueuesTypeOK, RootPlace, QueueOwned, PendingIdle,
                        RunningIsAwake, RootIdle, NoFreeze
  <2> QED BY <2>1, <2>3, <2>4, <1>a DEF DeferredHasHeir
<1>4. ASSUME NEW c \in Worker, Request(c)
      PROVE  requests' \in Int /\ requests' = Cardinality(Announced') /\ QueuesInv' /\ DeferredHasHeir'
  <2>1. UNCHANGED <<running, runningInvokers, runningMethods, queue, pending, owed>>
      BY <1>4 DEF Request
  <2>2. pc' = [pc EXCEPT ![c] = "requested"] /\ requests' = requests + 1 /\ pc[c] = "user"
      BY <1>4 DEF Request
  <2>3. \A x \in Coroutine : pc'[x] = IF x = c THEN "requested" ELSE pc[x]
      BY <2>2, <1>b DEF QueuesTypeOK
  <2>4. c # Root /\ c \in Coroutine /\ Worker \subseteq Coroutine
      BY DEF Worker, Coroutine
  <2>5. Announced' = Announced \cup {c} /\ c \notin Announced
      BY <2>2, <2>3, <2>4, <1>c DEF Announced
  <2>6. Cardinality(Announced') = requests + 1 /\ requests \in Nat
      BY <2>5, <1>a, AnnouncedCount
  <2>7. QueuesTypeOK'
    <3>1. pc' \in [Coroutine -> {"asleep", "user", "requested", "halted", "ended"}]
        BY <2>2, <1>b DEF QueuesTypeOK
    <3> QED BY <3>1, <2>1, <1>b DEF QueuesTypeOK
  <2>8. RunningIsAwake'
      BY <2>1, <2>2, <2>3, <2>4, <1>a DEF QueuesInv, RunningIsAwake, Coroutine, Worker
  <2>9. RootPlace' /\ RootIdle' /\ QueueOwned' /\ PendingIdle'
      BY <2>1, <2>3, <2>4, <1>a DEF QueuesInv, RootPlace, RootIdle, QueueOwned, PendingIdle, Coroutine
  <2>10. NoFreeze'
      BY <2>3, <2>4 DEF NoFreeze
  <2>11. QueuesInv'
      BY <2>7, <2>8, <2>9, <2>10 DEF QueuesInv
  <2>12. DeferredHasHeir'
      BY <2>2, <2>6 DEF DeferredHasHeir
  <2> QED BY <2>2, <2>6, <2>11, <2>12
<1>5. ASSUME NEW t \in Thread, Suspend(t)
      PROVE  requests' \in Int /\ requests' = Cardinality(Announced') /\ QueuesInv' /\ DeferredHasHeir'
  <2>1. pc[t] = "requested" /\ requests' = requests - 1
      BY <1>5 DEF Suspend
  <2>2. t \in Worker /\ t \in Coroutine /\ Awake(t) /\ t \in Announced /\ t # Root
      BY <2>1, <1>c DEF Worker, Coroutine, Awake
  <2>3. PICK self \in {{}, {t}} :
          IF requests = 1 THEN Schedule(t, "asleep", Without(t, self))
                          ELSE Defer(t, "asleep", Without(t, self))
      BY <1>5 DEF Suspend
  <2>4. Left(t, Without(t, self))
      BY <2>2, <1>a, ThreadLeaves
  <2>5. requests \in Nat /\ requests # 0
      BY <2>2, <1>a, AnnouncedCount
  <2>6. Announced' = Announced \ {t} => Cardinality(Announced') = requests - 1
      BY <2>2, <1>a, AnnouncedCount
  <2>7. CASE requests = 1
    <3>1. QueuesInv' /\ owed' = FALSE /\ Announced' = Announced \ {t}
        BY <2>2, <2>3, <2>4, <2>7, <1>b, LeavingEffect
    <3> QED BY <3>1, <2>1, <2>5, <2>6 DEF DeferredHasHeir
  <2>8. CASE requests # 1
    <3>1. PICK heir \in Announced : heir # t
        BY <2>2, <2>8, <1>a, AnnouncedCount
    <3>2. heir \in Worker /\ Awake(heir)
        BY <1>c DEF Awake
    <3>3. Without(t, self).methods \in Nat
        BY <1>b DEF Without, QueuesTypeOK
    <3>4. QueuesInv' /\ Announced' = Announced \ {t}
        BY <2>2, <2>3, <2>4, <2>8, <3>1, <3>2, <3>3, <1>b, DeferEffect
    <3>5. requests' > 0
        BY <2>1, <2>5, <2>8
    <3> QED BY <3>4, <3>5, <2>1, <2>5, <2>6 DEF DeferredHasHeir
  <2> QED BY <2>7, <2>8
<1>6. ASSUME NEW t \in Thread, End(t)
      PROVE  requests' \in Int /\ requests' = Cardinality(Announced') /\ QueuesInv' /\ DeferredHasHeir'
  <2>1. pc[t] = "user" /\ requests' = requests /\ Schedule(t, "ended", Without(t, {}))
      BY <1>6 DEF End
  <2>2. t \in Coroutine /\ Awake(t) /\ t \notin Announced /\ t # Root
      BY <2>1, <1>c DEF Worker, Coroutine, Awake, Announced
  <2>3. Left(t, Without(t, {}))
      BY <2>2, <1>a, ThreadLeaves
  <2>4. QueuesInv' /\ owed' = FALSE /\ Announced' = Announced \ {t}
      BY <2>1, <2>2, <2>3, <1>b, LeavingEffect
  <2> QED BY <2>1, <2>2, <2>4, <1>a DEF DeferredHasHeir
<1>7. ASSUME NEW i \in Invoker, SuspendInvoker(i)
      PROVE  requests' \in Int /\ requests' = Cardinality(Announced') /\ QueuesInv' /\ DeferredHasHeir'
  <2>1. pc[i] = "requested" /\ requests' = requests - 1
      BY <1>7 DEF SuspendInvoker
  <2>2. i \in Worker /\ i \in Coroutine /\ Awake(i) /\ i \in Announced /\ i # Root
      BY <2>1, <1>c DEF Worker, Coroutine, Awake
  <2>3. PICK again \in SUBSET queue[i] :
          IF requests = 1 /\ runningInvokers \ {i} = {}
          THEN Schedule(i, "asleep", AfterQueue(i, again))
          ELSE Defer(i, "asleep", AfterQueue(i, again))
      BY <1>7 DEF SuspendInvoker
  <2>4. Left(i, AfterQueue(i, again)) /\ AfterQueue(i, again).methods \in Nat
      BY <2>2, <1>a, InvokerLeaves
  <2>5. requests \in Nat /\ requests # 0
      BY <2>2, <1>a, AnnouncedCount
  <2>6. Announced' = Announced \ {i} => Cardinality(Announced') = requests - 1
      BY <2>2, <1>a, AnnouncedCount
  <2>7. CASE requests = 1 /\ runningInvokers \ {i} = {}
    <3>1. QueuesInv' /\ owed' = FALSE /\ Announced' = Announced \ {i}
        BY <2>2, <2>3, <2>4, <2>7, <1>b, LeavingEffect
    <3> QED BY <3>1, <2>1, <2>5, <2>6 DEF DeferredHasHeir
  <2>8. CASE ~(requests = 1 /\ runningInvokers \ {i} = {})
    <3>1. Defer(i, "asleep", AfterQueue(i, again))
        BY <2>3, <2>8
    <3>2. ASSUME requests # 1 PROVE \E h \in Worker : h # i /\ Awake(h)
        BY <3>2, <2>2, <1>a, <1>c, AnnouncedCount DEF Awake
    <3>3. ASSUME runningInvokers \ {i} # {} PROVE \E h \in Worker : h # i /\ Awake(h)
        BY <3>3, <1>a DEF QueuesInv, QueuesTypeOK, RunningIsAwake, Awake, Worker
    <3>4. PICK heir \in Worker : heir # i /\ Awake(heir)
        BY <2>8, <3>2, <3>3
    <3>5. QueuesInv' /\ Announced' = Announced \ {i}
        BY <2>2, <2>4, <3>1, <3>4, <1>b, DeferEffect
    <3>6. requests' > 0 \/ runningInvokers' # {}
      <4>1. runningInvokers' = runningInvokers \ {i}
          BY <3>1 DEF Defer, AfterQueue
      <4> QED BY <4>1, <2>1, <2>5, <2>8
    <3> QED BY <3>5, <3>6, <2>1, <2>5, <2>6 DEF DeferredHasHeir
  <2> QED BY <2>7, <2>8
<1>9. ASSUME NEW t \in Thread, Boundary(t)
      PROVE  requests' \in Int /\ requests' = Cardinality(Announced') /\ QueuesInv' /\ DeferredHasHeir'
  <2>1. pc[t] = "user" /\ requests' = requests /\ Schedule(t, "user", Here)
      BY <1>9 DEF Boundary
  <2>2. t \in Coroutine /\ Awake(t) /\ t \notin Announced /\ t # Root
      BY <2>1, <1>c DEF Worker, Coroutine, Awake, Announced
  <2>3. Handed(t, Here, TRUE)
      BY <2>2, <1>a, ThreadStays
  <2>4. QueuesInv' /\ owed' = FALSE /\ Announced' = Announced \ {t}
      BY <2>1, <2>2, <2>3, <1>b, ScheduleEffect
  <2> QED BY <2>1, <2>2, <2>4, <1>a DEF DeferredHasHeir
<1> QED
  <2>1. CASE Next
    <3>1. CASE \E c \in Worker, p \in Process : Notify(c, p)
        BY <3>1, <1>3
    <3>2. CASE \E c \in Worker : Request(c)
        BY <3>2, <1>4
    <3>3. CASE \E t \in Thread : Suspend(t) \/ End(t) \/ Boundary(t)
        BY <3>3, <1>5, <1>6, <1>9
    <3>4. CASE \E i \in Invoker : SuspendInvoker(i)
        BY <3>4, <1>7
    <3> QED BY <2>1, <3>1, <3>2, <3>3, <3>4, <1>2 DEF Next
  <2> QED BY <2>1, <1>1

(* RequestsInv holds in every reachable state of a program without halt().  *)
THEOREM RequestsInvHolds ==
    Spec => []RequestsInv
<1>1. Init => RequestsInv
    BY RequestsInvInit
<1>2. RequestsInv /\ [Next]_vars => RequestsInv'
    BY RequestsInvStep
<1> QED BY <1>1, <1>2, PTL DEF Spec

(* num_kernel_requests is the number of coroutines between their            *)
(* announcement and their suspension (wait() and suspend_me()).             *)
THEOREM RequestsCountedHolds ==
    Spec => []RequestsCounted
<1>1. RequestsInv => RequestsCounted
    BY DEF RequestsInv, RequestsCounted, Announced
<1> QED BY <1>1, RequestsInvHolds, PTL

(* A suspension that does not call oooschedule leaves an heir who will.     *)
THEOREM DeferredHasHeirHolds ==
    Spec => []DeferredHasHeir
<1>1. RequestsInv => DeferredHasHeir
    BY DEF RequestsInv
<1> QED BY <1>1, RequestsInvHolds, PTL

(* While sc_main waits in simulate() some process or invoker is awake.      *)
THEOREM NoFreezeHolds ==
    Spec => []NoFreeze
<1>1. RequestsInv => NoFreeze
    BY DEF RequestsInv
<1> QED BY <1>1, RequestsInvHolds, PTL

(* The running queue, running_invokers and running_methods say which        *)
(* coroutines are awake, and sc_main runs alone.                            *)
THEOREM RunningIsAwakeHolds ==
    Spec => [](RunningIsAwake /\ RootIdle)
<1>1. RequestsInv => RunningIsAwake /\ RootIdle
    BY DEF RequestsInv
<1> QED BY <1>1, RequestsInvHolds, PTL

(* The suspension protocol keeps the simulation going, for any number of    *)
(* threads, methods and invokers in a program without halt().               *)
THEOREM RequestsSafetyHolds ==
    Spec => []RequestsSafety
<1>1. RequestsInv => RequestsSafety
    BY DEF RequestsInv, RequestsSafety, RequestsCounted, Announced
<1> QED BY <1>1, RequestsInvHolds, PTL

(* The list an invoker walks without a lock is changed only by its own      *)
(* epilogue.                                                                *)
THEOREM QueueStableHolds ==
    Spec => QueueStable
<1> DEFINE Stable(i) == pc[i] \in {"user", "requested"} =>
               queue'[i] = queue[i] \/ (pc[i] = "requested" /\ requests' < requests)
<1>1. ASSUME RequestsInv, [Next]_vars, NEW i \in Invoker PROVE Stable(i)
  <2> USE KernelRequestsAssumption
  <2>1. QueuesInv /\ requests \in Int /\ i \in Coroutine /\ Root \notin Worker
      BY <1>1, RequestsInvParts DEF Coroutine, Worker
  <2> SUFFICES ASSUME Awake(i) PROVE Stable(i)
      BY DEF Awake
  <2>2. i \in runningInvokers /\ pc[Root] = "asleep"
      BY <2>1 DEF Awake, QueuesInv, RunningIsAwake, RootIdle, RootPlace
  <2>3. ASSUME NEW k, NEW c, NEW place, i \in k.invokers, k.queue[i] = queue[i],
               Schedule(c, place, k) \/ Defer(c, place, k)
        PROVE  queue'[i] = queue[i]
    <3>1. CASE Defer(c, place, k)
        BY <3>1, <2>3 DEF Defer
    <3>2. CASE Schedule(c, place, k)
      <4>1. PICK d \in SUBSET {p \in k.ready : Fits(p, k.invokers)} :
              queue' = [j \in Invoker |-> k.queue[j] \cup {m \in d \cap Method : InvokerOf[m] = j}]
          BY <3>2 DEF Schedule
      <4>2. {m \in d \cap Method : InvokerOf[m] = i} = {}
          BY <2>3 DEF Fits
      <4> QED BY <4>1, <4>2, <1>1, <2>3
    <3> QED BY <2>3, <3>1, <3>2
  <2>4. ASSUME NEW t, NEW self
        PROVE  i \in Without(t, self).invokers /\ Without(t, self).queue[i] = queue[i]
      BY <2>2 DEF Without
  <2>5. CASE UNCHANGED vars
      BY <2>5 DEF vars
  <2>6. CASE Start
      BY <2>6, <2>2 DEF Start
  <2>7. CASE \E c \in Worker, p \in Process : Notify(c, p)
      BY <2>7 DEF Notify
  <2>8. CASE \E c \in Worker : Request(c)
      BY <2>8 DEF Request
  <2>11. CASE \E t \in Thread : Boundary(t)
    <3>1. i \in Here.invokers /\ Here.queue[i] = queue[i]
        BY <2>2 DEF Here
    <3>2. PICK t \in Thread : Schedule(t, "user", Here)
        BY <2>11 DEF Boundary
    <3> QED BY <3>1, <3>2, <2>3
  <2>9. CASE \E t \in Thread : Suspend(t) \/ End(t)
    <3>1. PICK t \in Thread : Suspend(t) \/ End(t)
        BY <2>9
    <3>2. \E self, place : \/ Schedule(t, place, Without(t, self))
                           \/ Defer(t, place, Without(t, self))
        BY <3>1 DEF Suspend, End
    <3>3. queue'[i] = queue[i]
        BY <3>2, <2>3, <2>4
    <3> QED BY <3>3
  <2>10. ASSUME NEW j \in Invoker, SuspendInvoker(j) PROVE Stable(i)
    <3>1. PICK again \in SUBSET queue[j] :
            \/ Schedule(j, "asleep", AfterQueue(j, again))
            \/ Defer(j, "asleep", AfterQueue(j, again))
        BY <2>10 DEF SuspendInvoker
    <3>2. CASE j # i
      <4>1. i \in AfterQueue(j, again).invokers /\ AfterQueue(j, again).queue[i] = queue[i]
          BY <2>1, <2>2, <3>2 DEF AfterQueue, QueuesInv, QueuesTypeOK
      <4>2. queue'[i] = queue[i]
          BY <3>1, <4>1, <2>3
      <4> QED BY <4>2
    <3>3. CASE j = i
        BY <2>1, <2>10, <3>3 DEF SuspendInvoker
    <3> QED BY <3>2, <3>3
  <2> QED BY <1>1, <2>5, <2>6, <2>7, <2>8, <2>9, <2>10, <2>11 DEF Next
<1>2. RequestsInv /\ [Next]_vars => \A i \in Invoker : Stable(i)
    BY <1>1
<1> HIDE DEF Stable
<1>3. Spec => [][\A i \in Invoker : Stable(i)]_vars
    BY <1>2, RequestsInvHolds, PTL DEF Spec
<1> QED BY <1>3 DEF QueueStable, Stable
-----------------------------------------------------------------------------
(* The calls that frame the simulation: SimStatus, with processes and       *)
(* variables of its own.                                                    *)
CONSTANTS SimProcess, Durations, MaxTime, MaxDelta, MaxStarts, Calls, FinishDelta, Alone
VARIABLES at, status, control, prepared, forced, paused, error, policy, duration, time,
          state, ts, call, pass, latest, starts, ends, stopped, shown

Status == INSTANCE SimStatus WITH Process <- SimProcess

(* a is not later than b.                                                   *)
AtMost(a, b) == ~Status!Before(b, a)

(* What the proofs need of the types.                                       *)
StatusTypes ==
    /\ at \in {"main", "kernel", "crash"}
    /\ status \in {"ELABORATION", "RUNNING", "PAUSED", "STOPPED"}
    /\ duration \in Status!FiniteTimestamp /\ time \in Status!FiniteTimestamp
          /\ latest \in Status!FiniteTimestamp /\ shown \in Status!FiniteTimestamp
    /\ state \in [SimProcess -> {"ready", "taken", "issued", "run", "wait", "paused", "done"}]
    /\ ts \in [SimProcess -> Status!FiniteTimestamp]
    /\ call \in [SimProcess -> {"none", "duration", "time", "delta", "flag"}]
    /\ pass \in {"closed", "open", "read", "write", "decide"}
    /\ ends \in {0, 1}
    /\ stopped \in Status!AnyTimestamp

(* Nothing comes between the steps of stop(), or it has not been called.    *)
Calm == Alone \/ stopped = Status!Infinite

(* Nothing that can still run is behind the time that sc_main has seen.     *)
Grown ==
    /\ AtMost(shown, time)
    /\ at = "kernel" => AtMost(shown, duration)
    /\ pass = "write" => AtMost(shown, latest)
    /\ at = "kernel" \/ Calm =>
          \A p \in SimProcess : state[p] \notin {"wait", "done"} => AtMost(shown, ts[p])

(* Where the processes are while sc_main runs and during a pass.            *)
Places ==
    /\ at # "kernel" =>
          pass = "closed" /\ \A p \in SimProcess : state[p] \notin {"taken", "issued", "run"}
    /\ at = "main" /\ status \in {"PAUSED", "STOPPED"} =>
          \A p \in SimProcess : state[p] # "ready"
    /\ \A p \in SimProcess : state[p] = "taken" =>
          pass \in {"read", "write", "decide"} /\ \A q \in SimProcess : state[q] = "taken" => q = p
    /\ \A p \in SimProcess : call[p] # "none" => state[p] = "run"

(* Who has called stop() is in it still, or m_forced_stop is set.           *)
Noted == stopped # Status!Infinite <=> forced \/ \E p \in SimProcess : call[p] # "none"

(* Where stop() puts the end of the period.                                 *)
CutEnd == IF FinishDelta THEN <<stopped[1], stopped[2] + 1>> ELSE stopped

(* The progress of a call of stop() by a process that runs alone.           *)
CallRight ==
    Alone => \A p \in SimProcess : call[p] # "none" =>
        /\ pass = "closed" /\ ~forced /\ stopped = ts[p]
        /\ \A q \in SimProcess \ {p} : state[q] \notin {"issued", "run"}
        /\ call[p] \in {"time", "delta"} => duration = stopped
        /\ call[p] = "flag" => duration = CutEnd
        /\ call[p] \in {"delta", "flag"} => time = stopped
        /\ \A q \in SimProcess : state[q] = "paused" => Status!Before(stopped, ts[q])

(* The end of the period, and who is before it.                             *)
PeriodRight ==
    at = "kernel" /\ Calm =>
        /\ (\A p \in SimProcess : call[p] # "time") => AtMost(time, duration)
        /\ pass = "write" => AtMost(latest, duration)
        /\ pass = "read" => \A p \in SimProcess : state[p] = "taken" => AtMost(ts[p], duration)
        /\ \A p \in SimProcess : state[p] = "paused" => AtMost(duration, ts[p])
        /\ ~forced /\ (\A p \in SimProcess : call[p] \in {"none", "duration"}) =>
              \A p \in SimProcess : state[p] \in {"issued", "run"} => Status!Before(ts[p], duration)
        /\ forced => /\ duration = CutEnd
                     /\ \A p \in SimProcess : state[p] = "issued" => Status!Before(ts[p], duration)

(* Who has announced the end of the simulation.                             *)
EndRight ==
    /\ at = "kernel" => ends = 0 /\ status # "STOPPED"
    /\ at = "main" => (ends = 1 <=> forced) /\ (forced <=> status = "STOPPED")

StatusInv ==
    StatusTypes /\ Grown /\ Places /\ Noted /\ CallRight /\ PeriodRight /\ EndRight

(* The order of the timestamps is linear, and Later is the later one.       *)
LEMMA OrderFacts ==
  /\ \A a, b, c \in Status!FiniteTimestamp :
       /\ AtMost(a, a)
       /\ AtMost(a, b) /\ AtMost(b, c) => AtMost(a, c)
       /\ Status!Before(a, b) /\ AtMost(b, c) => Status!Before(a, c)
       /\ AtMost(a, b) /\ Status!Before(b, c) => Status!Before(a, c)
  /\ \A a, b \in Status!FiniteTimestamp :
       /\ Status!Before(a, b) => AtMost(a, b)
       /\ Status!NotAfter(a, b) <=> AtMost(a, b)
       /\ ~AtMost(a, b) <=> Status!Before(b, a)
       /\ Status!Later(a, b) \in Status!FiniteTimestamp /\ AtMost(a, Status!Later(a, b))
             /\ AtMost(b, Status!Later(a, b))
       /\ \A c \in Status!FiniteTimestamp : AtMost(a, c) /\ AtMost(b, c)
             => AtMost(Status!Later(a, b), c)
  BY DEF AtMost, Status!Before, Status!NotAfter, Status!Same, Status!Later,
        Status!FiniteTimestamp, Status!Infinite

(* The next delta cycle: nothing is between it and this one.                *)
LEMMA NextDelta ==
  ASSUME NEW a \in Status!FiniteTimestamp
  PROVE  /\ <<a[1], a[2] + 1>> \in Status!FiniteTimestamp
         /\ AtMost(a, <<a[1], a[2] + 1>>)
         /\ \A b \in Status!FiniteTimestamp : Status!Before(a, b) => AtMost(<<a[1], a[2] + 1>>, b)
         /\ \A b \in Status!FiniteTimestamp : Status!Before(b, <<a[1], a[2] + 1>>) => AtMost(b, a)
         /\ a # Status!Infinite
  BY DEF AtMost, Status!Before, Status!FiniteTimestamp, Status!Infinite

(* A sum of timestamps is not earlier than they are.                        *)
LEMMA PlusFacts ==
  ASSUME NEW a \in Status!FiniteTimestamp, NEW b \in Status!FiniteTimestamp
  PROVE  Status!Plus(a, b) \in Status!FiniteTimestamp /\ AtMost(a, Status!Plus(a, b))
  BY DEF Status!Plus, AtMost, Status!Before, Status!FiniteTimestamp, Status!Infinite

(* A period of sc_start() does not end before it begins.                    *)
LEMMA EndFacts ==
  ASSUME StatusTypes, NEW d \in Nat
  PROVE  Status!End(d) \in Status!FiniteTimestamp /\ AtMost(time, Status!End(d))
  BY DEF StatusTypes, Status!End, AtMost, Status!Before, Status!FiniteTimestamp, Status!Infinite

(* Before the first call of sc_start().                                     *)
LEMMA StatusInit ==
  ASSUME Status!StatusAssumption, Status!Init
  PROVE  StatusInv
<1>1. <<0, 0>> \in Status!FiniteTimestamp /\ AtMost(<<0, 0>>, <<0, 0>>)
  BY OrderFacts DEF Status!FiniteTimestamp
<1> QED
  BY <1>1 DEF Status!Init, StatusInv, StatusTypes, Grown, Places, Noted, CallRight, PeriodRight,
        EndRight, Status!AnyTimestamp

(* While a pass is under way, or somebody else runs outside of stop(),      *)
(* nobody is in a call of it, unless such calls may be disturbed.           *)
LEMMA CalmFacts ==
  ASSUME StatusInv, Calm
  PROVE  /\ pass # "closed" => \A q \in SimProcess : call[q] = "none"
         /\ \A p \in SimProcess : state[p] \in {"issued", "run"} /\ call[p] = "none" =>
               \A q \in SimProcess : call[q] = "none"
  BY DEF StatusInv, Calm, CallRight, Noted, Places

(* sc_start(): what was paused is ready again, at times that are not past.  *)
LEMMA StartStep ==
  ASSUME Status!StatusAssumption, StatusInv, NEW d \in Durations, NEW p, Status!sc_start(d, p)
  PROVE  StatusInv'
<1> USE DEF StatusInv, StatusTypes
<1>1. Status!End(d) \in Status!FiniteTimestamp /\ AtMost(time, Status!End(d))
  BY EndFacts DEF Status!StatusAssumption
<1>2. at = "main" /\ UNCHANGED <<time, ts, call, latest, shown, ends, stopped, forced>>
      /\ duration' = Status!End(d)
  BY DEF Status!sc_start, Status!Refuse, Status!Overflow, Status!Simulate, Status!processes,
        Status!scheduler
<1>3. pass = "closed" /\ \A q \in SimProcess : call[q] = "none"
  BY <1>2 DEF Places
<1>4. CASE Status!Refuse(d)
  BY <1>1, <1>2, <1>3, <1>4
  DEF Status!sc_start, Status!Refuse, Status!processes, Status!scheduler, Calm, Grown, Places,
        Noted, CallRight, PeriodRight, EndRight
<1>5. CASE Status!Overflow(d)
  BY <1>1, <1>2, <1>3, <1>5
  DEF Status!sc_start, Status!Overflow, Status!processes, Status!scheduler, Status!sim_status,
        Calm, Grown, Places, Noted, CallRight, PeriodRight, EndRight
<1>6. CASE Status!Simulate(d)
  <2>1. at' = "kernel" /\ pass' = "open" /\ ~forced
        /\ state' = [q \in SimProcess |-> Status!Resumed(q)]
    BY <1>6 DEF Status!Simulate, Status!sim_status
  <2>2. \A q \in SimProcess : state'[q] \in {"ready", "wait", "done"}
                           /\ (state[q] \in {"wait", "done"} <=> state'[q] \in {"wait", "done"})
    BY <1>2, <2>1 DEF Status!Resumed, Places
  <2>3. status' \in {"RUNNING", status}
    BY <1>6 DEF Status!Simulate
  <2>4. StatusTypes'
    BY <1>1, <1>2, <2>1, <2>2, <2>3
  <2>5. Calm
    BY <1>3, <2>1 DEF Noted, Calm
  <2>6. Grown'
    BY <1>1, <1>2, <2>1, <2>2, <2>5, OrderFacts DEF Grown
  <2>7. Places' /\ Noted' /\ CallRight' /\ PeriodRight'
    BY <1>1, <1>2, <1>3, <2>1, <2>2 DEF Places, Noted, CallRight, PeriodRight
  <2>8. EndRight'
    BY <1>2, <2>1, <2>3 DEF EndRight
  <2> QED BY <2>4, <2>6, <2>7, <2>8
<1> QED BY <1>4, <1>5, <1>6 DEF Status!sc_start

(* The time is read and written only for a process that is in the period,   *)
(* so that it moves at most to the end of it.                               *)
LEMMA TimeStepRight ==
  ASSUME Status!StatusAssumption, StatusInv, NEW p \in SimProcess,
         Status!Take(p) \/ Status!ReadTime(p) \/ Status!WriteTime(p)
  PROVE  StatusInv'
<1> USE DEF StatusInv, StatusTypes
<1>1. pass # "closed" /\ at = "kernel"
      /\ UNCHANGED <<at, status, forced, duration, ts, call, ends, stopped, shown>>
  BY DEF Status!Take, Status!ReadTime, Status!WriteTime, Status!flags, Status!processes,
        Status!history, Places
<1>2. Calm => \A q \in SimProcess : call[q] = "none"
  BY <1>1, CalmFacts
<1>3. \A q \in SimProcess : call[q] # "none" => ~Alone
  BY <1>1 DEF CallRight
<1>4. ts[p] \in Status!FiniteTimestamp
  OBVIOUS
<1>5. CASE Status!Take(p)
  <2>1. /\ pass = "open" /\ state[p] = "ready" /\ state' = [state EXCEPT ![p] = "taken"]
        /\ pass' = (IF Status!NotAfter(ts[p], duration) THEN "read" ELSE "decide")
        /\ UNCHANGED <<time, latest>>
    BY <1>5 DEF Status!Take, Status!InPeriod
  <2>2. pass' = "read" => AtMost(ts[p], duration)
    BY <1>4, <2>1, OrderFacts
  <2>3. Places'
    BY <1>1, <2>1 DEF Places
  <2>4. StatusTypes' /\ Grown' /\ Noted' /\ CallRight' /\ EndRight'
    BY <1>1, <1>3, <2>1 DEF Grown, Calm, Noted, CallRight, EndRight
  <2>5. \A q \in SimProcess : state'[q] = "taken" => q = p
    BY <2>1 DEF Places
  <2>6. PeriodRight'
    BY <1>1, <1>2, <2>1, <2>2, <2>5 DEF PeriodRight, Calm, CutEnd
  <2> QED BY <2>3, <2>4, <2>6
<1>6. CASE Status!ReadTime(p)
  <2>1. /\ pass = "read" /\ state[p] = "taken" /\ latest' = Status!Later(time, ts[p])
        /\ pass' = "write" /\ UNCHANGED <<time, state>>
    BY <1>6 DEF Status!ReadTime, Status!processes
  <2>2. latest' \in Status!FiniteTimestamp /\ AtMost(time, latest')
    BY <1>4, <2>1, OrderFacts
  <2>3. AtMost(shown, latest')
    BY <2>2, OrderFacts DEF Grown
  <2>4. StatusTypes' /\ Grown' /\ Places' /\ Noted' /\ CallRight' /\ EndRight'
    BY <1>1, <1>3, <2>1, <2>2, <2>3 DEF Grown, Places, Calm, Noted, CallRight, EndRight
  <2>5. Calm => AtMost(latest', duration)
    <3>1. Calm => AtMost(time, duration) /\ AtMost(ts[p], duration)
      BY <1>1, <1>2, <2>1 DEF PeriodRight
    <3> QED BY <1>4, <2>1, <3>1, OrderFacts
  <2>6. PeriodRight'
    BY <1>1, <1>2, <2>1, <2>5 DEF PeriodRight, Calm, CutEnd
  <2> QED BY <2>4, <2>6
<1>7. CASE Status!WriteTime(p)
  <2>1. /\ pass = "write" /\ state[p] = "taken" /\ time' = latest
        /\ pass' = "decide" /\ UNCHANGED <<latest, state>>
    BY <1>7 DEF Status!WriteTime, Status!processes
  <2>2. StatusTypes' /\ Grown' /\ Places' /\ Noted' /\ CallRight' /\ EndRight'
    BY <1>1, <1>3, <2>1 DEF Grown, Places, Calm, Noted, CallRight, EndRight
  <2>3. PeriodRight'
    BY <1>1, <1>2, <2>1 DEF PeriodRight, Calm, CutEnd
  <2> QED BY <2>2, <2>3
<1> QED BY <1>5, <1>6, <1>7

(* A process is issued if the period has not ended before it, unless it is  *)
(* put back, and begins when the pass is over.                              *)
LEMMA IssueStep ==
  ASSUME Status!StatusAssumption, StatusInv, NEW p \in SimProcess,
         Status!Decide(p) \/ Status!PutBack(p) \/ Status!Begin(p)
  PROVE  StatusInv'
<1> USE DEF StatusInv, StatusTypes
<1>1. UNCHANGED <<at, status, forced, duration, time, ts, call, latest, ends, stopped, shown>>
  BY DEF Status!Decide, Status!PutBack, Status!Begin, Status!flags, Status!history, Status!scheduler
<1>2. ts[p] \in Status!FiniteTimestamp
  OBVIOUS
<1>3. CASE Status!Decide(p)
  <2>1. /\ pass = "decide" /\ state[p] = "taken" /\ pass' = "open" /\ at = "kernel"
        /\ state' = [state EXCEPT ![p] =
                        IF Status!NotAfter(duration, ts[p]) THEN "paused" ELSE "issued"]
    BY <1>3 DEF Status!Decide, Places
  <2>2. /\ state'[p] \in {"paused", "issued"}
        /\ state'[p] = "paused" <=> AtMost(duration, ts[p])
        /\ state'[p] = "issued" <=> Status!Before(ts[p], duration)
        /\ \A q \in SimProcess \ {p} : state'[q] = state[q]
    BY <1>2, <2>1, OrderFacts
  <2>3. Calm => \A q \in SimProcess : call[q] = "none"
    BY <2>1, CalmFacts
  <2>4. \A q \in SimProcess : call[q] # "none" => ~Alone
    BY <2>1 DEF CallRight
  <2>5. Places'
    BY <1>1, <2>1, <2>2 DEF Places
  <2>6. StatusTypes' /\ Grown' /\ Noted' /\ CallRight' /\ EndRight'
    BY <1>1, <2>1, <2>2, <2>4 DEF Grown, Calm, Noted, CallRight, EndRight
  <2>7. PeriodRight'
    BY <1>1, <2>1, <2>2, <2>3 DEF PeriodRight, Calm, CutEnd
  <2> QED BY <2>5, <2>6, <2>7
<1>4. CASE Status!Begin(p)
  <2>1. /\ pass = "closed" /\ state[p] = "issued" /\ pass' = pass /\ at = "kernel"
        /\ state' = [state EXCEPT ![p] = "run"]
    BY <1>4 DEF Status!Begin, Status!scheduler, Places
  <2>2. call[p] = "none"
    BY <2>1 DEF Places
  <2>3. Calm => \A q \in SimProcess : call[q] = "none"
    BY <2>1, <2>2, CalmFacts
  <2>4. Places' /\ CallRight'
    BY <1>1, <2>1, <2>3 DEF Places, CallRight, Calm
  <2>5. StatusTypes' /\ Grown' /\ Noted' /\ EndRight'
    BY <1>1, <2>1 DEF Grown, Calm, Noted, EndRight
  <2>6. PeriodRight'
    BY <1>1, <2>1, <2>3 DEF PeriodRight, Calm, CutEnd
  <2> QED BY <2>4, <2>5, <2>6
<1>5. CASE Status!PutBack(p)
  <2>1. /\ pass = "decide" /\ state[p] = "taken" /\ pass' = "open" /\ at = "kernel"
        /\ state' = [state EXCEPT ![p] = "ready"]
    BY <1>5 DEF Status!PutBack, Places
  <2>2. \A q \in SimProcess : call[q] # "none" => ~Alone
    BY <2>1 DEF CallRight
  <2>3. Places'
    BY <1>1, <2>1 DEF Places
  <2>4. StatusTypes' /\ Grown' /\ Noted' /\ CallRight' /\ EndRight'
    BY <1>1, <2>1, <2>2 DEF Grown, Calm, Noted, CallRight, EndRight
  <2>5. PeriodRight'
    BY <1>1, <2>1 DEF PeriodRight, Calm, CutEnd
  <2> QED BY <2>3, <2>4, <2>5
<1> QED BY <1>3, <1>4, <1>5

(* What the end of a segment, which opens a pass, and a notification do.    *)
LEMMA LeaveStep ==
  ASSUME Status!StatusAssumption, StatusInv, NEW p \in SimProcess, Status!Runs(p),
         pass = "closed", pass' \in {"closed", "open"},
         \A q \in SimProcess : state'[q] = state[q] \/ state'[q] \in {"ready", "wait", "done"},
         \A q \in SimProcess : state'[q] \notin {"wait", "done"} => AtMost(shown, ts'[q]),
         \A q \in SimProcess : state'[q] \in {"issued", "run", "paused"} =>
             state'[q] = state[q] /\ ts'[q] = ts[q],
         \A q \in SimProcess : q # p /\ state[q] = "run" => state'[q] = "run",
         ts' \in [SimProcess -> Status!FiniteTimestamp],
         state' \in [SimProcess -> {"ready", "taken", "issued", "run", "wait", "paused", "done"}],
         UNCHANGED <<at, status, forced, duration, time, call, latest, ends, stopped, shown>>
  PROVE  StatusInv'
<1> USE DEF StatusInv, StatusTypes
<1>1. state[p] = "run" /\ call[p] = "none" /\ at = "kernel"
  BY DEF Status!Runs, Places
<1>2. Calm => \A q \in SimProcess : call[q] = "none"
  BY <1>1, CalmFacts
<1>3. \A q \in SimProcess : state[q] # "taken" /\ state'[q] # "taken"
  BY DEF Places
<1>4. \A q \in SimProcess : call[q] # "none" => q # p /\ state[q] = "run"
  BY <1>1 DEF Places
<1>5. StatusTypes'
  OBVIOUS
<1>6. Places'
  BY <1>1, <1>3, <1>4 DEF Places
<1>7. Grown' /\ Noted' /\ CallRight' /\ EndRight'
  BY <1>1, <1>2 DEF Grown, Calm, Noted, CallRight, EndRight
<1>8. PeriodRight'
  BY <1>1, <1>2, <1>3 DEF PeriodRight, Calm, CutEnd
<1> QED BY <1>5, <1>6, <1>7, <1>8

(* A process that leaves the processor is ready at a later time, or not at  *)
(* all.                                                                     *)
LEMMA SuspendStep ==
  ASSUME Status!StatusAssumption, StatusInv, NEW p \in SimProcess,
         Status!WaitTime(p) \/ Status!WaitDelta(p) \/ Status!WaitEvent(p) \/ Status!Finish(p)
  PROVE  StatusInv'
<1> USE DEF StatusInv, StatusTypes
<1>1. ts[p] \in Status!FiniteTimestamp /\ AtMost(shown, ts[p])
  BY DEF Status!WaitTime, Status!WaitDelta, Status!WaitEvent, Status!Finish, Status!Suspend,
        Status!Runs, Grown, Places
<1>2. <<1, 0>> \in Status!FiniteTimestamp /\ Status!Delta \in Status!FiniteTimestamp
  BY DEF Status!FiniteTimestamp, Status!Delta
<1>3. PICK s \in {"ready", "wait", "done"}, t \in Status!FiniteTimestamp :
        Status!Suspend(p, s, t) /\ AtMost(ts[p], t)
  <2>1. AtMost(ts[p], ts[p])
    BY <1>1, OrderFacts
  <2> QED BY <1>1, <1>2, <2>1, PlusFacts DEF Status!WaitTime, Status!WaitDelta,
        Status!WaitEvent, Status!Finish
<1>4. AtMost(shown, t)
  BY <1>1, <1>3, OrderFacts
<1>5. /\ Status!Runs(p) /\ state' = [state EXCEPT ![p] = s] /\ ts' = [ts EXCEPT ![p] = t]
      /\ pass = "closed" /\ pass' = "open"
      /\ UNCHANGED <<at, status, forced, duration, time, call, latest, ends, stopped, shown>>
  BY <1>3 DEF Status!Suspend, Status!flags, Status!history
<1>6. \A q \in SimProcess : state'[q] \notin {"wait", "done"} => AtMost(shown, ts'[q])
  BY <1>4, <1>5 DEF Grown, Status!Runs, Places
<1> QED BY <1>5, <1>6, LeaveStep

(* A woken process runs after the one that wakes it.                        *)
LEMMA NotifyStep ==
  ASSUME Status!StatusAssumption, StatusInv, NEW p \in SimProcess, NEW q \in SimProcess,
        Status!Notify(p, q)
  PROVE  StatusInv'
<1> USE DEF StatusInv, StatusTypes
<1> DEFINE t == Status!Plus(Status!Later(ts[p], ts[q]), Status!Delta)
<1>1. /\ Status!Runs(p) /\ state[q] = "wait" /\ ts' = [ts EXCEPT ![q] = t]
      /\ state' = [state EXCEPT ![q] = "ready"] /\ pass = "closed" /\ pass' = pass
      /\ UNCHANGED <<at, status, forced, duration, time, call, latest, ends, stopped, shown>>
  BY DEF Status!Notify, Status!flags, Status!history, Status!scheduler
<1>2. t \in Status!FiniteTimestamp /\ AtMost(shown, t)
  <2>1. ts[p] \in Status!FiniteTimestamp /\ ts[q] \in Status!FiniteTimestamp
        /\ AtMost(shown, ts[p])
    BY <1>1 DEF Status!Runs, Grown, Places
  <2>2. /\ Status!Later(ts[p], ts[q]) \in Status!FiniteTimestamp
        /\ AtMost(ts[p], Status!Later(ts[p], ts[q]))
    BY <2>1, OrderFacts
  <2>3. Status!Delta \in Status!FiniteTimestamp
    BY DEF Status!Delta, Status!FiniteTimestamp
  <2>4. t \in Status!FiniteTimestamp /\ AtMost(Status!Later(ts[p], ts[q]), t)
    BY <2>2, <2>3, PlusFacts
  <2>5. AtMost(ts[p], t)
    BY <2>1, <2>2, <2>4, OrderFacts
  <2> QED BY <2>1, <2>4, <2>5, OrderFacts
<1> HIDE DEF t
<1>3. \A r \in SimProcess : state'[r] \notin {"wait", "done"} => AtMost(shown, ts'[r])
  BY <1>1, <1>2 DEF Grown, Status!Runs, Places
<1>4. /\ ts' \in [SimProcess -> Status!FiniteTimestamp]
      /\ state' \in [SimProcess -> {"ready", "taken", "issued", "run", "wait", "paused", "done"}]
  BY <1>1, <1>2
<1> QED BY <1>1, <1>3, <1>4, LeaveStep

(* stop(): the steps of the calls move the duration, then the time, and set *)
(* the flag.  Nothing they write is before what sc_main has seen, whatever  *)
(* comes between them; and what one call writes is what it read, if nothing *)
(* comes between its steps.                                                 *)
LEMMA StopStepRight ==
  ASSUME Status!StatusAssumption, StatusInv, NEW p \in SimProcess,
         \/ Status!CheckStop(p) \/ Status!CutDuration(p) \/ Status!SetTime(p)
         \/ Status!AddDelta(p) \/ Status!SetForced(p)
  PROVE  StatusInv'
<1> USE DEF StatusInv, StatusTypes
<1>0. /\ ts[p] \in Status!FiniteTimestamp /\ ts[p] # Status!Infinite
      /\ UNCHANGED <<at, status, state, ts, pass, latest, ends, shown>>
  BY NextDelta DEF Status!CheckStop, Status!CutDuration, Status!SetTime, Status!AddDelta,
        Status!SetForced, Status!flags, Status!history, Status!scheduler
<1>1. state[p] = "run" /\ at = "kernel" /\ AtMost(shown, ts[p])
  BY DEF Status!CheckStop, Status!Runs, Status!CutDuration, Status!SetTime, Status!AddDelta,
        Status!SetForced, Places, Grown
<1>2. CASE Status!CheckStop(p)
  <2>1. /\ ~forced /\ call[p] = "none" /\ call' = [call EXCEPT ![p] = "duration"]
        /\ stopped' = IF stopped = Status!Infinite THEN ts[p] ELSE stopped
        /\ UNCHANGED <<forced, duration, time>>
        /\ Alone => pass = "closed" /\ \A q \in SimProcess \ {p} : state[q] \notin {"issued", "run"}
    BY <1>2 DEF Status!CheckStop, Status!Runs, Status!RunsAlone, Status!flags
  <2>2. Alone => stopped = Status!Infinite /\ \A q \in SimProcess : call[q] = "none"
    BY <2>1 DEF Places, Noted
  <2>3. Alone => \A q \in SimProcess : state[q] = "paused" => Status!Before(ts[p], ts[q])
    <3>1. Alone => /\ Status!Before(ts[p], duration)
                   /\ \A q \in SimProcess : state[q] = "paused" => AtMost(duration, ts[q])
      BY <1>1, <2>1, <2>2 DEF PeriodRight, Calm
    <3> QED BY <1>0, <3>1, OrderFacts
  <2>4. StatusTypes' /\ Grown' /\ Places' /\ EndRight'
    BY <1>0, <1>1, <2>1 DEF Status!AnyTimestamp, Grown, Calm, Places, EndRight
  <2>5. Noted'
    BY <1>0, <2>1 DEF Noted
  <2>6. CallRight'
    BY <1>0, <2>1, <2>2, <2>3 DEF CallRight
  <2>7. PeriodRight'
    BY <1>0, <1>1, <2>1, <2>2 DEF PeriodRight, Calm
  <2> QED BY <2>4, <2>5, <2>6, <2>7
<1>3. ASSUME call[p] # "none" PROVE Calm => Alone /\ \A q \in SimProcess : call[q] # "none" => q = p
  BY <1>3 DEF Calm, Noted, CallRight, Places
<1>4. CASE Status!CutDuration(p)
  <2>1. /\ call[p] = "duration" /\ call' = [call EXCEPT ![p] = "time"] /\ duration' = ts[p]
        /\ UNCHANGED <<forced, time, stopped>>
    BY <1>4 DEF Status!CutDuration, Status!flags, Status!history
  <2>2. StatusTypes' /\ Grown' /\ Places' /\ Noted' /\ EndRight'
    BY <1>0, <1>1, <2>1 DEF Grown, Calm, Places, Noted, EndRight
  <2>3. CallRight'
    BY <1>0, <1>3, <2>1 DEF CallRight, Calm, CutEnd
  <2>4. Calm => stopped = ts[p] /\ ~forced /\ pass = "closed"
        /\ \A q \in SimProcess : state[q] = "paused" => AtMost(ts[p], ts[q])
    BY <1>0, <1>3, <2>1, OrderFacts DEF CallRight
  <2>5. PeriodRight'
    BY <1>0, <1>1, <1>3, <2>1, <2>4 DEF PeriodRight, Calm
  <2> QED BY <2>2, <2>3, <2>5
<1>5. CASE Status!SetTime(p)
  <2>1. /\ call[p] = "time" /\ call' = [call EXCEPT ![p] = "delta"] /\ time' = duration
        /\ UNCHANGED <<forced, duration, stopped>>
    BY <1>5 DEF Status!SetTime, Status!flags, Status!history
  <2>2. StatusTypes' /\ Grown' /\ Places' /\ Noted' /\ EndRight'
    BY <1>0, <1>1, <2>1 DEF Grown, Calm, Places, Noted, EndRight
  <2>3. CallRight'
    BY <1>0, <1>3, <2>1 DEF CallRight, Calm, CutEnd
  <2>4. AtMost(time', duration')
    BY <2>1, OrderFacts
  <2>5. Calm => ~forced /\ pass = "closed"
    BY <1>3, <2>1 DEF CallRight
  <2>6. PeriodRight'
    BY <1>0, <1>1, <1>3, <2>1, <2>4, <2>5 DEF PeriodRight, Calm
  <2> QED BY <2>2, <2>3, <2>6
<1>6. CASE Status!AddDelta(p)
  <2> DEFINE end(x) == IF FinishDelta THEN <<x[1], x[2] + 1>> ELSE x
  <2>1. /\ call[p] = "delta" /\ call' = [call EXCEPT ![p] = "flag"] /\ duration' = end(duration)
        /\ UNCHANGED <<forced, time, stopped>>
    BY <1>6 DEF Status!AddDelta, Status!flags, Status!history
  <2>2. \A x \in Status!FiniteTimestamp :
           /\ end(x) \in Status!FiniteTimestamp /\ AtMost(x, end(x))
           /\ \A y \in Status!FiniteTimestamp : Status!Before(x, y) => AtMost(end(x), y)
    BY NextDelta, OrderFacts
  <2>3. CutEnd = end(stopped)
    BY DEF CutEnd
  <2> HIDE DEF end
  <2>4. AtMost(shown, duration')
    BY <1>1, <2>1, <2>2, OrderFacts DEF Grown
  <2>5. StatusTypes' /\ Grown' /\ Places' /\ Noted' /\ EndRight'
    BY <1>0, <1>1, <2>1, <2>2, <2>4 DEF Grown, Calm, Places, Noted, EndRight
  <2>6. Calm => /\ stopped = ts[p] /\ duration = stopped /\ time = stopped /\ ~forced
                /\ pass = "closed"
                /\ \A q \in SimProcess : state[q] = "paused" => Status!Before(stopped, ts[q])
    BY <1>3, <2>1 DEF CallRight
  <2>7. Calm => /\ AtMost(time, duration')
                /\ \A q \in SimProcess : state[q] = "paused" => AtMost(duration', ts[q])
    BY <1>0, <2>1, <2>2, <2>6
  <2>8. CallRight'
    BY <1>0, <1>3, <2>1, <2>3, <2>6 DEF CallRight, Calm, CutEnd
  <2>9. PeriodRight'
    BY <1>0, <1>1, <1>3, <2>1, <2>6, <2>7 DEF PeriodRight, Calm
  <2> QED BY <2>5, <2>8, <2>9
<1>7. CASE Status!SetForced(p)
  <2>1. /\ call[p] = "flag" /\ call' = [call EXCEPT ![p] = "none"] /\ forced'
        /\ UNCHANGED <<duration, time, stopped>>
    BY <1>7 DEF Status!SetForced, Status!history
  <2>2. StatusTypes' /\ Grown' /\ Places' /\ EndRight'
    BY <1>0, <1>1, <2>1 DEF Grown, Calm, Places, EndRight
  <2>3. Noted'
    BY <2>1 DEF Noted
  <2>4. Calm => /\ duration = CutEnd /\ pass = "closed"
                /\ \A q \in SimProcess : state[q] # "issued"
    BY <1>1, <1>3, <2>1 DEF CallRight
  <2>5. CallRight'
    BY <1>0, <1>3, <2>1 DEF CallRight, Calm
  <2>6. PeriodRight'
    BY <1>0, <1>1, <1>3, <2>1, <2>4 DEF PeriodRight, Calm, CutEnd
  <2> QED BY <2>2, <2>3, <2>5, <2>6
<1> QED BY <1>2, <1>4, <1>5, <1>6, <1>7

(* simulate() returns when nobody is ready: the rest waits behind the       *)
(* duration, unless a call of stop() was disturbed, and then the simulation *)
(* is over.                                                                 *)
LEMMA ReturnStep ==
  ASSUME Status!StatusAssumption, StatusInv, Status!Return
  PROVE  StatusInv'
<1> USE DEF StatusInv, StatusTypes
<1>1. /\ at = "kernel" /\ at' = "main" /\ Status!Quiet /\ pass' = "closed"
      /\ UNCHANGED <<forced, duration, state, ts, call, latest, stopped>>
      /\ time' \in {time, duration} /\ shown' = time'
      /\ IF forced THEN ends' = ends + 1 /\ status' = "STOPPED"
         ELSE ends' = ends /\ status' = "PAUSED"
  BY DEF Status!Return, Status!StopAction, Status!processes, Places
<1>2. \A p \in SimProcess : state[p] \in {"wait", "paused", "done"} /\ call[p] = "none"
  BY <1>1 DEF Status!Quiet, Places
<1>3. Calm => /\ AtMost(time, duration)
              /\ \A p \in SimProcess : state[p] = "paused" => AtMost(duration, ts[p])
  BY <1>1, <1>2 DEF PeriodRight
<1>4. StatusTypes' /\ EndRight'
  BY <1>1 DEF EndRight
<1>5. Grown'
  <2>1. AtMost(shown', time')
    BY <1>1, OrderFacts
  <2>2. Calm => \A p \in SimProcess : state[p] = "paused" => AtMost(time', ts[p])
    BY <1>1, <1>3, OrderFacts
  <2> QED BY <1>1, <1>2, <2>1, <2>2 DEF Grown, Calm
<1>6. Places' /\ Noted' /\ CallRight' /\ PeriodRight'
  BY <1>1, <1>2 DEF Places, Noted, CallRight, PeriodRight
<1> QED BY <1>4, <1>5, <1>6

(* Every step preserves StatusInv.                                          *)
LEMMA StatusInductive ==
  ASSUME Status!StatusAssumption, StatusInv, [Status!Next]_Status!vars
  PROVE  StatusInv'
<1> USE DEF StatusInv, StatusTypes
<1>1. CASE UNCHANGED Status!vars
  BY <1>1 DEF Status!vars, Status!flags, Status!processes, Status!scheduler, Status!history,
        Grown, Calm, Places, Noted, CallRight, PeriodRight, CutEnd, EndRight
<1>2. CASE Status!MainStops
  BY <1>2 DEF Status!MainStops, Status!flags, Status!processes, Status!scheduler,
        Status!history, Grown, Calm, Places, Noted, CallRight, PeriodRight, CutEnd, EndRight
<1>3. ASSUME NEW p \in SimProcess, Status!sc_pause(p) PROVE StatusInv'
  BY <1>3 DEF Status!sc_pause, Status!processes, Status!scheduler, Status!history, Grown, Calm,
        Places, Noted, CallRight, PeriodRight, CutEnd, EndRight
<1>4. CASE Status!EndPass
  <2>1. /\ pass = "open" /\ pass' = "closed"
        /\ UNCHANGED <<at, status, forced, duration, time, state, ts, call, latest, ends, stopped,
                       shown>>
    BY <1>4 DEF Status!EndPass, Status!flags, Status!processes, Status!history
  <2> QED BY <2>1 DEF Grown, Calm, Places, Noted, CallRight, PeriodRight, CutEnd, EndRight
<1>5. ASSUME NEW p \in SimProcess, Status!Throw(p) PROVE StatusInv'
  <2>1. /\ Status!Runs(p) /\ state' = [state EXCEPT ![p] = "done"]
        /\ pass = "closed" /\ pass' = "open"
        /\ UNCHANGED <<at, status, forced, duration, time, ts, call, latest, ends, stopped, shown>>
    BY <1>5 DEF Status!Throw, Status!history
  <2>2. /\ state' \in [SimProcess -> {"ready", "taken", "issued", "run", "wait", "paused", "done"}]
        /\ ts' \in [SimProcess -> Status!FiniteTimestamp]
        /\ \A q \in SimProcess : state'[q] \notin {"wait", "done"} => AtMost(shown, ts'[q])
    BY <2>1 DEF Grown, Status!Runs, Places
  <2> QED BY <2>1, <2>2, LeaveStep
<1> QED
  BY <1>1, <1>2, <1>3, <1>4, <1>5, StartStep, TimeStepRight, IssueStep, SuspendStep, NotifyStep,
     StopStepRight, ReturnStep
  DEF Status!Next

(* Only a return of sc_start() shows sc_main another time.                  *)
LEMMA ShownGrows ==
  ASSUME StatusInv, Status!Next
  PROVE  Status!TimeStep
<1> USE DEF StatusInv, StatusTypes
<1>1. CASE Status!Return
  <2>1. shown' \in {time, duration} /\ at = "kernel"
    BY <1>1 DEF Status!Return, Places
  <2> QED BY <2>1 DEF Status!TimeStep, Grown, AtMost
<1>2. CASE UNCHANGED shown
  BY <1>2, OrderFacts DEF Status!TimeStep, AtMost
<1> QED
  BY <1>1, <1>2 DEF Status!Next, Status!sc_start, Status!Refuse, Status!Overflow,
        Status!Simulate, Status!MainStops, Status!Take, Status!ReadTime, Status!WriteTime,
        Status!Decide, Status!PutBack, Status!Begin, Status!EndPass, Status!WaitTime, Status!WaitDelta,
        Status!WaitEvent, Status!Finish, Status!Suspend, Status!Throw, Status!sc_pause,
        Status!CheckStop, Status!CutDuration, Status!SetTime, Status!AddDelta,
        Status!SetForced, Status!Notify, Status!history

(* For any processes, durations, bounds and calls, in both stop modes, and  *)
(* whatever the passes of the scheduler and the calls of sc_stop(), as many *)
(* as there are, do between the steps of each other: what sc_main sees of   *)
(* the time never decreases, the callbacks of the end of the simulation run *)
(* once, and until sc_stop() is called the time that a period reaches is    *)
(* not after its end and no process can still run at a time that sc_main    *)
(* has seen pass.                                                           *)
THEOREM StatusHolds ==
  ASSUME Status!StatusAssumption
  PROVE  Status!Spec => [](Status!RightUntilStop /\ Status!EndOnce) /\ Status!TimeMonotone
<1>1. StatusInv /\ [Status!Next]_Status!vars => StatusInv'
  BY StatusInductive
<1>2. ASSUME StatusInv PROVE Status!RightUntilStop /\ Status!EndOnce
  <2> USE DEF StatusInv, StatusTypes
  <2>1. ASSUME stopped = Status!Infinite PROVE Status!TimeWithinPeriod
    BY <1>2, <2>1, CalmFacts
    DEF Status!TimeWithinPeriod, Status!Quiet, Calm, Places, PeriodRight, AtMost
  <2>2. ASSUME stopped = Status!Infinite PROVE Status!NotBehind
    BY <1>2, <2>2 DEF Status!NotBehind, Calm, Places, Grown, AtMost
  <2>3. Status!EndOnce
    BY <1>2 DEF Status!EndOnce, EndRight, Status!get_status
  <2> QED BY <2>1, <2>2, <2>3 DEF Status!RightUntilStop
<1>3. StatusInv /\ [Status!Next]_Status!vars => [Status!TimeStep]_Status!vars
  BY ShownGrows
<1> QED BY StatusInit, <1>1, <1>2, <1>3, PTL DEF Status!Spec, Status!TimeMonotone

(* If sc_stop() is only called by a process that runs alone, that is, while *)
(* no other has been issued and no pass is under way: the time that a       *)
(* period reaches is not after its end, no process can still run at a time  *)
(* that sc_main has seen pass, also when the period was cut short, and after*)
(* sc_stop() nothing begins to run that is due later than it, in both stop  *)
(* modes.                                                                   *)
THEOREM StopsHold ==
  ASSUME Status!StatusAssumption, Alone
  PROVE  Status!Spec => [](Status!TimeWithinPeriod /\ Status!NotBehind) /\ Status!StopHolds
<1>1. StatusInv /\ [Status!Next]_Status!vars => StatusInv'
  BY StatusInductive
<1>2. ASSUME StatusInv PROVE Status!TimeWithinPeriod /\ Status!NotBehind
  <2> USE DEF StatusInv, StatusTypes
  <2>1. Status!TimeWithinPeriod
    BY <1>2 DEF Status!TimeWithinPeriod, Status!Quiet, Calm, Places, PeriodRight, AtMost
  <2>2. Status!NotBehind
    BY <1>2 DEF Status!NotBehind, Calm, Places, Grown, AtMost
  <2> QED BY <2>1, <2>2
<1>3. ASSUME StatusInv, Status!Next PROVE Status!StopStep
  <2> USE DEF StatusInv, StatusTypes
  <2> SUFFICES ASSUME NEW p \in SimProcess, forced, state[p] = "issued"
      PROVE  Status!NotAfter(ts[p], stopped)
    BY DEF Status!StopStep
  <2>1. at = "kernel" /\ ts[p] \in Status!FiniteTimestamp
    BY <1>3 DEF Places
  <2>2. duration = CutEnd /\ Status!Before(ts[p], duration)
    BY <1>3, <2>1 DEF PeriodRight, Calm
  <2>3. stopped \in Status!FiniteTimestamp
    BY <1>3 DEF Noted, Status!AnyTimestamp
  <2>4. AtMost(ts[p], stopped)
    <3>1. CASE FinishDelta
      BY <2>1, <2>2, <2>3, <3>1, NextDelta DEF CutEnd
    <3>2. CASE ~FinishDelta
      BY <2>1, <2>2, <2>3, <3>2, OrderFacts DEF CutEnd
    <3> QED BY <3>1, <3>2
  <2> QED BY <2>1, <2>3, <2>4, OrderFacts
<1>4. StatusInv /\ [Status!Next]_Status!vars => [Status!StopStep]_Status!vars
  BY <1>3
<1> QED BY StatusInit, <1>1, <1>2, <1>4, PTL DEF Status!Spec, Status!StopHolds
=============================================================================
