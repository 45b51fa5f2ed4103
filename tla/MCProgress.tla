----------------------------- MODULE MCProgress -----------------------------
(* Small instances of the components, side by side and under the fairness   *)
(* each of them states: what must happen does happen.  part says which of   *)
(* them a behaviour is about, and v1, v2 ... are the variables of that one. *)
(* Fifo, about which there are theorems, is extended: with more processes   *)
(* it does not promise progress to each of them.                            *)
EXTENDS Fifo, FiniteSets

CONSTANT null   \* no process, no channel, nobody

(* Two ways from a to c, the longer one is the shorter. *)
Triangle == [e \in {"a", "b", "c"} \X {"a", "b", "c"} |->
    CASE e = <<"a", "b">> -> 1 [] e = <<"b", "c">> -> 1 [] e = <<"a", "c">> -> 5
      [] e = <<"c", "a">> -> 2 [] OTHER -> 20]

(* Two joins share t1, one of them waits for a clock. *)
Joined == [j \in {"p", "q"} |-> IF j = "p" THEN <<"t1", "t2">> ELSE <<"t1">>]

ByMain == [c \in {"p", "q"} |-> "main"]

Unchecked == [c \in {"s"} |-> "unchecked"]

AllKinds == {"port", "export", "channel", "module"}

VARIABLES
    part,
    v1, v2, v3, v4, v5, v6, v7, v8, v9, v10, v11, v12, v13, v14, v15, v16, v17

allVars == <<part, vars, v1, v2, v3, v4, v5, v6, v7, v8, v9, v10, v11, v12, v13,
            v14, v15, v16, v17>>

(* What an instance does not use keeps its first value.                    *)
Unused15 == v16 = 0 /\ v17 = 0
Unused8 == v9 = 0 /\ v10 = 0 /\ v11 = 0 /\ v12 = 0 /\ v13 = 0 /\ v14 = 0 /\
    v15 = 0 /\ Unused15
Unused7 == v8 = 0 /\ Unused8
Unused6 == v7 = 0 /\ Unused7
Unused0 == v1 = 0 /\ v2 = 0 /\ v3 = 0 /\ v4 = 0 /\ v5 = 0 /\ v6 = 0 /\ Unused6
Kept0 == UNCHANGED <<part, v1, v2, v3, v4, v5, v6, v7, v8, v9, v10, v11,
    v12, v13, v14, v15, v16, v17>>
Kept6 == UNCHANGED <<part, vars, v7, v8, v9, v10, v11, v12, v13, v14, v15,
    v16, v17>>
Kept7 == UNCHANGED <<part, vars, v8, v9, v10, v11, v12, v13, v14, v15,
    v16, v17>>
Kept8 == UNCHANGED <<part, vars, v9, v10, v11, v12, v13, v14, v15, v16,
    v17>>
Kept15 == UNCHANGED <<part, vars, v16, v17>>
Kept17 == UNCHANGED <<part, vars>>

Pipe == INSTANCE Fifo WITH
    Process <- {"p", "q"}, Event <- {"read", "written"}, Reader <- {"p"},
    Writer <- {"q"}, Value <- {1, 2}, Empty <- 0, Size <- 2, buf <- v1,
    free <- v2, ri <- v3, wi <- v4, readable <- v5, numRead <- v6,
    numWritten <- v7, requested <- v8, at <- v9, arg <- v10, dropped <- v11,
    notified <- v12, waiting <- v13, phase <- v14, running <- v15

Mutex == INSTANCE SimMutex WITH
    Process <- {"p", "q"}, Event <- {"free"}, None <- null, owner <- v1,
    at <- v2, inside <- v3, notified <- v4, waiting <- v5, phase <- v6,
    running <- v7

Semaphore == INSTANCE SimSemaphore WITH
    Process <- {"p", "q"}, Event <- {"free"}, Initial <- 1, MaxPosts <- 2,
    value <- v1, at <- v2, passed <- v3, posts <- v4, notified <- v5,
    waiting <- v6, phase <- v7, running <- v8

Signals == INSTANCE UpdatePhase WITH
    Process <- {"p", "q"}, External <- {}, Channel <- {"s"}, Buffer <- {},
    Policy <- Unchecked, Root <- "root", Value <- {0, 1}, InitVal <- 0,
    Registry <- "registry", None <- null, End <- "end", MaxAsync <- 0,
    running <- v1, at <- v2, arg <- v3, owner <- v4, acq <- v5, cur <- v6,
    new <- v7, writer <- v8, stamp <- v9, next <- v10, head <- v11,
    now <- v12, push <- v13, pop <- v14, fresh <- v15, wrote <- v16,
    asked <- v17

Creation == INSTANCE CorCreate WITH
    Root <- "main", Child <- {"p", "q"}, By <- ByMain, Spurious <- FALSE,
    Free <- null, create <- v1, sched <- v2, target <- v3, created <- v4,
    dispatched <- v5, pc <- v6

Joins == INSTANCE Join WITH
    Thread <- {"t1", "t2"}, Joiner <- {"p", "q"}, Adds <- Joined,
    Clocked <- {"q"}, Early <- FALSE, storage <- v1, size <- v2, zombie <- v3,
    m_threads_n <- v4, added <- v5, place <- v6, notified <- v7

Heap == INSTANCE PredictionHeap WITH
    Process <- {"a", "b", "c"}, Table <- Triangle, Direct <- {0, 3, 20},
    Distance <- {2}, Infinite <- 20, None <- null, minheap <- v1, mod <- v2,
    pwt <- v3, definer <- v4, direct <- v5, distance <- v6, address <- v7,
    visited <- v8

Objects == INSTANCE Elaboration WITH
    Initial <- AllKinds, Creators <- AllKinds, Deleters <- {}, MaxBorn <- 2,
    vec <- v1, born <- v2, done <- v3, phase <- v4, kind <- v5, i <- v6,
    quiet <- v7, calls <- v8

-----------------------------------------------------------------------------
AllInit ==
    \/ part = "channel" /\ Init /\ Unused0
    \/ part = "fifo" /\ Pipe!Init /\ Init /\ Unused15
    \/ part = "mutex" /\ Mutex!Init /\ Init /\ Unused7
    \/ part = "semaphore" /\ Semaphore!Init /\ Init /\ Unused8
    \/ part = "signals" /\ Signals!Init /\ Init
    \/ part = "create" /\ Creation!Init /\ Init /\ Unused6
    \/ part = "join" /\ Joins!Init /\ Init /\ Unused7
    \/ part = "heap" /\ Heap!Init /\ Init /\ Unused8
    \/ part = "elaboration" /\ Objects!Init /\ Init /\ Unused8

ChannelStep == part = "channel" /\ Next /\ Kept0
PipeStep == part = "fifo" /\ Pipe!Next /\ Kept15
MutexStep == part = "mutex" /\ Mutex!Next /\ Kept7
SemaphoreStep == part = "semaphore" /\ Semaphore!Next /\ Kept8
SignalsStep == part = "signals" /\ Signals!Next /\ Kept17
CreationStep == part = "create" /\ Creation!Next /\ Kept6
JoinsStep == part = "join" /\ Joins!Next /\ Kept7
HeapStep == part = "heap" /\ Heap!Next /\ Kept8
ObjectsStep == part = "elaboration" /\ Objects!Next /\ Kept8

(* These may come to an end; whether the creation of coroutines does so too *)
(* early is left to ThreadsProgress.                                        *)
Stopped == part \in {"create", "join", "elaboration"} /\ UNCHANGED allVars

AllNext ==
    \/ ChannelStep \/ PipeStep \/ MutexStep \/ SemaphoreStep \/ SignalsStep
    \/ CreationStep \/ JoinsStep \/ HeapStep \/ ObjectsStep \/ Stopped

(* The fair actions of the instances, grouped: of one group and process each*)
(* instance has one action, so that fairness of the group is fairness of    *)
(* that action in the instance a behaviour is about.  Calls that wait, and  *)
(* those that use a channel, or own a mutex, and go on:                     *)
Proceeds(p) ==
    /\ UNCHANGED <<part, vars>>
    /\ \/ part = "fifo" /\ Pipe!Call(p) /\ Kept15
       \/ part = "mutex" /\ Mutex!Runs(p) /\ (Mutex!unlock(p) \/ (v2[p] = "lock" /\ Mutex!lock(p))) /\ Kept7
       \/ part = "semaphore" /\ v2[p] = "wait" /\ Semaphore!Runs(p) /\ Semaphore!wait(p) /\ Kept8
       \/ part = "create" /\ Creation!ChildStep(p) /\ Kept6

(* Processes that come to a wait. *)
Suspends(p) ==
    /\ UNCHANGED <<part, vars>>
    /\ \/ part = "fifo" /\ Pipe!Suspend(p) /\ Kept15
       \/ part = "mutex" /\ Mutex!Suspend(p) /\ Kept7
       \/ part = "semaphore" /\ Semaphore!Suspend(p) /\ Kept8
       \/ part = "signals" /\ Signals!Suspend(p)
       \/ part = "create" /\ Creation!CreateStep(p) /\ Kept6

(* Those that are woken; what sc_main waits for, and enters.                *)
Wakes(p) ==
    /\ UNCHANGED <<part, vars>>
    /\ \/ part = "fifo" /\ Pipe!Schedule /\ Pipe!DeliveryTo(p) /\ Kept15
       \/ part = "mutex" /\ Mutex!Schedule /\ Mutex!DeliveryTo(p) /\ Kept7
       \/ part = "semaphore" /\ Semaphore!Schedule /\ Semaphore!DeliveryTo(p) /\ Kept8
       \/ part = "signals" /\ p = "p" /\ Signals!Suspend("root")
       \/ part = "create" /\ p = "p" /\ Creation!CreateStep("main") /\ Kept6
       \/ part = "create" /\ p = "q" /\ Creation!EnterKernel("main") /\ Kept6

(* The scheduler and the pool. *)
Schedules ==
    /\ UNCHANGED <<part, vars>>
    /\ \/ part = "fifo" /\ Pipe!Schedule /\ Kept15
       \/ part = "mutex" /\ Mutex!Schedule /\ Kept7
       \/ part = "semaphore" /\ Semaphore!Schedule /\ Kept8
       \/ part = "heap" /\ Heap!Visit /\ Kept8
       \/ part = "elaboration" /\ (Objects!Enter \/ Objects!Callback) /\ Kept8
       \/ part = "signals" /\ Signals!UpdateStep("root")
Updates ==
    /\ UNCHANGED <<part, vars>>
    /\ \/ part = "fifo" /\ Pipe!Update /\ Kept15
       \/ part = "signals" /\ Signals!WriteStep("root")
Steps(p) ==
    /\ UNCHANGED <<part, vars>>
    /\ \/ part = "signals" /\ Signals!WriteStep(p)
       \/ part = "join" /\ (Joins!add_process(p) \/ Joins!wait(p)) /\ Kept7
UpdateSteps(p) ==
    /\ UNCHANGED <<part, vars>>
    /\ \/ part = "signals" /\ Signals!UpdateStep(p)
       \/ part = "join" /\ Joins!Return(p) /\ Kept7
Triggers(p) ==
    /\ UNCHANGED <<part, vars>>
    /\ \/ part = "join" /\ Joins!Trigger(p) /\ Kept7
Ticks(p) ==
    /\ UNCHANGED <<part, vars>>
    /\ \/ part = "join" /\ Joins!Tick(p) /\ Kept7

(* Threads that created coroutines dispatch them and leave the kernel. *)
Dispatches(t) ==
    /\ UNCHANGED <<part, vars>>
    /\ \/ part = "create" /\ (\E c \in {"p", "q"} : Creation!go(t, c)) /\ Kept6
Leaves(t) ==
    /\ UNCHANGED <<part, vars>>
    /\ \/ part = "create" /\ Creation!LeaveKernel(t) /\ Kept6

AllFairness ==
    /\ \A p \in {"p", "q"} :
          /\ SF_allVars(Proceeds(p)) /\ SF_allVars(Suspends(p)) /\ SF_allVars(Wakes(p))
          /\ WF_allVars(Steps(p)) /\ WF_allVars(UpdateSteps(p))
          /\ WF_allVars(Triggers(p)) /\ WF_allVars(Ticks(p))
    /\ WF_allVars(Schedules) /\ WF_allVars(Updates)
    /\ \A t \in {"p", "q", "main"} : WF_allVars(Dispatches(t)) /\ WF_allVars(Leaves(t))

AllSpec == AllInit /\ [][AllNext]_allVars /\ AllFairness

ASSUME ProgressAssumption ==
    /\ FifoAssumption /\ Pipe!FifoAssumption /\ Mutex!MutexAssumption /\ Semaphore!SemaphoreAssumption
    /\ Signals!UpdatePhaseAssumption /\ Creation!CorCreateAssumption /\ Joins!JoinAssumption
    /\ Heap!PredictionHeapAssumption /\ Objects!ElaborationAssumption

-----------------------------------------------------------------------------
(* Blocking reads and writes of a fifo end, a free mutex finds an owner and *)
(* a unit of a semaphore somebody who takes it, if somebody waits for it.   *)
ChannelsProgress ==
    /\ part = "fifo" /\ v9["p"] = "read" ~> part = "fifo" /\ v9["p"] = "user"
    /\ part = "fifo" /\ v9["q"] = "write" ~> part = "fifo" /\ v9["q"] = "user"
    /\ part = "mutex" /\ v5["free"] # {} /\ ~Mutex!in_use ~> part = "mutex" /\ Mutex!in_use
    /\ part = "semaphore" /\ v6["free"] # {} /\ ~Semaphore!in_use
          ~> part = "semaphore" /\ (Semaphore!in_use \/ v6["free"] = {})

(* create() returns, a dispatched coroutine starts, and a join whose threads*)
(* have ended returns.                                                      *)
ThreadsProgress ==
    /\ \A c \in {"p", "q"} :
          /\ part = "create" /\ (\E t \in {"p", "q", "main"} : v3[t] = c /\ t # c)
                ~> part = "create" /\ c \in v4
          /\ part = "create" /\ c \in v5
                ~> part = "create" /\ v6[c] \notin Creation!Prestart \cup {"dormant", "woken"}
    /\ \A j \in {"p", "q"} :
          part = "join" /\ v5[j] = Len(Joined[j]) /\ Joins!Members(j) \subseteq v3
              ~> part = "join" /\ v6[j] = "returned"

(* A written value becomes visible or is overwritten by the visible one, the*)
(* prediction loop ends, and so does the elaboration, whoever creates       *)
(* objects in its callbacks.                                                *)
SimulationProgress ==
    /\ part = "signals" /\ v7["s"] # v6["s"] ~> part = "signals" /\ v7["s"] = v6["s"]
    /\ part = "heap" ~> part = "heap" /\ Heap!Finished
    /\ part = "elaboration" /\ v4 < 4
          ~> part = "elaboration" /\ Objects!Phases[v4] = "running"
=============================================================================
