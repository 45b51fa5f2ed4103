---------------------------- MODULE MCProcesses ----------------------------
(* Model-checking instances of what the processes of a simulation use, side *)
(* by side: how they are created, queued, predicted, reset, joined and      *)
(* deleted, and the channels through which they talk.  part says which of   *)
(* them a behaviour is about, and v1, v2 ... are the variables of that one. *)
(* UpdatePhase, about which there are theorems, is extended.                *)
EXTENDS UpdatePhase

CONSTANT null   \* no process, no channel, nobody

(* Two ways from a to d, the one with more processes is the shorter; d leads*)
(* back to b.                                                               *)
Diamond == [e \in {"a", "b", "c", "d"} \X {"a", "b", "c", "d"} |->
    CASE e = <<"a", "b">> -> 4 [] e = <<"a", "c">> -> 1 [] e = <<"c", "b">> -> 1
      [] e = <<"b", "d">> -> 1 [] e = <<"a", "d">> -> 5 [] e = <<"d", "b">> -> 2
      [] OTHER -> 20]

(* p has a synchronous and an asynchronous reset, of opposite levels; q     *)
(* shares the signal of the first, as an asynchronous one.                  *)
Targets == {
    [signal |-> "a", process |-> "p", level |-> TRUE, async |-> FALSE],
    [signal |-> "b", process |-> "p", level |-> FALSE, async |-> TRUE],
    [signal |-> "a", process |-> "q", level |-> FALSE, async |-> TRUE]}

(* Four joins share t1. *)
SharedThreads == [j \in {"a", "b", "c", "d"} |->
    CASE j = "a" -> <<"t2", "t1">> [] j = "b" -> <<"t1">>
      [] j = "c" -> <<"t1", "t3">> [] j = "d" -> <<"t3", "t1">>]

(* sc_main creates every coroutine. *)
ByMain == [c \in {"c1", "c2", "c3"} |-> "main"]

(* Two signals of different policies; a signal and a buffer that a thread   *)
(* outside the simulator may ask to update.                                 *)
ManyAndOne == [c \in {"s", "t"} |-> IF c = "s" THEN "many" ELSE "one"]
ManyAndUnchecked == [c \in {"s", "t"} |-> IF c = "s" THEN "many" ELSE "unchecked"]

VARIABLES
    part,
    v1, v2, v3, v4, v5, v6, v7, v8, v9, v10, v11, v12, v13, v14, v15, v16, v17

allVars == <<part, vars, v1, v2, v3, v4, v5, v6, v7, v8, v9, v10, v11, v12,
            v13, v14, v15, v16, v17>>

(* What an instance does not use keeps its first value.                    *)
Unused15 == v16 = 0 /\ v17 = 0
Unused10 == v11 = 0 /\ v12 = 0 /\ v13 = 0 /\ v14 = 0 /\ v15 = 0 /\ Unused15
Unused8 == v9 = 0 /\ v10 = 0 /\ Unused10
Unused7 == v8 = 0 /\ Unused8
Unused6 == v7 = 0 /\ Unused7
Unused4 == v5 = 0 /\ v6 = 0 /\ Unused6
Unused0 == v1 = 0 /\ v2 = 0 /\ v3 = 0 /\ v4 = 0 /\ Unused4
Kept0 == UNCHANGED <<v1, v2, v3, v4, v5, v6, v7, v8, v9, v10, v11, v12, v13,
              v14, v15, v16, v17>>
Kept4 == UNCHANGED <<vars, v5, v6, v7, v8, v9, v10, v11, v12, v13, v14, v15,
              v16, v17>>
Kept6 == UNCHANGED <<vars, v7, v8, v9, v10, v11, v12, v13, v14, v15, v16,
              v17>>
Kept7 == UNCHANGED <<vars, v8, v9, v10, v11, v12, v13, v14, v15, v16, v17>>
Kept8 == UNCHANGED <<vars, v9, v10, v11, v12, v13, v14, v15, v16, v17>>
Kept10 == UNCHANGED <<vars, v11, v12, v13, v14, v15, v16, v17>>
Kept15 == UNCHANGED <<vars, v16, v17>>
Kept17 == UNCHANGED vars

Heap == INSTANCE PredictionHeap WITH
    Process <- {"a", "b", "c", "d"}, Table <- Diamond, Direct <- {0, 3, 20},
    Distance <- {2}, Infinite <- 20, None <- null, minheap <- v1, mod <- v2,
    pwt <- v3, definer <- v4, direct <- v5, distance <- v6, address <- v7,
    visited <- v8

Lists == INSTANCE RunnableLists WITH
    Process <- {"p", "q", "r", "s"}, Lazy <- {"s"}, Early <- {"s"},
    Null <- "null", End <- "end", PushHead <- "push_head", next <- v1,
    pop <- v2, tail <- v3, unpushed <- v4

Notified == INSTANCE EventCancel WITH
    Process <- {"p", "q", "r"}, MaxTime <- 3, MaxDelay <- 2,
    clock <- v1, waiting <- v2, stamps <- v3, listed <- v4, type <- v5,
    inForce <- v6, took <- v7

Resets == INSTANCE ProcessReset WITH
    Process <- {"p", "q"}, Signal <- {"a", "b"}, Target <- Targets,
    Controllers <- {"p", "q"}, Careful <- TRUE, status <- v1, cur <- v2,
    new <- v3, at <- v4, throwing <- v5, computed <- v6, syncs <- v7,
    asyncs <- v8, sticky <- v9, call <- v10

Joins == INSTANCE Join WITH
    Thread <- {"t1", "t2", "t3"}, Joiner <- {"a", "b", "c", "d"},
    Adds <- SharedThreads, Clocked <- {"c"}, Early <- FALSE, storage <- v1,
    size <- v2, zombie <- v3, m_threads_n <- v4, added <- v5, place <- v6,
    notified <- v7

Creation == INSTANCE CorCreate WITH
    Root <- "main", Child <- {"c1", "c2", "c3"}, By <- ByMain,
    Spurious <- FALSE, Free <- null, create <- v1, sched <- v2, target <- v3,
    created <- v4, dispatched <- v5, pc <- v6

Life == INSTANCE ProcessLife WITH
    Process <- {"p1", "p2", "p3"}, Main <- "main", Holder <- {"main"},
    MaxHandles <- 2, place <- v1, refs <- v2, handles <- v3, exists <- v4,
    collectable <- v5, op <- v6

Mutex == INSTANCE SimMutex WITH
    Process <- {"p", "q", "r"}, Event <- {"free"}, None <- null, owner <- v1,
    at <- v2, inside <- v3, notified <- v4, waiting <- v5, phase <- v6,
    running <- v7

Semaphore == INSTANCE SimSemaphore WITH
    Process <- {"p", "q", "r"}, Event <- {"free"}, Initial <- 1,
    MaxPosts <- 3, value <- v1, at <- v2, passed <- v3, posts <- v4,
    notified <- v5, waiting <- v6, phase <- v7, running <- v8

Pipe == INSTANCE Fifo WITH
    Process <- {"r1", "r2", "w1", "w2"}, Event <- {"read", "written"},
    Reader <- {"r1", "r2"}, Writer <- {"w1", "w2"}, Value <- {1, 2},
    Empty <- 0, Size <- 2, buf <- v1, free <- v2, ri <- v3, wi <- v4,
    readable <- v5, numRead <- v6, numWritten <- v7, requested <- v8,
    at <- v9, arg <- v10, dropped <- v11, notified <- v12, waiting <- v13,
    phase <- v14, running <- v15

Asked == INSTANCE UpdatePhase WITH
    Process <- {"p"}, External <- {"x"}, Channel <- {"s", "t"},
    Buffer <- {"t"}, Policy <- ManyAndUnchecked, Root <- "root",
    Value <- {0, 1}, InitVal <- 0, Registry <- "registry", None <- null,
    End <- "end", MaxAsync <- 2, running <- v1, at <- v2, arg <- v3,
    owner <- v4, acq <- v5, cur <- v6, new <- v7, writer <- v8, stamp <- v9,
    next <- v10, head <- v11, now <- v12, push <- v13, pop <- v14,
    fresh <- v15, wrote <- v16, asked <- v17

-----------------------------------------------------------------------------
AllInit ==
    \/ part = "signals" /\ Init /\ Unused0
    \/ part = "heap" /\ Heap!Init /\ Init /\ Unused8
    \/ part = "lists" /\ Lists!Init /\ Init /\ Unused4
    \/ part = "cancel" /\ Notified!Init /\ Init /\ Unused7
    \/ part = "reset" /\ Resets!Init /\ Init /\ Unused10
    \/ part = "join" /\ Joins!Init /\ Init /\ Unused7
    \/ part = "create" /\ Creation!Init /\ Init /\ Unused6
    \/ part = "life" /\ Life!Init /\ Init /\ Unused6
    \/ part = "mutex" /\ Mutex!Init /\ Init /\ Unused7
    \/ part = "semaphore" /\ Semaphore!Init /\ Init /\ Unused8
    \/ part = "fifo" /\ Pipe!Init /\ Init /\ Unused15
    \/ part = "asked" /\ Asked!Init /\ Init

SignalsStep == part = "signals" /\ Next /\ Kept0 /\ UNCHANGED part
HeapStep == part = "heap" /\ Heap!Next /\ Kept8 /\ UNCHANGED part
ListsStep == part = "lists" /\ Lists!Next /\ Kept4 /\ UNCHANGED part
NotifiedStep == part = "cancel" /\ Notified!Next /\ Kept7 /\ UNCHANGED part
ResetsStep == part = "reset" /\ Resets!Next /\ Kept10 /\ UNCHANGED part
JoinsStep == part = "join" /\ Joins!Next /\ Kept7 /\ UNCHANGED part
CreationStep == part = "create" /\ Creation!Next /\ Kept6 /\ UNCHANGED part
LifeStep == part = "life" /\ Life!Next /\ Kept6 /\ UNCHANGED part
MutexStep == part = "mutex" /\ Mutex!Next /\ Kept7 /\ UNCHANGED part
SemaphoreStep == part = "semaphore" /\ Semaphore!Next /\ Kept8 /\ UNCHANGED part
PipeStep == part = "fifo" /\ Pipe!Next /\ Kept15 /\ UNCHANGED part
AskedStep == part = "asked" /\ Asked!Next /\ Kept17 /\ UNCHANGED part

(* These may come to an end.                                               *)
Stopped == part \in {"reset", "join", "life", "asked"} /\ UNCHANGED allVars

AllNext ==
    \/ SignalsStep \/ AskedStep \/ HeapStep \/ ListsStep \/ NotifiedStep
    \/ ResetsStep \/ JoinsStep \/ CreationStep \/ LifeStep \/ MutexStep
    \/ SemaphoreStep \/ PipeStep \/ Stopped

AllSpec == AllInit /\ [][AllNext]_allVars

ASSUME ProcessesAssumption ==
    /\ Heap!PredictionHeapAssumption /\ Lists!ListAssumption
    /\ Notified!EventCancelAssumption /\ Resets!TargetAssumption
    /\ Joins!JoinAssumption /\ Creation!CorCreateAssumption /\ Life!ProcessLifeAssumption
    /\ Mutex!MutexAssumption /\ Semaphore!SemaphoreAssumption
    /\ Pipe!FifoAssumption /\ UpdatePhaseAssumption /\ Asked!UpdatePhaseAssumption

-----------------------------------------------------------------------------
(* The prediction loop ends with the least wake-up times although its heap  *)
(* is out of order, and no process that changed is missing from the heap;   *)
(* a runnable process is queued, and once (predict_wakeup_of_waiting_procs, *)
(* sc_runnable).                                                            *)
QueuesRight ==
    /\ part = "heap" =>
          Heap!TypeOK /\ Heap!HeapCovers /\ Heap!Exact /\ Heap!DefinerDefines
    /\ part = "lists" => Lists!TypeOK /\ Lists!QueuedOnce /\ Lists!RunnableIsQueued

(* The linked lists of runnable processes implement the two sequences of    *)
(* ReadyQueue (sc_runnable_int.h).                                          *)
ListsImplemented ==
    /\ part = "lists" => Lists!Queue!Init
    /\ [][part = "lists" => Lists!Queue!Next \/ UNCHANGED Lists!Queue!vars]_allVars

(* Nobody skips a notification that is in force, none of them is lost, and  *)
(* what is listed for delivery can be delivered, whatever is cancelled and  *)
(* notified again (sc_event::notify, cancel); the list of updates is exact  *)
(* although a thread outside the simulator asks for some of them            *)
(* (async_request_update).                                                  *)
NotificationsRight ==
    /\ part = "cancel" =>
          /\ Notified!TypeOK /\ Notified!ListedHasType
          /\ Notified!TakenEarliest /\ Notified!NothingLost
    /\ part = "asked" => Asked!UpdateRight

(* A notification is forgotten only when everybody has got past it, a wait  *)
(* returns only while no reset of its process is active, and throws only    *)
(* while one is; a fifo is a bounded queue whose readers and writers see    *)
(* what there was before the delta cycle; what was asked for from outside   *)
(* becomes visible with the other updates.                                  *)
StepsRight ==
    [][/\ part = "cancel" => Notified!ForgetsPassed
       /\ part = "reset" => Resets!ReturnsOutOfReset /\ Resets!ThrowsInReset
       /\ part = "fifo" => Pipe!Queue!Next \/ UNCHANGED Pipe!Queue!vars
       /\ part = "asked" => Asked!Signals!Next \/ UNCHANGED Asked!Signals!vars]_allVars

(* Threads start, are reset, joined and deleted as often as they should be: *)
(* the counters of resets, joins and references are exact, no signal of the *)
(* start is lost, and no object in use is gone.                             *)
ThreadsRight ==
    /\ part = "create" =>
          Creation!TypeOK /\ Creation!Dormant /\ Creation!NoLostStart /\ Creation!Exclusive
    /\ part = "reset" => Resets!TypeOK /\ Resets!CountExact
    /\ part = "join" =>
          Joins!TypeOK /\ Joins!JoinedHaveEnded /\ Joins!CountExact /\ Joins!QueueEmptied
    /\ part = "life" =>
          Life!TypeOK /\ Life!InUseExist /\ Life!CountExact /\ Life!NothingForgotten

(* Owners of a mutex exclude each other, no unit of a semaphore is given    *)
(* twice, no value of a fifo is lost, and nobody sleeps beside what he waits*)
(* for.                                                                     *)
LocksRight ==
    /\ part = "mutex" => Mutex!TypeOK /\ Mutex!Exclusive /\ Mutex!NoLostWakeup
    /\ part = "semaphore" =>
          Semaphore!TypeOK /\ Semaphore!NeverOversold /\ Semaphore!NoLostWakeup
    /\ part = "fifo" => Pipe!FifoSafe
=============================================================================
