--------------------------- MODULE MCOoOPrograms ---------------------------
(* Instances of OoOSchedule side by side: part says which one a behaviour   *)
(* belongs to, and each has its own program, limit, period and mode:        *)
(*   mixed     the module extended here, two threads and two methods out of *)
(*             order; the properties of OoOSchedule are about this one      *)
(*   alone     a limit of one, which is exceeded within an iteration of the *)
(*             dispatch loop, and is then reached when delivery is due      *)
(*   cyclic    the synchronous mode, over three calls of sc_start between   *)
(*             which sc_main notifies an event                              *)
(*   outlived  the same program out of order, over two calls                *)
(*   disabled  a thread is disabled and enabled at any moment               *)
(*   shared    threads that share data, at the limit of two, with fairness  *)
(*   plain     what the theorem on StoppedIsQuiet assumes                   *)
(* v1, v2 ... are the variables of the last six instances.                  *)
EXTENDS MCOoOSchedule

AllToOne(prog) == [m \in Methods(prog) |-> "i1"]

AloneWaits == Waits(Mixed)
AloneNexts == Nexts(Mixed)
AloneNotifications == Notifications(Mixed)
AloneClashes == Clashes(Mixed)
AlonePredict == PredictTable(Mixed)
AloneHazard == HazardTable(Mixed)

CyclicWaits == Waits(Outliving)
CyclicNexts == Nexts(Outliving)
CyclicNotifications == Notifications(Outliving)
CyclicClashes == Clashes(Outliving)
CyclicPredict == PredictTable(Outliving)
CyclicHazard == HazardTable(Outliving)

OutlivedWaits == Waits(Outliving)
OutlivedNexts == Nexts(Outliving)
OutlivedNotifications == Notifications(Outliving)
OutlivedClashes == Clashes(Outliving)
OutlivedPredict == PredictTable(Outliving)
OutlivedHazard == HazardTable(Outliving)

DisabledWaits == Waits(Disabling)
DisabledNexts == Nexts(Disabling)
DisabledNotifications == Notifications(Disabling)
DisabledClashes == Clashes(Disabling)
DisabledPredict == PredictTable(Disabling)
DisabledHazard == HazardTable(Disabling)

SharedWaits == Waits(Sharing)
SharedNexts == Nexts(Sharing)
SharedNotifications == Notifications(Sharing)
SharedClashes == Clashes(Sharing)
SharedPredict == PredictTable(Sharing)
SharedHazard == HazardTable(Sharing)

PlainWaits == Waits(Settling)
PlainNexts == Nexts(Settling)
PlainNotifications == Notifications(Settling)
PlainClashes == Clashes(Settling)
PlainPredict == PredictTable(Settling)
PlainHazard == HazardTable(Settling)

VARIABLES
    part,
    v1, v2, v3, v4, v5, v6, v7, v8, v9, v10, v11, v12, v13, v14, v15, v16,
    v17, v18, v19, v20, v21, v22

allVars == <<part, vars, v1, v2, v3, v4, v5, v6, v7, v8, v9, v10, v11, v12,
            v13, v14, v15, v16, v17, v18, v19, v20, v21, v22>>

(* What an instance does not use keeps its first value.                    *)
Unused0 ==
    /\ v1 = 0 /\ v2 = 0 /\ v3 = 0 /\ v4 = 0 /\ v5 = 0 /\ v6 = 0 /\ v7 = 0 /\ v8 = 0
    /\ v9 = 0 /\ v10 = 0 /\ v11 = 0 /\ v12 = 0 /\ v13 = 0 /\ v14 = 0 /\ v15 = 0
    /\ v16 = 0 /\ v17 = 0 /\ v18 = 0 /\ v19 = 0 /\ v20 = 0 /\ v21 = 0 /\ v22 = 0
Kept0 == UNCHANGED <<v1, v2, v3, v4, v5, v6, v7, v8, v9, v10, v11, v12, v13,
              v14, v15, v16, v17, v18, v19, v20, v21, v22>>
Kept22 == UNCHANGED vars

Alone == INSTANCE OoOSchedule WITH
    Thread <- Threads(Mixed), Method <- Methods(Mixed), Event <- {"e", "f"},
    Invoker <- {"i1"}, InvokerOf <- AllToOne(Mixed), NumInvokers <- 1,
    Segment <- Segments(Mixed), First <- Firsts(Mixed), Static <- NoStatic,
    WaitOf <- AloneWaits, NextOf <- AloneNexts,
    MayNotify <- AloneNotifications, Clash <- AloneClashes,
    Predict <- AlonePredict, Hazard <- AloneHazard, RunTime <- 5,
    MaxStarts <- 1, MainEvents <- {}, Controlled <- {}, Sync <- FALSE,
    state <- v1, ts <- v2, seg <- v3, waits <- v4, all <- v5, due <- v6,
    disabled <- v7, todo <- v8, notified <- v9, pwt <- v10, definer <- v11,
    newWaiting <- v12, changed <- v13, running <- v14, phase <- v15,
    byRoot <- v16, tried <- v17, duration <- v18, starts <- v19, hist <- v20,
    last <- v21, latest <- v22

Cyclic == INSTANCE OoOSchedule WITH
    Thread <- Threads(Outliving), Method <- Methods(Outliving),
    Event <- {"e", "f", "g"}, Invoker <- {"i1"},
    InvokerOf <- AllToOne(Outliving), NumInvokers <- 4,
    Segment <- Segments(Outliving), First <- Firsts(Outliving),
    Static <- NoStatic, WaitOf <- CyclicWaits, NextOf <- CyclicNexts,
    MayNotify <- CyclicNotifications, Clash <- CyclicClashes,
    Predict <- CyclicPredict, Hazard <- CyclicHazard, RunTime <- 5,
    MaxStarts <- 3, MainEvents <- {"g"}, Controlled <- {}, Sync <- TRUE,
    state <- v1, ts <- v2, seg <- v3, waits <- v4, all <- v5, due <- v6,
    disabled <- v7, todo <- v8, notified <- v9, pwt <- v10, definer <- v11,
    newWaiting <- v12, changed <- v13, running <- v14, phase <- v15,
    byRoot <- v16, tried <- v17, duration <- v18, starts <- v19, hist <- v20,
    last <- v21, latest <- v22

Outlived == INSTANCE OoOSchedule WITH
    Thread <- Threads(Outliving), Method <- Methods(Outliving),
    Event <- {"e", "f", "g"}, Invoker <- {"i1"},
    InvokerOf <- AllToOne(Outliving), NumInvokers <- 4,
    Segment <- Segments(Outliving), First <- Firsts(Outliving),
    Static <- NoStatic, WaitOf <- OutlivedWaits, NextOf <- OutlivedNexts,
    MayNotify <- OutlivedNotifications, Clash <- OutlivedClashes,
    Predict <- OutlivedPredict, Hazard <- OutlivedHazard, RunTime <- 5,
    MaxStarts <- 2, MainEvents <- {"g"}, Controlled <- {}, Sync <- FALSE,
    state <- v1, ts <- v2, seg <- v3, waits <- v4, all <- v5, due <- v6,
    disabled <- v7, todo <- v8, notified <- v9, pwt <- v10, definer <- v11,
    newWaiting <- v12, changed <- v13, running <- v14, phase <- v15,
    byRoot <- v16, tried <- v17, duration <- v18, starts <- v19, hist <- v20,
    last <- v21, latest <- v22

Disabled == INSTANCE OoOSchedule WITH
    Thread <- Threads(Disabling), Method <- Methods(Disabling),
    Event <- {"e"}, Invoker <- {"i1"}, InvokerOf <- AllToOne(Disabling),
    NumInvokers <- 4, Segment <- Segments(Disabling),
    First <- Firsts(Disabling), Static <- NoStatic, WaitOf <- DisabledWaits,
    NextOf <- DisabledNexts, MayNotify <- DisabledNotifications,
    Clash <- DisabledClashes, Predict <- DisabledPredict,
    Hazard <- DisabledHazard, RunTime <- 4, MaxStarts <- 2, MainEvents <- {},
    Controlled <- {"b"}, Sync <- FALSE, state <- v1, ts <- v2, seg <- v3,
    waits <- v4, all <- v5, due <- v6, disabled <- v7, todo <- v8,
    notified <- v9, pwt <- v10, definer <- v11, newWaiting <- v12,
    changed <- v13, running <- v14, phase <- v15, byRoot <- v16, tried <- v17,
    duration <- v18, starts <- v19, hist <- v20, last <- v21, latest <- v22

Shared == INSTANCE OoOSchedule WITH
    Thread <- Threads(Sharing), Method <- Methods(Sharing), Event <- {"e"},
    Invoker <- {"i1"}, InvokerOf <- AllToOne(Sharing), NumInvokers <- 2,
    Segment <- Segments(Sharing), First <- Firsts(Sharing),
    Static <- NoStatic, WaitOf <- SharedWaits, NextOf <- SharedNexts,
    MayNotify <- SharedNotifications, Clash <- SharedClashes,
    Predict <- SharedPredict, Hazard <- SharedHazard, RunTime <- 5,
    MaxStarts <- 2, MainEvents <- {}, Controlled <- {}, Sync <- FALSE,
    state <- v1, ts <- v2, seg <- v3, waits <- v4, all <- v5, due <- v6,
    disabled <- v7, todo <- v8, notified <- v9, pwt <- v10, definer <- v11,
    newWaiting <- v12, changed <- v13, running <- v14, phase <- v15,
    byRoot <- v16, tried <- v17, duration <- v18, starts <- v19, hist <- v20,
    last <- v21, latest <- v22

Plain == INSTANCE OoOSchedule WITH
    Thread <- Threads(Settling), Method <- Methods(Settling),
    Event <- {"e", "f"}, Invoker <- {"i1"}, InvokerOf <- AllToOne(Settling),
    NumInvokers <- 5, Segment <- Segments(Settling),
    First <- Firsts(Settling), Static <- NoStatic, WaitOf <- PlainWaits,
    NextOf <- PlainNexts, MayNotify <- PlainNotifications,
    Clash <- PlainClashes, Predict <- PlainPredict, Hazard <- PlainHazard,
    RunTime <- 5, MaxStarts <- 1, MainEvents <- {}, Controlled <- {},
    Sync <- FALSE, state <- v1, ts <- v2, seg <- v3, waits <- v4, all <- v5,
    due <- v6, disabled <- v7, todo <- v8, notified <- v9, pwt <- v10,
    definer <- v11, newWaiting <- v12, changed <- v13, running <- v14,
    phase <- v15, byRoot <- v16, tried <- v17, duration <- v18, starts <- v19,
    hist <- v20, last <- v21, latest <- v22

ASSUME AllTablesSound ==
    /\ Alone!TablesSound /\ Cyclic!TablesSound /\ Outlived!TablesSound
    /\ Disabled!TablesSound /\ Shared!TablesSound /\ Plain!TablesSound

(* The hypotheses of StoppedIsQuietHolds.                                   *)
ASSUME PlainIsPlain == Plain!TablesTight /\ Plain!PlainUse

-----------------------------------------------------------------------------
AllInit ==
    \/ part = "mixed" /\ Init /\ Unused0
    \/ part = "alone" /\ Alone!Init /\ Init
    \/ part = "cyclic" /\ Cyclic!Init /\ Init
    \/ part = "outlived" /\ Outlived!Init /\ Init
    \/ part = "disabled" /\ Disabled!Init /\ Init
    \/ part = "shared" /\ Shared!Init /\ Init
    \/ part = "plain" /\ Plain!Init /\ Init

MixedStep == part = "mixed" /\ Next /\ Kept0 /\ UNCHANGED part
AloneStep == part = "alone" /\ Alone!Next /\ Kept22 /\ UNCHANGED part
CyclicStep == part = "cyclic" /\ Cyclic!Next /\ Kept22 /\ UNCHANGED part
OutlivedStep == part = "outlived" /\ Outlived!Next /\ Kept22 /\ UNCHANGED part
DisabledStep == part = "disabled" /\ Disabled!Next /\ Kept22 /\ UNCHANGED part
PlainStep == part = "plain" /\ Plain!Next /\ Kept22 /\ UNCHANGED part
SharedStep == part = "shared" /\ Shared!Next /\ Kept22 /\ UNCHANGED part

AllNext ==
    \/ MixedStep \/ AloneStep \/ CyclicStep \/ OutlivedStep \/ DisabledStep
    \/ SharedStep \/ PlainStep

(* The fairness of OoOSchedule for the instance whose progress is checked.  *)
SharedCall ==
    /\ part = "shared"
    /\ \/ Shared!Timers \/ Shared!SkipDelivery \/ Shared!Predictions \/ Shared!Relax
       \/ Shared!Deliver \/ Shared!Promote \/ Shared!DispatchMethod
       \/ Shared!DispatchThread \/ Shared!Finish
    /\ Kept22 /\ UNCHANGED part
SharedSuspend(t) ==
    part = "shared" /\ Shared!Suspend(t) /\ Kept22 /\ UNCHANGED part

AllSpec ==
    /\ AllInit /\ [][AllNext]_allVars
    /\ WF_allVars(SharedCall)
    /\ \A t \in Threads(Sharing) : WF_allVars(SharedSuspend(t))

-----------------------------------------------------------------------------
(* Events are taken in the order of simulated time, no two processes touch  *)
(* the same data at once and the incremental prediction is the full one,    *)
(* over several calls of sc_start and with processes that are disabled and  *)
(* enabled at any moment.                                                   *)
OrderKept ==
    /\ part = "alone" => Alone!NoDataRace
    /\ part = "outlived" =>
          Outlived!TakenInOrder /\ Outlived!NoDataRace /\ Outlived!PredictionExact
    /\ part = "disabled" =>
          Disabled!TakenInOrder /\ Disabled!NoDataRace /\ Disabled!PredictionExact

(* sc_main continues only when nothing is left to do in the period, also at *)
(* the limit, after a pause and in the synchronous mode (StoppedIsQuiet).   *)
QuietWhenStopped ==
    /\ part = "alone" => Alone!StoppedIsQuiet
    /\ part = "cyclic" => Cyclic!StoppedIsQuiet
    /\ part = "outlived" => Outlived!StoppedIsQuiet
    /\ part = "shared" => Shared!StoppedIsQuiet
    /\ part = "plain" => Plain!StoppedIsQuiet

(* Segments that touch the same data run in timestamp order when the limit  *)
(* is one, no thread runs past the end of its sc_start, and what is notified*)
(* while a process is disabled reaches it only afterwards.                  *)
BegunInOrder ==
    [][/\ part = "alone" => Alone!BeginsInOrder
       /\ part = "outlived" => Outlived!BeginsInPeriod
       /\ part = "disabled" => Disabled!KeepsDisabled]_allVars

(* In the synchronous mode the same scheduler implements simulation in      *)
(* delta cycles (DeltaCycle), over several calls of sc_start.               *)
CyclesKept ==
    /\ part = "cyclic" => Cyclic!Cycles!Init
    /\ [][part = "cyclic" =>
            Cyclic!Cycles!Next \/ UNCHANGED Cyclic!Cycles!cycle]_allVars

(* A process that is ready runs, or is paused at the end of the period, and *)
(* every call of the scheduler ends: conflicts delay but never starve.      *)
Progress ==
    /\ part = "shared" /\ v15 = "timers" ~> part = "shared" /\ v15 \in {"idle", "stopped"}
    /\ \A p \in Threads(Sharing) :
          part = "shared" /\ v19 > 0 /\ v1[p] = "ready"
              ~> part = "shared" /\ v1[p] \in {"run", "paused"}
=============================================================================
