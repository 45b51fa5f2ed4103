---------------------------- MODULE MCStructures ----------------------------
(* Model-checking instances of what can be checked on its own, side by side:*)
(* the data structures of the kernel, of the channels and of the data types,*)
(* and what sc_main does with a simulation, the elaboration, the binding of *)
(* ports, the status and the reports.  part says which of them a behaviour  *)
(* is about, and v1, v2 ... are the variables of that one.  DependencySets, *)
(* about which there are theorems, is extended; the others are instances.   *)
EXTENDS DependencySets, Integers, Sequences

CONSTANTS
    null,   \* a null pointer
    x, y    \* interfaces

-----------------------------------------------------------------------------
(* The constants of DependencySets: t alternates between two segments, u    *)
(* starts in u0 and then alternates.                                        *)
MCSegment == {"t0", "t1", "u0", "u1", "u2", "m", "n"}
MCFirst == [p \in {"t", "u", "m", "n"} |->
    CASE p = "t" -> "t0" [] p = "u" -> "u0" [] p = "m" -> "m" [] p = "n" -> "n"]
MCFlow == {<<"t0", "t1">>, <<"t1", "t0">>,
           <<"u0", "u1">>, <<"u1", "u2">>, <<"u2", "u1">>}
MCNotifies == {<<"t0", "m">>, <<"t1", "u1">>, <<"u1", "t0">>, <<"u2", "t1">>,
               <<"m", "t1">>, <<"m", "n">>, <<"n", "u2">>, <<"u2", "n">>}
MCClashes == {<<"t0", "u1">>, <<"u1", "t0">>, <<"t1", "m">>, <<"m", "t1">>,
              <<"m", "n">>, <<"n", "m">>, <<"u2", "n">>, <<"n", "u2">>}

(* Timed notifications, of which two are due at the same time.              *)
Notifications == {"n1", "n2", "n3", "n4", "n5"}
Due == [e \in Notifications |->
    CASE e = "n1" -> 1 [] e \in {"n2", "n3"} -> 2 [] e = "n4" -> 3 [] e = "n5" -> 4]

(* Signals of one bit.                                                      *)
OneBit == {<<b>> : b \in {"0", "1", "Z", "X"}}

(* Fixed-point formats, rounded in units of a quarter up to four, all       *)
(* overflow modes with every number of saturated bits, and numbers longer   *)
(* than the shortest array; values of two and three words of two bits.      *)
Greatest(S) == CHOOSE n \in S : \A m \in S : m <= n
Format(wls, iwls, encs, qs, os) ==
    {f \in [wl : wls, iwl : iwls, enc : encs, q_mode : qs, o_mode : os,
             n_bits : 0..Greatest(wls)] :
        /\ f.n_bits <= f.wl
        /\ f.n_bits > 0 => f.o_mode \in {"WRAP", "WRAP_SM"}
        /\ f.o_mode = "WRAP_SM" => f.enc = "TC"}
Roundings ==
    {"TRN", "RND", "TRN_ZERO", "RND_INF", "RND_CONV", "RND_ZERO", "RND_MIN_INF"}
Overflows == {"SAT", "SAT_SYM", "SAT_ZERO", "WRAP", "WRAP_SM"}
Formats ==
    Format({2}, {1, 3, 5}, {"TC", "US"}, Roundings, {"SAT"})
        \cup Format({1, 3}, {2}, {"TC", "US"}, {"TRN"}, Overflows)
LongFormats ==
    {f \in Format({5}, {3}, {"US"}, {"RND_CONV"}, {"WRAP", "SAT_SYM"})
                \cup Format({5}, {5}, {"TC"}, {"RND_CONV"}, {"WRAP", "SAT_SYM"}) :
        f.n_bits \in {0, 2}}
Values ==
    [mant : 0..15, size : {2}, wp : {0, 1, 2}]
        \cup [mant : {21, 42, 63}, size : {3}, wp : {0, 1}]
FewValues ==
    [mant : {0, 1, 6, 9, 14, 15}, size : {2}, wp : {1}]
        \cup [mant : {32, 45, 63}, size : {3}, wp : {0}]
Shifts == {2, -1}
LongShifts == {3, -3}

(* Numbers of class cls with nb bits and value i.  Digits of four bits, so  *)
(* that all values of one digit and those around the ends of two and three  *)
(* occur, and a second operator; digits of ten bits, which bytes of three   *)
(* bits do not divide, as the code's, for products and quotients.           *)
Number(cls, nb, i) ==
    [cls |-> cls, nb |-> nb, sgn |-> IF i < 0 THEN -1 ELSE IF i = 0 THEN 0 ELSE 1,
     mag |-> IF i < 0 THEN -i ELSE i]
Numbers(cls, nb, values) == {Number(cls, nb, i) : i \in values}
NarrowStarts ==
    Numbers("signed", 4, -8..7) \cup Numbers("signed", 5, {-16, 0, 15})
        \cup Numbers("signed", 9, {-256, -121, -16, 100, 255})
        \cup Numbers("signed", 10, {-512, 0, 417})
        \cup Numbers("unsigned", 4, {0, 1, 6, 7}) \cup Numbers("unsigned", 10, {0, 40, 511})
NarrowFormats ==
    Numbers("signed", 4, {0}) \cup Numbers("signed", 10, {0}) \cup Numbers("unsigned", 9, {0})
NarrowOperands ==
    Numbers("signed", 4, {-8, 5}) \cup Numbers("signed", 9, {-97}) \cup Numbers("signed", 10, {511})
        \cup Numbers("unsigned", 5, {13}) \cup Numbers("unsigned", 9, {200})
        \cup Numbers("int64", 9, {-255, 0, 77}) \cup Numbers("uint64", 9, {0, 1, 400})
NarrowLater == Numbers("signed", 5, {11}) \cup Numbers("unsigned", 4, {6})
NarrowParts == {-1, 0, 2, 5, 11} \X {0, 1, 3, 7}
WideStarts ==
    Numbers("signed", 14, {-8192, -6143, -1024, -33, -32, 0, 1, 31, 512, 1023, 1025, 7936, 8191})
        \cup Numbers("unsigned", 14, {0, 32, 63, 1000, 1024, 3968, 5555, 8191})
        \cup Numbers("signed", 10, {-512, 40})
WideOperands ==
    Numbers("signed", 14, {-8192, -4097, -1024, -64, -31, -3, 1, 31, 32, 65, 513, 1023, 1337})
        \cup Numbers("unsigned", 12, {0, 7, 33, 96, 127, 255, 449, 1023, 1024, 2047})
        \cup Numbers("int64", 12, {-2047, -1, 31, 100}) \cup Numbers("uint64", 12, {32, 511, 2048, 4095})

(* Port 2 of an inner module, 1 and 3 of the modules around it: the binding *)
(* of the last port created can need those of both others.                  *)
Chain == [p \in 1..3 |-> CASE p = 1 -> {} [] p = 2 -> {1, 3} [] p = 3 -> {1}]
AtMostTwo == [p \in 1..3 |-> CASE p = 1 -> 2 [] p = 2 -> 0 [] p = 3 -> 1]
AllPolicies == [p \in 1..3 |->
    CASE p = 1 -> "zero or more" [] p = 2 -> "all" [] p = 3 -> "one or more"]

Kinds == {"port", "export", "channel", "module"}

(* Every report is logged unless a rule says otherwise.                     *)
Logged == [s \in {"info", "fatal"} |-> {"log"}]
SomeLimits == {-1, 0, 2}

-----------------------------------------------------------------------------

VARIABLES
    part,
    v1, v2, v3, v4, v5, v6, v7, v8, v9, v10, v11, v12, v13, v14, v15, v16, v17,
    v18, v19

allVars == <<part, vars, v1, v2, v3, v4, v5, v6, v7, v8, v9, v10, v11, v12, v13,
               v14, v15, v16, v17, v18, v19>>

(* What an instance does not use keeps its first value.                    *)
Unused14 == v15 = 0 /\ v16 = 0 /\ v17 = 0 /\ v18 = 0 /\ v19 = 0
Unused13 == v14 = 0 /\ Unused14
Unused9 == v10 = 0 /\ v11 = 0 /\ v12 = 0 /\ v13 = 0 /\ Unused13
Unused8 == v9 = 0 /\ Unused9
Unused7 == v8 = 0 /\ Unused8
Unused6 == v7 = 0 /\ Unused7
Unused5 == v6 = 0 /\ Unused6
Unused4 == v5 = 0 /\ Unused5
Unused0 == v1 = 0 /\ v2 = 0 /\ v3 = 0 /\ v4 = 0 /\ Unused4
Last14 == <<vars, v15, v16, v17, v18, v19>>
Last13 == <<v14, Last14>>
Last9 == <<v10, v11, v12, v13, Last13>>
Last8 == <<v9, Last9>>
Last7 == <<v8, Last8>>
Last6 == <<v7, Last7>>
Last5 == <<v6, Last6>>
Last4 == <<v5, Last5>>
Kept0 == UNCHANGED <<v1, v2, v3, v4, v5, v6, v7, v8, v9, v10, v11, v12, v13, v14, v15, v16, v17,
                    v18, v19>>
Kept4 == UNCHANGED Last4
Kept5 == UNCHANGED Last5
Kept6 == UNCHANGED Last6
Kept7 == UNCHANGED Last7
Kept8 == UNCHANGED Last8
Kept9 == UNCHANGED Last9
Kept13 == UNCHANGED Last13
Kept14 == UNCHANGED Last14
Kept19 == UNCHANGED vars

Queue == INSTANCE PriorityQueue WITH
    Entry <- Notifications, Time <- Due, Sz <- 0, Garbage <- "garbage",
    m_heap <- v1, m_heap_size <- v2, m_size_alloc <- v3, taken <- v4

Signal == INSTANCE ResolvedSignal WITH
    Process <- {"p", "q", "r"}, Width <- 1, Written <- OneBit,
    Parallel <- FALSE, procs <- v1, vals <- v2, cur <- v3, requested <- v4,
    at <- v5, arg <- v6, size <- v7, running <- v8, wrote <- v9

Nodes == INSTANCE FreeList WITH
    Process <- {"p", "q"}, Block <- {"b1", "b2"}, AllocSize <- 2,
    MaxHeld <- 2, Null <- null, list <- v1, next <- v2, blocks <- v3,
    owner <- v4, pc <- v5, ptr <- v6, held <- v7

Cells == INSTANCE MemPool WITH
    Process <- {"p", "q"}, MaxBlocks <- 2, Cells <- 2, MaxHeld <- 2,
    Overlap <- FALSE, Null <- null, free_list <- v1, next_avail <- v2,
    block_list <- v3, next <- v4, pc <- v5, ptr <- v6, held <- v7

Selections == INSTANCE Temporaries WITH
    Process <- {"p", "q"}, Wrap <- 3, MaxDepth <- 4, Overlap <- FALSE,
    Null <- null, m_pool_i <- v1, m_obj_p <- v2, pc <- v3, result_p <- v4,
    refs <- v5, used <- v6

Fixed == INSTANCE FixedPoint WITH
    WordBits <- 2, Formats <- Formats, Sources <- Values, Shifts <- Shifts,
    MaxSize <- 4, Scale <- 12, rep <- v1, format <- v2, q_flag <- v3,
    o_flag <- v4, last <- v5

Long == INSTANCE FixedPoint WITH
    WordBits <- 2, Formats <- LongFormats, Sources <- FewValues,
    Shifts <- LongShifts, MaxSize <- 4, Scale <- 12, rep <- v1, format <- v2,
    q_flag <- v3, o_flag <- v4, last <- v5

Integers4 == INSTANCE BigInteger WITH
    DigitBits <- 4, HalfBits <- 2, ByteBits <- 1, IntBits <- 9, DefaultBits <- 5,
    Starts <- NarrowStarts, Formats <- NarrowFormats, Operands <- NarrowOperands,
    Later <- NarrowLater, Shifts <- {0, 1, 5}, Parts <- NarrowParts, MaxSteps <- 2,
    x <- v1, t <- v2, last <- v3, steps <- v4

Integers10 == INSTANCE BigInteger WITH
    DigitBits <- 10, HalfBits <- 5, ByteBits <- 3, IntBits <- 12, DefaultBits <- 11,
    Starts <- WideStarts, Formats <- {}, Operands <- WideOperands,
    Later <- {}, Shifts <- {1, 9, 10, 11}, Parts <- {}, MaxSteps <- 1,
    x <- v1, t <- v2, last <- v3, steps <- v4

Ports == INSTANCE PortBinding WITH
    Port <- 1..3, Interface <- {x, y}, Process <- {"r"}, None <- null,
    Parents <- Chain, MaxSize <- AtMostTwo, Policy <- AllPolicies,
    MaxBinds <- 5, MaxSensitive <- 1, Late <- "nobody", vec <- v1,
    has_parent <- v2, last_add <- v3, is_leaf <- v4, complete <- v5,
    gone <- v6, waiting <- v7, ifaces <- v8, registered <- v9, static <- v10,
    stack <- v11, phase <- v12, bound <- v13, asked <- v14

Status == INSTANCE SimStatus WITH
    Process <- {"p", "q"}, Durations <- {0, 1, 2}, MaxStarts <- 3,
    MaxTime <- 3, MaxDelta <- 1, Calls <- {"stop", "throw"},
    FinishDelta <- TRUE, Alone <- TRUE, at <- v1, status <- v2,
    control <- v3, prepared <- v4, forced <- v5, paused <- v6, error <- v7,
    policy <- v8, duration <- v9, time <- v10, state <- v11, ts <- v12,
    call <- v13, pass <- v14, latest <- v15, starts <- v16, ends <- v17,
    stopped <- v18, shown <- v19

Stops == INSTANCE SimStatus WITH
    Process <- {"p", "q"}, Durations <- {0, 1}, MaxStarts <- 3,
    MaxTime <- 2, MaxDelta <- 1, Calls <- {"stop"},
    FinishDelta <- TRUE, Alone <- FALSE, at <- v1, status <- v2,
    control <- v3, prepared <- v4, forced <- v5, paused <- v6, error <- v7,
    policy <- v8, duration <- v9, time <- v10, state <- v11, ts <- v12,
    call <- v13, pass <- v14, latest <- v15, starts <- v16, ends <- v17,
    stopped <- v18, shown <- v19

Reports == INSTANCE ReportHandler WITH
    Reporter <- {"p", "q"}, Type <- {"t", "u"}, Predefined <- {"t"},
    MaxReports <- 2, MaxSettings <- 1, MayReset <- FALSE, Fatal <- "fatal",
    Severity <- {"info", "fatal"}, Action <- {"log"}, Stop <- "stop",
    Defaults <- Logged, Limits <- SomeLimits, Serial <- TRUE, def <- v1,
    next <- v2, messages <- v3, rules <- v4, suppress_mask <- v5,
    force_mask <- v6, at <- v7, what <- v8, md <- v9, seen <- v10,
    last <- v11, made <- v12, settings <- v13

Objects == INSTANCE Elaboration WITH
    Initial <- Kinds, Creators <- {"channel", "module"}, Deleters <- {},
    MaxBorn <- 2, vec <- v1, born <- v2, done <- v3, phase <- v4, kind <- v5,
    i <- v6, quiet <- v7, calls <- v8

Settings == INSTANCE ReportHandler WITH
    Reporter <- {"p"}, Type <- {"t"}, Predefined <- {}, MaxReports <- 2,
    MaxSettings <- 2, MayReset <- TRUE, Fatal <- "fatal",
    Severity <- {"info", "fatal"}, Action <- {"log"}, Stop <- "stop",
    Defaults <- Logged, Limits <- SomeLimits, Serial <- TRUE, def <- v1,
    next <- v2, messages <- v3, rules <- v4, suppress_mask <- v5,
    force_mask <- v6, at <- v7, what <- v8, md <- v9, seen <- v10,
    last <- v11, made <- v12, settings <- v13

-----------------------------------------------------------------------------
AllInit ==
    \/ part = "sets" /\ Init /\ Unused0
    \/ part = "queue" /\ Queue!Init /\ Init /\ Unused4
    \/ part = "signal" /\ Signal!Init /\ Init /\ Unused9
    \/ part = "nodes" /\ Nodes!Init /\ Init /\ Unused7
    \/ part = "cells" /\ Cells!Init /\ Init /\ Unused7
    \/ part = "selections" /\ Selections!Init /\ Init /\ Unused6
    \/ part = "fixed" /\ Fixed!Init /\ Init /\ Unused5
    \/ part = "long" /\ Long!Init /\ Init /\ Unused5
    \/ part = "integers" /\ Integers4!Init /\ Init /\ Unused4
    \/ part = "digits" /\ Integers10!Init /\ Init /\ Unused4
    \/ part = "ports" /\ Ports!Init /\ Init /\ Unused14
    \/ part = "status" /\ Status!Init /\ Init
    \/ part = "stops" /\ Stops!Init /\ Init
    \/ part = "reports" /\ Reports!Init /\ Init /\ Unused13
    \/ part = "elaboration" /\ Objects!Init /\ Init /\ Unused8
    \/ part = "settings" /\ Settings!Init /\ Init /\ Unused13

SetsStep == part = "sets" /\ Next /\ Kept0 /\ UNCHANGED part
QueueStep == part = "queue" /\ Queue!Next /\ Kept4 /\ UNCHANGED part
SignalStep == part = "signal" /\ Signal!Next /\ Kept9 /\ UNCHANGED part
NodesStep == part = "nodes" /\ Nodes!Next /\ Kept7 /\ UNCHANGED part
CellsStep == part = "cells" /\ Cells!Next /\ Kept7 /\ UNCHANGED part
SelectionsStep == part = "selections" /\ Selections!Next /\ Kept6 /\ UNCHANGED part
FixedStep == part = "fixed" /\ Fixed!Next /\ Kept5 /\ UNCHANGED part
LongStep == part = "long" /\ Long!Next /\ Kept5 /\ UNCHANGED part
IntegersStep == part = "integers" /\ Integers4!Next /\ Kept4 /\ UNCHANGED part
DigitsStep == part = "digits" /\ Integers10!Next /\ Kept4 /\ UNCHANGED part
PortsStep == part = "ports" /\ Ports!Next /\ Kept14 /\ UNCHANGED part
StatusStep == part = "status" /\ Status!Next /\ Kept19 /\ UNCHANGED part
StopsStep == part = "stops" /\ Stops!Next /\ Kept19 /\ UNCHANGED part
ReportsStep == part = "reports" /\ Reports!Next /\ Kept13 /\ UNCHANGED part
ObjectsStep == part = "elaboration" /\ Objects!Next /\ Kept8 /\ UNCHANGED part
SettingsStep == part = "settings" /\ Settings!Next /\ Kept13 /\ UNCHANGED part

(* These may come to an end.                                               *)
Ends == {"ports", "status", "stops", "reports", "elaboration", "settings", "integers",
         "digits"}
Stopped == part \in Ends /\ UNCHANGED allVars

AllNext ==
    \/ SetsStep \/ QueueStep \/ SignalStep \/ NodesStep \/ CellsStep
    \/ SelectionsStep \/ FixedStep \/ LongStep \/ IntegersStep \/ DigitsStep
    \/ PortsStep \/ StatusStep \/ StopsStep \/ ReportsStep \/ ObjectsStep
    \/ SettingsStep \/ Stopped

AllSpec == AllInit /\ [][AllNext]_allVars

ASSUME StructuresAssumption ==
    /\ Queue!PriorityQueueAssumption /\ Signal!ResolvedAssumption
    /\ Nodes!FreeListAssumption /\ Cells!MemPoolAssumption
    /\ Selections!TemporariesAssumption
    /\ Fixed!FixedPointAssumption /\ Long!FixedPointAssumption
    /\ Integers4!BigIntegerAssumption /\ Integers10!BigIntegerAssumption
    /\ Ports!PortAssumption /\ Status!StatusAssumption /\ Stops!StatusAssumption
    /\ Objects!ElaborationAssumption /\ Reports!ReportAssumption /\ Settings!ReportAssumption

-----------------------------------------------------------------------------
(* The heap of timed notifications implements TimedQueue: whatever the      *)
(* order of insertions and extractions and the growth of the array between  *)
(* them, every notification comes out once and an earliest one first        *)
(* (sc_ppq_base).                                                           *)
QueueImplemented ==
    /\ part = "queue" => Queue!Queue!Init
    /\ [][part = "queue" => Queue!Queue!Next \/ UNCHANGED Queue!Queue!vars]_allVars

(* No node of a fixed-point number is used twice or lost, also when the     *)
(* calls of two processes overlap (scfx_rep, which has a mutex).  For one   *)
(* call at a time only, as the code has no lock there: no cell of the memory*)
(* pool is used twice, or while it is free, and none is lost                *)
(* (sc_mempool_int), and a reference that a selection returned means what   *)
(* was selected for as long as its expression lasts (sc_vpool).  The cells  *)
(* of the heap of notifications hold different entries (sc_ppq_base).       *)
StorageRight ==
    /\ part = "queue" => Queue!TypeOK /\ Queue!CellsDistinct
    /\ part = "nodes" => Nodes!TypeOK /\ Nodes!UsedOnce /\ Nodes!NothingLost
    /\ part = "cells" => Cells!TypeOK /\ Cells!CellUsedOnce /\ Cells!CellsAccounted
    /\ part = "selections" => Selections!TypeOK /\ Selections!MeansWhatWasSelected

(* A resolved signal has the value its drivers say together, whichever of   *)
(* them wrote in a cycle (sc_signal_resolved::write and update).            *)
SignalRight ==
    part = "signal" => Signal!TypeOK /\ Signal!DriversKnown /\ Signal!Resolved

(* Assignments and shifts of fixed-point numbers round and overflow as the  *)
(* modes say, the flags tell of it, and bits are set and read where they    *)
(* are in the number, wherever the words lie (scfx_rep::cast and shifts).   *)
(* Integers of any width: an operator is exact, a variable holds what is    *)
(* congruent to it, and bits and comparisons are those of the values        *)
(* (sc_signed, sc_unsigned).                                                *)
ArithmeticRight ==
    /\ part = "fixed" => Fixed!TypeOK /\ Fixed!InFormat /\ Fixed!CastRight /\ Fixed!FlagsRight
    /\ part = "long" => Long!BitsRight /\ Long!GetBitRight /\ Long!WordsKnown
    /\ part = "integers" =>
          /\ Integers4!TypeOK /\ Integers4!Exact /\ Integers4!Congruent
          /\ Integers4!BitsPlaced /\ Integers4!Ordered
    /\ part = "digits" => Integers10!Exact /\ Integers10!Congruent /\ Integers10!Ordered

(* The result of | is positive when both operands are (operator|).          *)
OrPositive == part = "integers" => Integers4!OrPositive

(* Every port ends up with the interfaces its bindings lead to, in order    *)
(* and whatever was bound first; only leaves are registered, errors are     *)
(* reported exactly for what is unsound, and every process is sensitive to  *)
(* what is behind its ports (sc_port_base::complete_binding).               *)
PortsRight ==
    part = "ports" =>
        /\ Ports!TypeOK /\ Ports!Flattened /\ Ports!LeavesRegistered
        /\ Ports!ErrorJustified /\ Ports!NoneUnsound /\ Ports!SensitivityExact

(* Every object, also one that a callback created, gets each of the four    *)
(* callbacks once, and none before all have had the earlier ones            *)
(* (sc_simcontext::elaborate).                                              *)
ElaborationRight == part = "elaboration" => Objects!TypeOK /\ Objects!CalledOnce

(* sc_start returns inside its period with no process behind the time that  *)
(* sc_main sees, if sc_stop is only called by a process that runs alone, and*)
(* also otherwise until it is called; the end is announced once, whoever    *)
(* stops the simulation and whatever comes between the steps of the calls   *)
(* (sc_start, sc_stop, oooschedule).                                        *)
StatusRight ==
    /\ part = "status" =>
          Status!TypeOK /\ Status!TimeWithinPeriod /\ Status!NotBehind /\ Status!EndOnce
    /\ part = "stops" => Stops!TypeOK /\ Stops!RightUntilStop /\ Stops!EndOnce

(* The simulated time that sc_main sees never goes back, whatever comes     *)
(* between the steps of sc_stop; and if only a process that runs alone calls*)
(* it, no process begins to run afterwards that is later than that one.     *)
StatusSteps ==
    [][/\ part = "status" => Status!StopStep /\ Status!TimeStep
       /\ part = "stops" => Stops!TimeStep]_allVars

(* Every message type has one definition, its counters are the reports made *)
(* and what is done about a report follows from the rules, the limits and   *)
(* the masks (sc_report_handler::report, execute).                          *)
ReportsRight ==
    /\ part = "reports" =>
          Reports!TypeOK /\ Reports!RegisteredOnce /\ Reports!CountsExact /\ Reports!ActionsFollow
    /\ part = "settings" => Settings!CountsExact /\ Settings!ActionsFollow
=============================================================================
