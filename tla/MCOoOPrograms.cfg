SPECIFICATION AllSpec
CONSTANTS
    Program <- Mixed
    Thread <- MCThread
    Method <- MCMethod
    Event = {"e", "f"}
    Invoker = {"i1"}
    InvokerOf <- MCInvokerOf
    NumInvokers = 4
    Segment <- MCSegment
    First <- MCFirst
    Static <- NoStatic
    WaitOf <- MCWaitOf
    NextOf <- MCNextOf
    MayNotify <- MCMayNotify
    Clash <- MCClash
    Predict <- MCPredict
    Hazard <- MCHazard
    RunTime = 5
    MaxStarts = 1
    MainEvents = {}
    Controlled = {}
    Sync = FALSE
INVARIANTS
    TypeOK
    TakenInOrder
    NoDataRace
    PredictionExact
    StoppedIsQuiet
    OrderKept
    QuietWhenStopped
PROPERTIES
    RunsInOrder
    ForgottenIsStale
    BegunInOrder
    CyclesKept
    Progress
CHECK_DEADLOCK FALSE
