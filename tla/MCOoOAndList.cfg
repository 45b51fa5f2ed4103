SPECIFICATION Spec
CONSTANTS
    Program <- Collecting
    Thread <- MCThread
    Method <- MCMethod
    Event = {"e", "f", "g"}
    Invoker = {"i1"}
    InvokerOf <- MCInvokerOf
    NumInvokers = 4
    Segment <- MCSegment
    First <- MCFirst
    Static <- NoStatic
    WaitOf <- MCWaitOf
    NextOf <- MCNextOf
    MayNotify <- MCMayNotify
    Clash <- MCClash
    Predict <- MCPredict
    Hazard <- MCHazard
    RunTime = 5
    MaxStarts = 1
    MainEvents = {}
    Controlled = {}
    Sync = FALSE
INVARIANT
    StoppedIsQuiet
CHECK_DEADLOCK FALSE
