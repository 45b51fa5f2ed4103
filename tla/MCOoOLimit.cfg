SPECIFICATION Spec
CONSTANTS
    Program <- Crowding
    Thread <- MCThread
    Method <- MCMethod
    Event = {"e", "f"}
    Invoker = {"i1"}
    InvokerOf <- MCInvokerOf
    NumInvokers = 1
    Segment <- MCSegment
    First <- MCFirst
    Static <- NoStatic
    WaitOf <- MCWaitOf
    NextOf <- MCNextOf
    MayNotify <- MCMayNotify
    Clash <- MCClash
    Predict <- MCPredict
    Hazard <- MCHazard
    RunTime = 10
    MaxStarts = 1
    MainEvents = {}
    Controlled = {}
    Sync = FALSE
PROPERTY
    ForgottenIsStale
CHECK_DEADLOCK FALSE
