SPECIFICATION Spec
CONSTANTS
    Program <- Pausing
    Thread <- MCThread
    Method <- MCMethod
    Event = {"e"}
    Invoker = {"i1"}
    InvokerOf <- MCInvokerOf
    NumInvokers = 4
    Segment <- MCSegment
    First <- MCFirst
    Static <- NoStatic
    WaitOf <- MCWaitOf
    NextOf <- MCNextOf
    MayNotify <- MCMayNotify
    Clash <- MCClash
    Predict <- MCPredict
    Hazard <- MCHazard
    RunTime = 5
    MaxStarts = 2
    MainEvents = {}
    Controlled = {}
    Sync = FALSE
PROPERTY
    ForgottenIsStale
CHECK_DEADLOCK FALSE
