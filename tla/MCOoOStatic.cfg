SPECIFICATION Spec
CONSTANTS
    Program <- Sleeping
    Thread <- MCThread
    Method <- MCMethod
    Event = {"e"}
    Invoker = {"i1"}
    InvokerOf <- MCInvokerOf
    NumInvokers = 4
    Segment <- MCSegment
    First <- MCFirst
    Static <- StaticMethods
    WaitOf <- MCWaitOf
    NextOf <- MCNextOf
    MayNotify <- MCMayNotify
    Clash <- MCClash
    Predict <- MCPredict
    Hazard <- MCHazard
    RunTime = 10
    MaxStarts = 1
    MainEvents = {}
    Controlled = {}
    Sync = FALSE
INVARIANT
    TakenInOrder
CHECK_DEADLOCK FALSE
