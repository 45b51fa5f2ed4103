SPECIFICATION AllSpec
CONSTANTS
    null = null
    Process = {"p", "q"}
    Root = "root"
    External = {}
    Channel = {"s", "t"}
    Buffer = {}
    Policy <- ManyAndOne
    Value = {0, 1}
    InitVal = 0
    Registry = "registry"
    None = nobody
    End = "end"
    MaxAsync = 0
INVARIANTS
    QueuesRight
    NotificationsRight
    ThreadsRight
    LocksRight
    UpdateRight
PROPERTIES
    ListsImplemented
    StepsRight
    EvaluateUpdate
