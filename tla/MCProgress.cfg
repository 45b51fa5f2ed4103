SPECIFICATION AllSpec
CONSTANTS
    null = null
    Process = {"r1", "w1", "w2"}
    Event = {"read", "written"}
    Reader = {"r1"}
    Writer = {"w1", "w2"}
    Value = {1, 2}
    Empty = empty
    Size = 2
INVARIANTS
    FifoSafe
PROPERTIES
    BoundedFifo
    ChannelsProgress
    ThreadsProgress
    SimulationProgress
