CONSTANTS
    p1 = p1
    p2 = p2
    p3 = p3
    root = root
    o = o
    i = i
    free = free
    Process = {p1, p2, p3}
    Root = root
    Channel = {o, i}
    Rank <- MCRank
    MaxNest = 2
    MaxRepeat = 2
    Free = free
SPECIFICATION Spec
SYMMETRY MCSymmetry
INVARIANTS
    LockSafety
    ChannelSafety
