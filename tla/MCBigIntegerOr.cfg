SPECIFICATION AllSpec
CONSTANTS
    null = null
    x = x
    y = y
    Thread = {"t", "u"}
    Method = {"m", "n"}
    Segment <- MCSegment
    First <- MCFirst
    Flow <- MCFlow
    Notifies <- MCNotifies
    Clashes <- MCClashes
    Late = {"n"}
INVARIANTS
    OrPositive
