SPECIFICATION Spec
CONSTANTS
    Src = Src
    Dst = Dst
    Keys = {k1, k2, k3}
    Attrs = {"a", "b"}
    Vals = {1, 2}
    None = None
    Absent = Absent
    NoKey = NoKey
    Stored <- Objects
    Beginnings <- OneOfEachOrSame
    Update <- OneAttribute
    PoolMax = 6
    Pipe = 2
    MaxTroubles = 1
    MaxCalls = 2
CHECK_DEADLOCK FALSE
INVARIANTS
    PipelinesAligned
    AttributesKept
    SyncedMeansCovered
    DeletesItsKey
