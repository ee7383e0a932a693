SPECIFICATION MCSpec
CONSTANTS
    o1 = o1
    o2 = o2
    o3 = o3
    st = st
    l1 = l1
    l2 = l2
    Null = Null
    Objects = {o1, o2, o3, st}
    OnStack = {st}
    Lists = {l1, l2}
    Leaves = {20, 21}
    Containers = {0, 1, 10, 11}
    Paths <- ObjectPaths
    DefSize = 4
    StepSize = 2
    KeyCells = 1
    Few = 1
    MaxEdits = 3
    MaxMoves = 3
SYMMETRY ListSymmetry
INVARIANTS
    BufferHoldsAttributes
    ReadersFindNamed
    MergeKeepsAll
    RefsCounted
CHECK_DEADLOCK FALSE
