SPECIFICATION RequestSpec
CONSTANTS
    o1 = o1
    o2 = o2
    Owners = {o1, o2}
    NoOwner = NoOwner
    Keys <- OneKey
    Functions <- TwoOwners
    Holdings <- TheirObjects
    Databases <- InDatabases
    Requests <- Gets
    TM = 1
    MaxTicks = 3
    MaxMoves = 2
    MaxGets = 3
CHECK_DEADLOCK FALSE
INVARIANTS
    OkMeansComplete
    SentToRecentOwner
