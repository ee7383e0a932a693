SPECIFICATION FairSpec
CONSTANTS
    Owners = {o1}
    Keys <- TwoKeys
    OpSets <- ReadOnly
    Conns = {c1, c2, c3, c4}
    NoConn = NoConn
    NoOwner = NoOwner
    NoFunction = NoFunction
    MaxRefusals = 1
    MaxFunctions = 2
    MaxCrashes = 1
CHECK_DEADLOCK FALSE
INVARIANTS
    MostSpecificFirst
    AnnouncedOnHandle
    RoutedToMostSpecific
PROPERTIES
    RegisteredInTheEnd
