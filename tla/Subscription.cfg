SPECIFICATION FairSpec
CONSTANTS
    Groups = {l, a}
    Nodes <- TwoNodes
    Local <- Here
    Port <- NoPorts
    None = None
    LocalGroup = l
    a = a
    k = k
    m = m
    Registrations <- BothInGroup
    Keys = {k, m}
    Filtered = {m}
    GroupKey = gk
    Memberships <- EachOrBoth
    MaxChanges = 2
INVARIANTS
    StateEventsTrue
    EventsKeptInOrder
    KeysMissedOnlyByRejoin
PROPERTIES
    SubscribedInTheEnd
