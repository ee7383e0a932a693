SPECIFICATION Spec
CONSTANTS
    Clients = {c1}
    DbKeys = {d1}
    OwnedKeys = {s1}
    Attrs = {"a", "b"}
    Vals = {0, 1, 2}
    None = None
    Absent = Absent
    NoKey = NoKey
    InitObjects <- OldObjects
    NewObjects <- Changed
    MayContinue = {TRUE, FALSE}
    Faults = {"read", "refused", "reply", "lost", "event", "owner", "timeout", "undo"}
    MaxMet = 2
    MaxChanges = 3
INVARIANTS
    SubscriberFollowsDatabase
    FailureUndone
    CommittedAsAsked
