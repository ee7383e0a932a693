SPECIFICATION Spec
CONSTANTS
    Clients = {c1}
    DbKeys = {d1}
    OwnedKeys = {s1}
    Attrs = {"a", "b"}
    Vals = {0, 1, 2}
    None = None
    Absent = Absent
    NoKey = NoKey
    InitObjects <- OldObjects
    NewObjects <- Changed
    MayContinue = {FALSE}
    Faults = {"owner"}
    MaxMet = 1
    MaxChanges = 3
INVARIANTS
    RolledBackAtomically
