SPECIFICATION NSFairSpec
CONSTANTS
    Keys <- MCKeys
    Hashes <- MCHashes
    Hash <- MCHash
    Fds = {1, 2}
    Clients = {c1, c2}
    NoClient = NoClient
    NoFd = 0
    NoHash = "none"
    MaxRegs = 4
INVARIANTS
    EventsMatchTable
    OrphansOnlyByCollision
    QueryAnswersDirectory
PROPERTIES
    ImplementsDirectory
    CleanupEnds
