SPECIFICATION FairSpec
CONSTANTS
    Addrs = {a1, a2}
    NoAddr = NoAddr
    MaxInflight = 1
    Redline = 0
    MaxPublished = 3
    Faults = {"connect", "append", "reconnect", "flush"}
INVARIANTS
    DeliveredOnce
    OrderedDelivery
    NothingLost
PROPERTIES
    EveryEventLeaves
