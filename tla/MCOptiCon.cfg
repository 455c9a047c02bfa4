SPECIFICATION FairSpec
CONSTANTS
    None = None
    Brokers = {b1}
    Slots = {c1, c2}
    Updates = {u1, u2}
    ETagIsHash = TRUE
    MaxFaults = 1
INVARIANTS VersionsNameData
PROPERTIES DocumentIsAtomic EveryCallReturns
