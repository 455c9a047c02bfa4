SPECIFICATION Spec
CONSTANTS
    None = None
    p1 = p1
    a = a
    b1 = b1
    b2 = b2
    MemberIds = {1}
    Instances = {}
    Metadata = {a}
    Protocols = {p1}
    Partitions = {0}
    InitialRebalanceDelay = 0
    FallbackSessionTimeout = 1
    Brokers = {b1, b2}
    Slots = {s1, s2}
    Ops = {"join", "sync", "heartbeat", "leave", "commit", "delete"}
    Engine = "object_store"
    JoinOptions <- OldClient
    PollInterval = 1
    MaxTime = 0
    MaxLeaving = 1
    MaxGeneration = 1
    MaxVersion = 3
    MaxFaults = 1
CHECK_DEADLOCK FALSE
SYMMETRY Symmetry
INVARIANTS TypeOK CacheIsTrue
PROPERTIES GroupIsAtomic NoStaleAnswer
