SPECIFICATION HSpec
CONSTANTS
    None = None
    p1 = p1
    p2 = p2
    a = a
    b = b
    MemberIds = {1, 2}
    Instances = {"i1"}
    Metadata = {a, b}
    Protocols = {p1, p2}
    Partitions = {0}
    InitialRebalanceDelay = 1
    FallbackSessionTimeout = 1
    JoinOptions <- TwoMembers
    MaxDelay = 1
    MaxTime = 3
    MaxLeaving = 2
    MaxGeneration = 2
INVARIANTS TypeOK NextDeadlineSound SettleComplete ReadBack GroupConsistent OneAssigner OneOwner
PROPERTIES GenerationMonotonic WaitingMemberKept
