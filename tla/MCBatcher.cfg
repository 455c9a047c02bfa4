SPECIFICATION FairSpec
CONSTANTS
    None = None
    Waker = Waker
    Failed = Failed
    t1 = t1
    t2 = t2
    t3 = t3
    Tasks = {t1, t2, t3}
    Workloads <- SmallWorkloads
    minimum_size = 1
    MaxMessageBytes = 2
    MaxDelta = 2
CHECK_DEADLOCK FALSE
INVARIANTS OwnRecords StoredOnce NothingLeft
PROPERTIES EveryProduceReturns
