SPECIFICATION Spec
CONSTANTS
    None = None
    MAX_ENTRIES = 2
    INITIAL_INTERVAL_BYTES = 2
    Batches <- SmallBatches
    Initial <- SmallPartitions
    Slots = {s1, s2}
    Cutoffs = {1}
    Lookups = {l1, l2}
    MaxSends = 1
    MaxOldSends = 0
    MaxLookups = 2
    MaxEvents = 1
CHECK_DEADLOCK FALSE
SYMMETRY Symmetry
INVARIANTS OnlyOldProducesMissed
