SPECIFICATION Spec
CONSTANTS
    None = None
    MaxEpoch = 4
    MAX_BATCHES = 1
    MAX_FENCED_PRODUCERS = 1
    FETCH_LISTING_FIRST_WINDOW = 1
    FETCH_LISTING_GROWTH = 2
    Batches <- Dropped
    Slots = {s1, s2}
    Partition = 0
    MaxSends = 3
    MaxEvents = 0
    FetchSizes = {1}
    ListsInOrder = FALSE
CHECK_DEADLOCK FALSE
SYMMETRY Symmetry
INVARIANTS OlderEpochRefused
