SPECIFICATION Spec
CONSTANTS
    None = None
    MaxEpoch = 4
    MAX_BATCHES = 1
    MAX_FENCED_PRODUCERS = 1
    FETCH_LISTING_FIRST_WINDOW = 1
    FETCH_LISTING_GROWTH = 2
    Batches <- Plain
    Slots = {s1, s2}
    Partition = 0
    MaxSends = 2
    MaxEvents = 1
    FetchSizes = {0, 1, 6}
    ListsInOrder = TRUE
CHECK_DEADLOCK FALSE
SYMMETRY Symmetry
INVARIANTS ConsumerGetsAcked
