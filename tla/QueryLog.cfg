CONSTANTS
    c1 = c1  c2 = c2
    ClientIps = {c1}
    Statuses = {"allowed", "blocked"}
    CHANNEL_CAPACITY = 2
    BATCH_SIZE = 2
    THRESHOLD = 2
    WINDOW = 1
    STALE = 2
    NoCount = NoCount
    MaxEntries = 4
    MaxSeconds = 2
SPECIFICATION FairSpec
INVARIANTS  AlertsPaidFor
PROPERTIES KeepsLogPromise EntriesSettle
CHECK_DEADLOCK FALSE
