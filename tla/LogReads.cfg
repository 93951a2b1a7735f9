\* Three rows, three hours, pages of one or two rows.
SPECIFICATION Spec
CONSTANTS
    Entries <- FewEntries
    Holding <- TextsHolding
    FilterSets <- FewFilterSets
    Wants <- FewWants
    Cursors = {3, 4}
    HOURS = 1
    RETENTION = 1
    MIN_POINTS = 1
    MaxRows = 3
    MaxClock = 2
    MaxAlerts = 2
    NS_PER_MS = 4
    I64 = 8
    Error = Error
    None = None
INVARIANTS TypeOK CursorWalkComplete OffsetMissesOnlyByLoss StatsDriftBounded 
