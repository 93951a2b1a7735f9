CONSTANTS
    Lists = {l1}
    Tasks = {t1, t2}
    Hourly = Hourly
    None = None
    Faults = {"fetch", "transaction", "metadata", "reload", "abandon", "crash"}
    MaxDownloads = 2
SPECIFICATION Spec
INVARIANTS LastSyncKept SoleSyncReplaces OrphansOnlyByRace EngineLagsOnlyByLoss
SYMMETRY Symmetry
CHECK_DEADLOCK FALSE
