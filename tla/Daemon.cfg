SPECIFICATION FairSpec
CONSTANTS
    MaxChanges = 2
    MaxReleases = 2
    MaxFaults = 1
    None = None
INVARIANTS MarksTellTruth ProxyOutlivesReleases CancelledIsOver
PROPERTIES EndsTogether ProxyCatchesUp
CHECK_DEADLOCK FALSE
