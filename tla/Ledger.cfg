\* Attempts, midnights and readers of both pages in any order.
SPECIFICATION Spec
CONSTANTS
    Debits = {0}
    NoCredit = NoCredit
    Calls <- MCCalls
    Bounds <- MCBounds
    Retention = 1
    MaxAttempts = 2
    LastDay = 3
CHECK_DEADLOCK FALSE
INVARIANTS
    TypeOK
    BucketsMatchLog
    StatsAgreeWithAttempts
    HistogramsCountWaits
    HistogramsCoverCounters
PROPERTIES
    PagesInterlock
    StatsRepeat
