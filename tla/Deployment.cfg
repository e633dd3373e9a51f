\* Two scripts on one host, under each supervisor.
SPECIFICATION FairSpec
CONSTANTS
    Scripts = {d1, d2}
    Builds = {Old, New}
    Old = Old
    None = None
    MaxFaults = 1
CHECK_DEADLOCK FALSE
INVARIANTS
    RunsWhatIsInstalled
    SmokeTestGuards
    RollbackUndoes
    SmokeServersEnd
PROPERTY
    ServiceReturns
