\* One counter through deploys, crashes and losses of the state file.
SPECIFICATION FairSpec
CONSTANTS
    attempts = attempts
    le1 = le1
    leInf = leInf
    Series <- OneSeries
    Observations <- OneObservation
    Feeds <- OneFeeds
    Families <- OneFamily
    MaxCount = 6
    MaxDeploys = 2
INVARIANTS
    TypeOK
    NeverOvercounts
PROPERTIES
    LifetimeCounters
    CountsAreShown
