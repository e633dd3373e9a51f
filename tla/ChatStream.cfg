\* One request, longer streams, every result, a client that may stop reading.
SPECIFICATION FairSpec
CONSTANTS
    Requests = {r1}
    Debits = {0, 3}
    NoCredit = NoCredit
    Asks <- AnyAsk
    Results <- AnyResult
    StopClients = {r1}
    MaxAttempts = 2
    MaxChunks = 3
    ChanCap = 2
CHECK_DEADLOCK FALSE
INVARIANTS
    StreamDeliversInOrder
    StreamTailIsHonest
PROPERTY
    EveryBoundedTurnEnds
