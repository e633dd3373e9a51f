\* Two requests share the ledger.
SPECIFICATION Spec
CONSTANTS
    Requests = {r1, r2}
    Debits = {1}
    NoCredit = NoCredit
    Asks <- BilledAsk
    Results <- OneResult
    StopClients = {}
    MaxAttempts = 2
    MaxChunks = 0
    ChanCap = 1
SYMMETRY TurnSymmetry
CHECK_DEADLOCK FALSE
INVARIANTS
    TypeOK
    ReportIsFinal
    NoWorkAfterReturn
    LedgerAgreesWithTallies
