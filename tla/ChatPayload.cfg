\* Turns of any body or any message, replayed tool calls, and every debit.
SPECIFICATION Spec
CONSTANTS
    Modelled <- MCModelled
    MaxScale = 2
    MaxExponent = 2
    Requests <- MCRequests
    ReplayBody <- PlainBody
    Answers <- MCAnswers
    Debits <- MCDebits
    MaxAttempts = 3
    MaxTurns = 2
    NoCredit = NoCredit
CHECK_DEADLOCK FALSE
INVARIANTS
    TypeOK
    KeysAccountedFor
    MessagesArriveWhole
    CallsReplayVerbatim
PROPERTY
    CreditIsExact
