\* Edits of either file, reloads that may overlap, a request beside them.
SPECIFICATION AdmissionSpec
CONSTANTS
    k1 = k1
    k2 = k2
    none = none
    Contents <- MCContents
    EnvFiles <- MCEnvFiles
    NoKey = none
    Reloaders = {w1, w2}
    MaxEdits = 3
    Clients = {q1}
    RawLegs = {5}
CHECK_DEADLOCK FALSE
INVARIANTS
    StoreTypeOK
    LiveConfigValid
    LevelFollowsLive
    SettingsReadInOrder
    UntornCallsFit
PROPERTY
    EditsArePickedUp
