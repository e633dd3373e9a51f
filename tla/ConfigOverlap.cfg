\* A reload that outlasts the debounce of the next.
SPECIFICATION AdmissionSpec
CONSTANTS
    k1 = k1
    k2 = k2
    none = none
    Contents <- TwoContents
    EnvFiles <- NoEnvFile
    NoKey = none
    Reloaders = {w1, w2}
    MaxEdits = 2
    Clients = {q1}
    RawLegs = {5}
CHECK_DEADLOCK FALSE
PROPERTY
    LastEditIsLive
