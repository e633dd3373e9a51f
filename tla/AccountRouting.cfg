\* Two requests of any kind on one breaker, a kill switch turned twice, scrapes.
SPECIFICATION Spec
CONSTANTS
    doom = doom
    zai = zai
    a = a
    b = b
    c = c
    Requests = {r1, r2}
    Accounts = {doom, zai}
    Legs <- MCLegs
    AccountOf <- MCAccountOf
    Chains <- MCChains
    MaxSwitches = 1
SYMMETRY Symmetry
CHECK_DEADLOCK FALSE
INVARIANTS
    TypeOK
    CountsFollowCircuits
    PlainFallback
PROPERTIES
    OpeningIsShown
    AccountsStayListed
