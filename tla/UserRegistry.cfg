\* Two threads, two cards, two departments; one fault and one restart.
SPECIFICATION Spec
CONSTANTS
    c1 = c1
    c2 = c2
    d1 = d1
    d2 = d2
    Thread = {t1, t2}
    Card = {c1, c2}
    Dept = {d1, d2}
    NoDept = NoDept
    NoCopy = NoCopy
    Requests <- SomeRequests
    InitUsers <- TwoUsers
    InitDepts <- OneDept
    LegacyUsers <- Leftover
    LegacyDepts <- LeftoverDepts
    MaxRequests = 3
    MaxFaults = 1
    MaxCrashes = 1
SYMMETRY ThreadSymmetry
INVARIANTS
    TypeOK
    OneOwner
    StoredWhenQuiet
    DeptsListed
PROPERTIES
    CardsPassByName
CHECK_DEADLOCK FALSE
