\* One controller, two users, two addresses; a table of one job so that eviction happens.
SPECIFICATION FairSpec
CONSTANTS
    u1 = u1
    u2 = u2
    a0 = a0
    a1 = a1
    Node = {n1}
    User = {u1, u2}
    Addr = {a0, a1}
    None = None
    Other = Other
    Absent = Absent
    InitUsers <- TwoUsers
    MaxJobs = 1
    Selections = {{u1}, {u1, u2}}
    Forms <- SomeForms
    MaxRequests = 2
    MaxEdits = 1
    MaxRestarts = 1
INVARIANTS
    TypeOK
    SyncExact
    Accounting
PROPERTIES
    EraseConfirmed
    EveryJobEnds
