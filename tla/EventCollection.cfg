\* Two controllers, two frames, a table of one job so that eviction happens.
SPECIFICATION FairSpec
CONSTANTS
    Node = {n1, n2}
    Frame = {f1, f2}
    None = None
    BatchSize = 2
    MaxJobs = 1
    LateReplies = FALSE
    MaxSwipes = 2
    MaxOccur = 2
    MaxRequests = 2
    MaxFaults = 2
INVARIANTS
    TypeOK
    HeadInHand
    ReadJobComplete
    QueueMatchesTable
PROPERTIES
    LedgerSpec
    EveryEventJournalled
