\* The same instance with replies that may arrive too late.
SPECIFICATION Spec
CONSTANTS
    Node = {n1, n2}
    Frame = {f1, f2}
    None = None
    BatchSize = 2
    MaxJobs = 1
    LateReplies = TRUE
    MaxSwipes = 2
    MaxOccur = 3
    MaxRequests = 0
    MaxFaults = 0
PROPERTY
    DeletedOnlyIfStored
