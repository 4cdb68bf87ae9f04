\* Two devices, one of them listed at the start; two actions, and one controller renamed
\* meanwhile, so that the list is saved by two threads at once.
SPECIFICATION Spec
CONSTANTS
    d1 = d1
    d2 = d2
    d3 = d3
    Device = {d1, d2}
    Id = {1, 2, 3}
    InitPhys <- Wired
    InitList = {1}
    Disabled = {}
    Scan = {0, 1, 2}
    Broadcast = 0
    None = None
    MaxRequests = 2
    MaxRenames = 1
    MaxRefresh = 0
    MaxEvents = 1
    MaxRestarts = 0
INVARIANTS
    TypeOK
    NumbersStored
PROPERTIES
    ActionsAsAsked
