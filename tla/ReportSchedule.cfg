\* Two days, each with a time before and a time after the schedule's; one schedule saved,
\* the configuration of the start imported, one restart.
SPECIFICATION FairSpec
CONSTANTS
    Time = {1}
    InitTime = 1
    Weekday = 1
    Retries = 2
    Messages = 1
    None = None
    MaxDay = 2
    MaxSaves = 1
    MaxImports = 1
    MaxRestarts = 1
INVARIANTS
    TypeOK
PROPERTIES
    OncePerRange
    DueIsAttempted
