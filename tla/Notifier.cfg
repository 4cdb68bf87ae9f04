\* Two events, two attempts each; one change of the settings, two sends of other threads,
\* one restart.
SPECIFICATION FairSpec
CONSTANTS
    Retries = 2
    None = None
    MaxEvents = 2
    MaxSettings = 1
    MaxOthers = 2
    MaxRestarts = 1
INVARIANTS
    TypeOK
    ChatInOrder
PROPERTIES
    EveryEventLeaves
CHECK_DEADLOCK FALSE
