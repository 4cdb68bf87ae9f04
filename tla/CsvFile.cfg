\* Two threads that save one file; with the mutex held throughout, and without.
SPECIFICATION Spec
CONSTANTS
    Thread = {t1, t2}
    NoFile = NoFile
    Nobody = Nobody
    MaxVersion = 3
    MaxSaves = 4
    MaxFaults = 1
    MaxCrashes = 2
INVARIANTS
    TypeOK
    LockedFileStays
PROPERTIES
    FileKeepsPromise
CHECK_DEADLOCK FALSE
