SPECIFICATION FairSpec
CONSTANTS
    Node = {1, 2}
    MaxAddr = 2
    Locals <- MCLocals
    Selections <- MCSelections
    AddressLists <- MCAddressLists
    Searches <- MCSearches
    Planted <- MCPlanted
    PlantedRecords <- MCPlantedRecords
    Length = 2
    Overlap = 1
    Size = 7
    MaxReadJobs = 1
    MaxSearchJobs = 1
    ReadBatch = 3
    SearchBatch = 1
    MaxResults = 2
    None = None
    MaxReads = 2
    MaxSearches = 1
INVARIANTS TypeOK ReadBackExact
PROPERTY EveryReadEnds
