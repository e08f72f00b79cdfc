SPECIFICATION Spec
CONSTANTS
    LastCluster = 7
    EntriesPerSector = 4
    SlotsPerSector = 3
    Names = {"a", "b"}
    LongNames = {"long"}
    Cut <- CutToA
    Versions = {"v"}
    MaxBlocks = 2
    MaxCalls = 3
    Volumes <- SmallVolumes
    MaxCrashes = 1
INVARIANTS
    ChainsApart
    CacheHidesOnlyFrees
    SavedIsRead
    NamesUnique
    PromptNamesCwd
PROPERTIES
    BackIsUp
    CommandsEnd
CHECK_DEADLOCK FALSE
