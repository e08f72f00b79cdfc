SPECIFICATION Spec
CONSTANTS
    LastCluster = 7
    EntriesPerSector = 4
    SlotsPerSector = 3
    Names = {"a", "b"}
    LongNames = {"long"}
    Cut <- CutToA
    Versions = {"v"}
    MaxBlocks = 2
    MaxCalls = 4
    Volumes <- SmallVolumes
    MaxCrashes = 0
PROPERTIES
    BackIsOneUp
CHECK_DEADLOCK FALSE
