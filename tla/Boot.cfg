SPECIFICATION Spec
CONSTANTS
    Machines <- MCMachines
    Images <- MCImages
    KernelDst = 4
    LowGuess = 3
    E801Max = 10
    Word = 16
    SumMod = 3
    CounterMod = 4
    Retries = 3
    MaxEntries = 3
    KernelPages = 2
    MaxSectors = 6
    ChunkSectors = 2
    Slack = 2
    MaxGrowth = 4
INVARIANTS KernelIsWhole OneErrorIsTold FreeIsRam TargetIsRam
PROPERTIES BootEnds
CHECK_DEADLOCK FALSE
