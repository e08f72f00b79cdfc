SPECIFICATION FairSpec
CONSTANTS
    HeapSize = 12
    Header = 2
    Requests = {1, 2, 4}
INVARIANTS
    HeapTiled
    UsedIsHeld
PROPERTIES
    NullOnlyIfNothingFits
    CallsReturn
    IsAllocator
