SPECIFICATION Spec
CONSTANTS
    PageSize = 4
    Maps <- SmallMaps
    KernelBase = 24
    KernelSize = 6
    KernelEnd = 31
    HeapSize = 4
INVARIANTS
    FreeCountIsBitmap
    OnlyRamIsFree
    HeldIsUsed
    ReservedStays
