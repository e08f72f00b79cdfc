SPECIFICATION PreemptedSpec
CONSTANTS
    HeapSize = 30
    Header = 2
    PcbSize = 6
    Requests = {1, 2}
    MaxHeld = 3
CONSTRAINT UntilSplit
INVARIANTS
    HarmNeedsSplit
