SPECIFICATION TurnsSpec
CONSTANTS
    NProc = 4
    Priority <- FourPriorities
    Shell = 0
    Reaper = 3
    Yielders = {2}
    Safety = 100
    SleepTicks = 1
INVARIANTS
    RingInOrder
    RunsOnlyLinked
    WaitIsBounded
PROPERTIES
    TaskkillReaches
    FreedUntouched
    IsLifecycle
    WalkEnds
    ZombieReaped
