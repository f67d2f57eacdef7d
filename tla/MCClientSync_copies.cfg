SPECIFICATION FairSpec
CONSTANTS
    d1 = d1
    d2 = d2
    nodev = nodev
    Devices = {d1, d2}
    NoDevice = nodev
    InitialLists <- OneList
    MaxChanges = 2
    MaxConns = 2
    Races = FALSE
INVARIANTS
    StoppedClean
PROPERTIES
    Converges
    StopReturns
CHECK_DEADLOCK FALSE
