SPECIFICATION Spec
CONSTANTS
    d1 = d1
    d2 = d2
    nodev = nodev
    Devices = {d1, d2}
    NoDevice = nodev
    InitialLists <- OneList
    MaxChanges = 1
    MaxConns = 2
    Races = TRUE
INVARIANTS
    NoDangling
CHECK_DEADLOCK FALSE
