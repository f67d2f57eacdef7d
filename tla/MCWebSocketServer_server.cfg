SPECIFICATION FairSpec
CONSTANTS
    c1 = c1
    c2 = c2
    u1 = u1
    nothread = nothread
    Clients = {c1, c2}
    Users = {u1}
    NoThread = nothread
INVARIANTS
    RecordsOwned
    StoppedClean
    OneWorker
PROPERTIES
    StopReturns
CHECK_DEADLOCK FALSE
