SPECIFICATION FairSpec
CONSTANTS
    c1 = c1
    c2 = c2
    noclient = noclient
    Clients = {c1, c2}
    WindowsClients = {c1}
    NoClient = noclient
    NumSockets = 1
    MaxStarts = 2
INVARIANTS
    RecordsSound
    ListeningEnds
PROPERTIES
    GoesOffline
CHECK_DEADLOCK FALSE
