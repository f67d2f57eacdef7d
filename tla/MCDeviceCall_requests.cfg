SPECIFICATION FairSpec
CONSTANTS
    c1 = c1
    c2 = c2
    thread = thread
    nobody = nobody
    Callers = {c1, c2}
    Thread = thread
    Nobody = nobody
    MaxRequests = 2
INVARIANTS
    NothingLost
    InitializedOnce
PROPERTIES
    Converges
    DestructorReturns
    QuietTeardown
CHECK_DEADLOCK FALSE
