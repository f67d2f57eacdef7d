SPECIFICATION FairSpec
CONSTANTS
    d1 = d1
    t1 = t1
    t2 = t2
    u1 = u1
    dflt = dflt
    bg = bg
    nobody = nobody
    Devices = {d1}
    Requesters = {t1, t2}
    Readers = {u1}
    LockedReaders = {u1}
    Values = {dflt}
    DefaultValue = dflt
    BG = bg
    NoThread = nobody
    DetectChoices = {TRUE, FALSE}
    AutoConnect = TRUE
    AllControllers = FALSE
    RequestsDuringInit = TRUE
    HotplugWhen <- BgLabels
    StopAllowed = TRUE
    DetectorsThrow = FALSE
    MaxRequests = 2
INVARIANTS
    FreedUnreachable
    NoLostWakeup
    Settled
PROPERTIES
    InitFinishes
    RequestAnswered
