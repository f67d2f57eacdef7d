SPECIFICATION Spec
CONSTANTS
    d1 = d1
    d2 = d2
    t1 = t1
    u1 = u1
    dflt = dflt
    bg = bg
    nobody = nobody
    Devices = {d1, d2}
    Requesters = {t1}
    Readers = {u1}
    LockedReaders = {u1}
    Values = {dflt}
    DefaultValue = dflt
    BG = bg
    NoThread = nobody
    DetectChoices = {TRUE}
    AutoConnect = FALSE
    AllControllers = FALSE
    RequestsDuringInit = FALSE
    HotplugWhen = {}
    StopAllowed = FALSE
    DetectorsThrow = FALSE
    MaxRequests = 1
SYMMETRY Symmetry
INVARIANTS
    LockedReaderUndisturbed
