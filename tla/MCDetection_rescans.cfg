SPECIFICATION Spec
CONSTANTS
    d1 = d1
    d2 = d2
    t1 = t1
    u1 = u1
    dflt = dflt
    v1 = v1
    bg = bg
    nobody = nobody
    Devices = {d1, d2}
    Requesters = {t1}
    Readers = {u1}
    LockedReaders = {u1}
    Values = {dflt, v1}
    DefaultValue = dflt
    BG = bg
    NoThread = nobody
    DetectChoices = {TRUE}
    AutoConnect = FALSE
    AllControllers = FALSE
    RequestsDuringInit = FALSE
    HotplugWhen = {"waiting"}
    StopAllowed = TRUE
    DetectorsThrow = TRUE
    MaxRequests = 2
SYMMETRY Symmetry
INVARIANTS
    OneControllerPerDevice
    NothingLeaked
    ScanFindsDevices
    LockedReaderSafe
    ChangeVerdict
    

