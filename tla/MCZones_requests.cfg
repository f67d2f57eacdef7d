SPECIFICATION Spec
CONSTANTS
    red = red
    black = black
    junk = junk
    leds_min <- MinSizes
    leds_max <- MaxSizes
    Drivers = {"setup", "count", "fixed"}
    EffectsOnly = {2}
    Addressable = 1
    LastResizable = 2
    Reported <- FromDevice
    Colors = {red}
    Black = black
    Junk = junk
    MaxSent = 2
INVARIANTS
    Divided
    ShowsSent
PROPERTIES
    StaysInPart
    ForceKeepsOthers
    RejectedKeepsColors
CHECK_DEADLOCK FALSE
