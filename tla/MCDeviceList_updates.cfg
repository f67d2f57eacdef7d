SPECIFICATION Spec
CONSTANTS
    c1 = c1
    c2 = c2
    c3 = c3
    r1 = r1
    Remote = {r1}
    Controllers = {c1, c2, c3}
SYMMETRY Symmetry
CHECK_DEADLOCK FALSE
INVARIANTS
    SoundMidRebuild
    DeltasComplete
    RacesHeal
    GoneIsGone
    LostSlots
PROPERTIES
    ShowsHardware
