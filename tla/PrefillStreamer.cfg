SPECIFICATION FairSpec
CONSTANTS
    NLayer = 4
    Expert = {f, r, v}
    RamMay = {r}
    VramMay = {v}
    Modes <- AllModes
    None = None
CHECK_DEADLOCK FALSE
INVARIANTS
    ComputesOnLayer
    WarmsFromLayer
    ReaderApart
PROPERTIES
    LoadReturns
