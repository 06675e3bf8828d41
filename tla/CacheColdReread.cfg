SPECIFICATION FairSpec
CONSTANTS
    None = None
    l1 = l1
    e1 = e1 e2 = e2 e3 = e3
    s1 = s1 s2 = s2
    g1 = g1
    Layer = {l1}
    Expert = {e1, e2, e3}
    Slot = {s1, s2}
    GSlot = {g1}
    Ring = {}
    Exclusive = FALSE
    HasCold = TRUE
    SkipMiss = FALSE
    Lendable = {}
    Prompting = {}
    MaxFetch = 2
    MaxPromote = 1
    MaxSpec = 1
    MaxFail = 2
INVARIANTS
    ServedBytes
CHECK_DEADLOCK FALSE
