SPECIFICATION Spec
CONSTANTS
    None = None
    l1 = l1
    e1 = e1 e2 = e2 e3 = e3 e4 = e4
    s1 = s1 s2 = s2 s3 = s3
    g1 = g1
    Layer = {l1}
    Expert = {e1, e2, e3, e4}
    Slot = {s1, s2, s3}
    GSlot = {g1}
    Ring = {}
    Exclusive = TRUE
    HasCold = FALSE
    SkipMiss = FALSE
    Lendable = {l1}
    Prompting = {"warm", "batch", "restore"}
    MaxFetch = 2
    MaxPromote = 1
    MaxSpec = 0
    MaxFail = 1
SYMMETRY Perms
INVARIANTS
    ResidentBytes
    UseBytes
    TiersExclusive
