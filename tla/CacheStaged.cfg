SPECIFICATION Spec
CONSTANTS
    None = None
    l1 = l1 l2 = l2
    e1 = e1 e2 = e2 e3 = e3
    s1 = s1 s2 = s2
    g1 = g1
    r1 = r1
    Layer = {l1, l2}
    Expert = {e1, e2, e3}
    Slot = {s1, s2}
    GSlot = {g1}
    Ring = {r1}
    Exclusive = TRUE
    HasCold = FALSE
    SkipMiss = TRUE
    Lendable = {}
    Prompting = {"restore"}
    MaxFetch = 1
    MaxPromote = 1
    MaxSpec = 1
    MaxFail = 1
SYMMETRY Perms
INVARIANTS
    NoAliasedRead
    SwapProtected
    RingConserved
