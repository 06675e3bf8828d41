SPECIFICATION Spec
CONSTANTS
    None = None
    e1 = e1 e2 = e2 e3 = e3
    g1 = g1 g2 = g2
    NLayer = 2
    Attn = {1}
    MaxT = 2
    Promote = 1
    Budget = 3
    Chunk = 2
    Settings <- MCSettings
SYMMETRY Perms
INVARIANTS
    ContributesOnce
    GraphFits
    RoutingRead
    StashExact
