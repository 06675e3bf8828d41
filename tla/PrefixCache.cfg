SPECIFICATION Spec
CONSTANTS
    Request = {a, b, c, d}
    None = None
    Text = {p}
    ReplyText = {x, y}
    Image = {i, j}
    NoImage = NoImage
    NoText = NoText
    NBatch = 2
    PoolBudget = 10
    PoolMin = 2
    PoolBoundary = 2
    MaxMsgs = 3
    Scenes <- AllScenes
SYMMETRY Perms
CHECK_DEADLOCK FALSE
INVARIANTS
    EngineIsConsumed
    PoolExact
    ContextIsRequest
    RepliesFiled
    WithinBudget
