SPECIFICATION Spec
CONSTANTS
    Request = {a, b, c}
    None = None
    Text = {p, q}
    ReplyText = {x}
    Image = {i}
    NoImage = NoImage
    NoText = NoText
    NBatch = 2
    PoolBudget = 20
    PoolMin = 2
    PoolBoundary = 2
    MaxMsgs = 3
    Scenes <- ParkedScene
SYMMETRY Perms
CHECK_DEADLOCK FALSE
INVARIANTS
    ContextIsRequest
