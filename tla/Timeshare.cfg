SPECIFICATION Spec
CONSTANTS
    a = a
    b = b
    c = c
    s = s
    t = t
    Request = {a, b, c}
    None = None
    SessionOf <- MCSessionOf
    MaxOpen = 3
    Quantum = 2
    Linger = 1
    MaxUsage = 5
    MayRefuse = TRUE
    ShortTurns = TRUE
INVARIANTS
    SlotsExact
    TurnIsAwake
PROPERTIES
    ParkHandsOver
