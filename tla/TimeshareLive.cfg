SPECIFICATION LiveSpec
CONSTANTS
    a = a
    b = b
    c = c
    s = s
    t = t
    Request = {a, b, c}
    None = None
    SessionOf <- MCSessionOf
    MaxOpen = 2
    Quantum = 2
    Linger = 1
    MaxUsage = 5
    MayRefuse = FALSE
    ShortTurns = FALSE
PROPERTIES
    EveryWaiterRuns
