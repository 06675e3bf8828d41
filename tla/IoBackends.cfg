SPECIFICATION BackendSpec
CONSTANTS
    Req = {r1, r2, b1}
    RingReq = {r1, r2, r3, b1}
    NoReq = NoReq
    Bad = {b1}
    Worker = {w1, w2}
    MaxTags = {1, 8}
    MinComplete = {0, 1, 2}
    QueueDepth = 2
INVARIANTS
    InFlightExact
    OneCompletionEach
    NoReadAfterShutdown
    SleeperHasWaker
    RingOneCompletionEach
    RingStuckOnRemainder
PROPERTIES
    ShortReapMeansDrained
    ReapReturns
    ShutdownEnds
