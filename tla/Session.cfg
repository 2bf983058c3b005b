CONSTANTS
    Conns = {c1}
    None = None
    MaxItems = 3
    MaxFrames = 2
    MaxSent = 3
    MaxChunk = 3
    MaxEarly = 1
SPECIFICATION SessionSpec
INVARIANTS
    InStep
    CloseOvertakesExactly
PROPERTIES
    KeepsPromise
    ArrivedIsHandled
    ServerLossFrees
    ClosingCompletes
    LoopEnds
CHECK_DEADLOCK FALSE
