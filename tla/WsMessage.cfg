CONSTANTS
    MaxSent = 5
    MaxChunk = 3
SPECIFICATION Spec
INVARIANTS
    TypeOK
    FailsExactlyOnMalformed
    DeliveredInOrder
    ControlsInOrder
    StallsOnlyAfterPing
CHECK_DEADLOCK FALSE
