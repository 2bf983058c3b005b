CONSTANTS
    MaxSent = 2
    MaxChunk = 2
SPECIFICATION Spec
INVARIANTS
    WellFormedNeverFails
CHECK_DEADLOCK FALSE
