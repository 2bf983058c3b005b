CONSTANTS
    NULL = NULL
    Spelling <- MCSpelling
    Files <- MCFiles
    RequestLines <- MCRequestLines
    Usual <- MCUsual
    Unusual <- MCUnusual
    MaxUnusual = 2
    Capacity <- MCCapacity
SPECIFICATION Spec
INVARIANTS
    AcceptedIsValid
CHECK_DEADLOCK FALSE
