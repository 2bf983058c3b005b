CONSTANTS
    NULL = NULL
    Spelling <- MCSpelling
    Files <- MCFiles
    RequestLines <- MCRequestLines
    Usual <- MCUsual
    Unusual <- MCUnusual
    MaxUnusual = 2
    Capacity <- MCCapacity
SPECIFICATION Spec
INVARIANTS
    TypeOK
    ConfAsWritten
    AcceptedOnlyValid
    RefusedForDefect
    AnsweredUnlessBroken
    EchoesUpgrade
CHECK_DEADLOCK FALSE
