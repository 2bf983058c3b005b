CONSTANTS
    Header = 2
    MaxFrame = 4
    MaxMessage = 6
    Sizes <- MCSizes
    MaxSent = 3
SPECIFICATION Spec
INVARIANTS
    TypeOK
    WholeWithinLimits
    CutOnlyAtTheEnd
    StuckOnlyOnLargeFrame
CHECK_DEADLOCK FALSE
