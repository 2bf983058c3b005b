CONSTANTS
    Conns = {c1, c2}
    None = None
    MaxItems = 3
    MaxFrames = 2
SPECIFICATION Spec
INVARIANTS
    TypeOK
    NoFault
    LinkOwned
    WireOrder
    ForwardOrder
    FlushedBeforeFree
    RejectedFreedAtEof
    Consistent
PROPERTIES
    NeverReopens
SYMMETRY Symmetry
CHECK_DEADLOCK FALSE
