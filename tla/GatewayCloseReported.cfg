CONSTANTS
    Conns = {c1}
    None = None
    MaxItems = 4
    MaxFrames = 4
SPECIFICATION Spec
PROPERTIES
    CloseReported
CHECK_DEADLOCK FALSE
