CONSTANTS
    MaxTokens = 6
    MaxDepth = 3
    MaxNamesakes = 1
    Block = 3
    Capacity = 5
SPECIFICATION Spec
INVARIANTS
    TypeOK
    ForwardedExactly
    AllForwarded
    BufferAligned
CHECK_DEADLOCK FALSE
