CONSTANTS
    ServerLengths <- MCLongLengths
    ClientLengths <- MCClientLengths
    Opcodes <- MCOpcodes
SPECIFICATION Spec
INVARIANTS
    DecodedAsSent
