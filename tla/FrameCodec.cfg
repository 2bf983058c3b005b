CONSTANTS
    ServerLengths <- MCServerLengths
    ClientLengths <- MCClientLengths
    Opcodes <- MCOpcodes
SPECIFICATION Spec
INVARIANTS
    TypeOK
    DecodedAsSent
    CompleteIsReady
