CONSTANTS
    w = w
    N = 2
    Tries = 2
    MaxSeq = 2
    Worker = w
    Readers <- OneReader
    Surfaces <- TwoSurfaces
    InputCap = 1
    RingSize = 4
    MaxInput = 1
    MaxEdits = 2
SPECIFICATION EchoSpec
PROPERTY KeepsOwnWrites
CHECK_DEADLOCK FALSE
