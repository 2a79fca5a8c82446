CONSTANTS
    w = w
    N = 2
    Tries = 2
    MaxSeq = 2
    Worker = w
    Readers <- OneReader
    Surfaces <- TwoSurfaces
    InputCap = 1
    RingSize = 2
    MaxInput = 2
    MaxEdits = 2
SPECIFICATION FairGfxSpec
INVARIANTS
    GfxTypeOK
    StableWhileRead
    ShownNotDrawn
    NoInputLost
    AppliedOnceInOrder
PROPERTIES
    NeverOlder
    ForcedIsPublished
CHECK_DEADLOCK FALSE
