SPECIFICATION Spec

CONSTANTS
    WordMod = 32
    NullBlock = NullBlock
    b1 = b1
    b2 = b2
    b3 = b3
    b4 = b4
    b5 = b5
    Blocks <- MCBlocks
    MaxAllocations = 9
    Sizes <- MCSizes
    Alignment = 8
    MaxQueuedDeliveries = 2
    RecreateWhileDying = TRUE

SYMMETRY BlockSymmetry

INVARIANT
    DestroyedLeavesNothing
