SPECIFICATION Spec

CONSTANTS
    WordMod = 16
    NullBlock = NullBlock
    b1 = b1
    b2 = b2
    v1 = v1
    Zero = Zero
    Blocks <- MCBlocks
    MaxAllocations = 4
    Values = {v1}
    ElementSizes = {0, 2, 3}
    Alignments = {0, 1, 2, 3}
    Capacities = {0, 3, 7, 8}

INVARIANTS
    TypeOK
    OwnsItsBuffer
    FreesWhatItAllocated
    CounterIsExact
    ElementsReadable

PROPERTIES
    KeepsContents
    CallsWithLiveElement
    MovesOnlyWhenFull
