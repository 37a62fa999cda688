SPECIFICATION Spec

CONSTANTS
    WordMod = 32
    PointerSize = 2
    Sizes = {0, 3, 7, 30}
    Alignments = {0, 1, 3, 8, 16}

INVARIANTS
    HeadersIntact

PROPERTIES
    ImplementsHeap
