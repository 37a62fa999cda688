SPECIFICATION Spec

CONSTANTS
    WordMod = 16
    Buffers = {4, 9, 11}
    Capacities = {0, 5, 7}
    Sizes = {0, 1, 2, 3, 6, 15}
    Alignments = {0, 1, 2, 3, 4, 8}

INVARIANTS
    TypeOK
    BlocksSound
    AllocIsExact
    EmptyIsEmpty

PROPERTIES
    ImplementsHeap
