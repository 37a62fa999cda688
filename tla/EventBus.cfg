SPECIFICATION Spec

CONSTANTS
    Null = Null
    alice = alice
    bob = bob
    onMove = onMove
    onQuit = onQuit
    WordMod = 16
    MaxEventTypes = 2
    MaxListenersPerType = 2
    MaxQueuedDeliveries = 3
    EventArenaSize = 4
    Bytes = {1, 2}
    Buffers = {8, 9}
    RefusedArguments = TRUE
    Descriptors <- MCDescriptors
    Events <- MCEvents

INVARIANTS
    TypeOK
    PayloadsInBounds
    PayloadsDisjoint
    NoLostArenaSpace
    ImplOutlivesCalls
    QueueNeverReallocates
    NoDuplicateListeners

PROPERTIES
    ImplementsDelivery
