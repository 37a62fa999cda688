SPECIFICATION FairSpec

CONSTANTS
    Null = Null
    alice = alice
    bob = bob
    onMove = onMove
    onQuit = onQuit
    WordMod = 16
    MaxEventTypes = 2
    MaxListenersPerType = 2
    MaxQueuedDeliveries = 3
    EventArenaSize = 4
    Bytes = {1, 2}
    Buffers = {8}
    RefusedArguments = FALSE
    Descriptors <- MCDescriptors
    Events <- MCEvents

PROPERTIES
    ProcessTerminates
    DestroyCompletes
