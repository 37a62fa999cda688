SPECIFICATION FairConsoleSpec

CONSTANTS
    BufferSize = 5
    MaxLength = 6

INVARIANTS
    ShowsTheText

PROPERTIES
    WriteReturns
