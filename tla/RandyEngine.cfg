SPECIFICATION Spec

CONSTANTS
    Builds <- BothBuilds

INVARIANTS
    NeverZero

PROPERTIES
    JumpsAreDraws
