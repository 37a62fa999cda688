SPECIFICATION Spec

CONSTANTS
    DrawMod = 16
    LimbMod = 4
    Types <- MCTypes

INVARIANTS
    ReturnsInRange
    IsUnbiased
    LimbsAreExact
