SPECIFICATION TableSpec

CONSTANTS
    Builds <- RealBuilds

INVARIANTS
    TablesAreRight

CHECK_DEADLOCK FALSE
