SPECIFICATION Spec

CONSTANTS
    WordMod = 8
    MemorySize = 5
    Characters = {a, b}
    NUL = NUL

PROPERTIES
    WritesTheString
    ReportsTruly
