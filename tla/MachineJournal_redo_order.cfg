SPECIFICATION Spec
CONSTANTS
    Client = {c1}
    Row = {r1, r2}
    Value = {v1, v2}
    NoClient = NoClient
    Browser = FALSE
    Failures = FALSE
    MaxPreviews = 3
PROPERTIES
    RedoReappliesOpenEntries
SYMMETRY Alike
