SPECIFICATION Spec
CONSTANTS
    Client = {c1}
    Row = {r1, r2}
    Value = {v1, v2, v3}
    NoClient = NoClient
    Browser = TRUE
    Failures = FALSE
    MaxPreviews = 2
PROPERTIES
    UndoOverwritesItsWriteOnly
SYMMETRY Alike
