SPECIFICATION Spec
CONSTANTS
    Client = {c1}
    Row = {r1, r2}
    Value = {v1, v2}
    NoClient = NoClient
    Browser = TRUE
    Failures = FALSE
    MaxPreviews = 2
INVARIANTS
    ActiveEntriesChain
SYMMETRY Alike
