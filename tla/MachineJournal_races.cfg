SPECIFICATION Spec
CONSTANTS
    Client = {c1, c2}
    Row = {r1, r2}
    Value = {v1, v2}
    NoClient = NoClient
    Browser = FALSE
    Failures = TRUE
    MaxPreviews = 2
INVARIANTS
    TypeOK
    TokenBuysOneWrite
    JournaledAsShown
    MarkFindsItsEntry
SYMMETRY Alike
