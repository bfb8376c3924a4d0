SPECIFICATION Spec
CONSTANTS
    a1 = a1
    a2 = a2
    a3 = a3
    Account = {a1, a2}
    NoAccount = NoAccount
    Currency <- OneCurrency
    Tag = {}
    RowId <- FourRows
    Amount = {1}
    Second = {1}
    Slots = 3
    MaxBalance = 2
    MaxAmount = 4
    Hideable = {a1, a2}
INVARIANTS
    TransferHalvesShareSecond
SYMMETRY AnyAccounts
