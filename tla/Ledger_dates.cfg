SPECIFICATION Spec
CONSTANTS
    a1 = a1
    a2 = a2
    a3 = a3
    Account = {a1, a2}
    NoAccount = NoAccount
    Currency <- OneCurrency
    Tag = {t}
    RowId <- ThreeRows
    Amount = {1}
    Second = {1, 2}
    Slots = 3
    MaxBalance = 2
    MaxAmount = 4
    Hideable = {}
INVARIANTS
    UniqueTimes
    SentBeforeReceived
    OpeningBalanceFirst
    TagIndexFollowsRow
PROPERTIES
    DeletedRowsStay
SYMMETRY AnyAccounts
