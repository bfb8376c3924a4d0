SPECIFICATION Spec
CONSTANTS
    a1 = a1
    a2 = a2
    a3 = a3
    Account = {a1, a2, a3}
    NoAccount = NoAccount
    Currency <- ForeignThird
    Tag = {}
    RowId <- ThreeRows
    Amount <- SignedAmounts
    Second = {1}
    Slots = 3
    MaxBalance = 1
    MaxAmount = 4
    Hideable = {}
INVARIANTS
    BalanceIsSumOfRows
    OpeningBalanceIsItsAmount
    RowsNameOpenAccounts
    TransferHalvesMirror
SYMMETRY SameCurrency
