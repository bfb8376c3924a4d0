SPECIFICATION Spec
CONSTANTS
    k1 = k1
    k2 = k2
    k3 = k3
    k4 = k4
    k5 = k5
    k6 = k6
    Key <- MCKey
    DayOf <- MCDayOf
    MonthOf <- MCMonthOf
    Statement <- MCStatement
    Preference <- MCPreference
    MaxTies = 2
    Days = {1}
    Folders <- MCFolders
    MaxCalls = 2
    Typed = {k1}
    MaxEvents = 2
    MaxTxns = 3
    MaxEntries = 2
INVARIANTS
    TypeOK
    NoLineMultiplied
    OnlyThirdCopiesAreLost
    OneRowPerLine
    UndoneRunsLeaveNothing
PROPERTIES
    ImplementsRegister
    EveryCallEnds
CHECK_DEADLOCK FALSE
