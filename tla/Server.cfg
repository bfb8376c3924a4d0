SPECIFICATION Spec
CONSTANTS
    a = a
    b = b
    form = form
    rent = rent
    wage = wage
    c1 = c1
    c2 = c2
    Account = {a, b}
    Amount = {1, 2}
    Submission = {form}
    Template = {rent, wage}
    Client = {c1, c2}
    Form <- MCForm
    Plan <- MCPlan
    Due <- MCDue
    Interval = 2
    Never <- MCNever
    MaxRows = 2
    MaxEvents = 2
    LastSecond = 4
SYMMETRY Symmetry
INVARIANTS
    TypeOK
    OnlyOvertakenSessionsLoseMoney
    RetryCreatesNothing
    PunctualRunsMissNothing
    ScheduledOnce
CHECK_DEADLOCK FALSE
