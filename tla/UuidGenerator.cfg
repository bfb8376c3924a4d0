SPECIFICATION Spec
CONSTANTS
    Caller = {c1, c2, c3}
    Type = {transaction}
    SeqIds = 3
    SeqSpan = 5
    MaxCount = 2
    LastSecond = 2
INVARIANTS
    TypeOK
    CounterCoversIds
PROPERTIES
    HandsOutGrowingIds
SYMMETRY AnyCaller
