SPECIFICATION Spec
CONSTANTS
    m1 = m1
    m2 = m2
    Msg = {m1, m2}
    MonthOf <- MCMonthOf
    LastMonth = 3
    MaxFaults = 2
INVARIANTS
    RecallIsWhole
