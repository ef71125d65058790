SPECIFICATION Spec
CONSTANTS
    b1 = b1
    b2 = b2
    Msg = {m1, m2}
    Bot = {b1, b2}
    Dest <- MCDest
    Roster <- MCRoster
    Tick = {t1, t2}
    NoId = NoId
    MaxFaults = 2
INVARIANTS
    OneWake
