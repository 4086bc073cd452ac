CONSTANTS
    c1 = c1
    c2 = c2
    c3 = c3
    Procs = {c1, c2, c3}
    Nobody = Nobody
    MaxKills = 1
SPECIFICATION LockSpec
INVARIANT
    LockNeverStolen
CHECK_DEADLOCK FALSE
