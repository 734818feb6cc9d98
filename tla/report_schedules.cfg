SPECIFICATION Spec
CONSTANTS
    r1 = r1
    r2 = r2
    w1 = w1
    w2 = w2
    Rows = {r1, r2}
    First = {r1}
    Workers = {w1, w2}
    Crons = {{0, 1, 2}, {0, 2}}
    Horizon = 1
    MaxTime = 1
    MaxEdits = 2
    MaxFaults = 1
CHECK_DEADLOCK FALSE
INVARIANTS
    TypeOK
    DeliveredOnce
    StraysAreRaces
PROPERTIES
    DueIsFired
