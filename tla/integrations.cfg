SPECIFICATION Spec
CONSTANTS
    a1 = a1
    a2 = a2
    w1 = w1
    w2 = w2
    NumRows = 3
    Names = {}
    Providers = {"kubernetes", "tinkerbell"}
    Admins = {a1, a2}
    Workers = {w1, w2}
    MaxRequests = 3
    MaxFlips = 1
    MaxCrashes = 1
CHECK_DEADLOCK FALSE
INVARIANTS
    TypeOK
    DuplicatesAreRaces
PROPERTIES
    BadgeShowsProbe
