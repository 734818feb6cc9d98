SPECIFICATION Spec
CONSTANTS
    a1 = a1
    a2 = a2
    w1 = w1
    w2 = w2
    NumRows = 2
    Names = {"prod", "lab"}
    Providers = {"kubernetes"}
    Admins = {a1}
    Workers = {w1}
    MaxRequests = 2
    MaxFlips = 1
    MaxCrashes = 0
CHECK_DEADLOCK FALSE
PROPERTIES
    BadgeShowsCluster
