SPECIFICATION Spec
CONSTANTS
    Calls = {w1, w2, g1}
    Writes = {w1, w2}
    Requests = {q1, q2}
    OneTab = TRUE
    PassCap = 2
    MaxRetries = 1
    MaxClicks = 3
    MaxCrashes = 1
SYMMETRY Twins
CHECK_DEADLOCK FALSE
INVARIANTS
    TypeOK
    NothingRunsUnapproved
    LedgerMatchesCluster
    LedgerMatchesTranscript

PROPERTIES
    ImplementsLifecycle
