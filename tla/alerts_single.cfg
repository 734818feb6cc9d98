SPECIFICATION WatchedSpec
CONSTANTS
    Fingerprints = {f1}
    Rows = {a1, a2}
    Events = {e1, e2}
    Replicas = {r1}
    Bystanders = {}
    BatchSize = 2
    AckFrom <- LateAcks
    Faults <- AllFaults
    MaxFaults = 1
    MaxChanges = 2
    MaxClicks = 2
    MaxCount = 2
INVARIANTS
    TypeOK
    ActiveAlertsBounded
    CountMatchesOccurrences
PROPERTIES
    AlertsFollowSignals
