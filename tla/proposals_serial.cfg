SPECIFICATION FairSpec
CONSTANTS
    p1 = p1
    p2 = p2
    r1 = r1
    r2 = r2
    r3 = r3
    t1 = t1
    t2 = t2
    c1 = c1
    c2 = c2
    Proposals = {p1, p2}
    Devices = {d1}
    Configs = {c1, c2}
    Ticks = {t1}
    Requests = {r1, r2}
    Target <- OneDecisionEach
    Unresolvable = {p2}
    BatchSize = 2
    SotEdits <- AllEdits
    MaxFaults = 1
INVARIANTS
    TypeOK
PROPERTIES
    PushOnlyWhileApproved
    FinalRowsNeverChange
    
    ImplementsLifecycle
    ReachableIsDrained
