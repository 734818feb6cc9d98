SPECIFICATION Spec
CONSTANTS
    p1 = p1
    p2 = p2
    r1 = r1
    r2 = r2
    r3 = r3
    t1 = t1
    t2 = t2
    c1 = c1
    c2 = c2
    Proposals = {p1, p2}
    Devices = {d1}
    Configs = {c1, c2}
    Ticks = {t1, t2}
    Requests = {r1, r2, r3}
    Target <- ThreeDecisions
    Unresolvable = {}
    BatchSize = 1
    SotEdits = {c1, c2}
    MaxFaults = 1
SYMMETRY RaceSymmetry
INVARIANTS
    OneExecutorPerRow
    OutcomesAreBacked
    OnlyApprovedConfigRuns
    PushesBounded
