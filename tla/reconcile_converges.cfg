SPECIFICATION FairSpec
CONSTANTS
    Rows = {p1, p2}
    Devices = {d1}
    Configs = {c1, c2}
    Sweepers = {s1}
    EngineFacts = {c1, c2}
    SotEdits <- AllEdits
    MaxEdits = 1
    MaxManuals = 1
    MaxDrifts = 1
INVARIANTS
    TypeOK
    DriftProposalsBounded
PROPERTIES
    
    ProposalShowsTheDevice
