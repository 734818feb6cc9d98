SPECIFICATION FairSpec
CONSTANTS
    Tenants = {t1, t2}
    SoundTenants = {t1}
    Clusters = {hub, edge}
    Hub = hub
    LateRetargets = FALSE
INVARIANTS
    TypeOK
PROPERTIES
    ImplementsLifecycle
    DeleteIsDone
    Settles
    Heals
