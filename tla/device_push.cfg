SPECIFICATION Spec
CONSTANTS
    p1 = p1
    p2 = p2
    p3 = p3
    Pushes = {p1, p2, p3}
    NumItems = 3
    NumFiles = 2
    Fresh = {1}
    Touches <- MCTouches
    Overlapping = {"junos", "iosxr", "eos", "redfish", "config_manager", "tinkerbell"}
CHECK_DEADLOCK FALSE
INVARIANTS
    TypeOK
    NoSilentSurvivor
PROPERTIES
    DurableSuccess
    
    
