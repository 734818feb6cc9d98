SPECIFICATION Spec
CONSTANTS
    p1 = p1
    p2 = p2
    p3 = p3
    Pushes = {p1, p2, p3}
    NumItems = 3
    NumFiles = 2
    Fresh = {1}
    Touches <- MCTouches
    Overlapping = {}
CHECK_DEADLOCK FALSE
PROPERTIES
    ReprovisionRuns
