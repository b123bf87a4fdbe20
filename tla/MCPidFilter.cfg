CONSTANTS
    PIDs = {1, 2, 3, 4, 5}
    Root = 2
    Tree <- Server
    MaxEvents = 2
SPECIFICATION Spec
CHECK_DEADLOCK FALSE
INVARIANTS
    ScopeSound
    SeedComplete
