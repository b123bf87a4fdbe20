CONSTANTS
    PIDs = {p1, p2, p3, p4}
    Calls <- MCCalls
    Depth = 2
    TTL = 2
    SweepEvery = 2
    MaxProcesses = 3
    Window = 2
    Skew = 1
    MaxTime = 7
    Wrap = 100
SPECIFICATION Spec
SYMMETRY Symmetry
INVARIANTS
    Bounded
    NoStaleHistory
    OrderedUpToSkew
    WindowFaithful
