CONSTANTS
    PIDs = {p1}
    Calls <- MCCalls
    Depth = 7
    TTL = 4
    SweepEvery = 2
    MaxProcesses = 2
    Window = 1
    Skew = 0
    MaxTime = 3
    Wrap = 100
    Stamps = {1, 3}
    Loopback = {"lo"}
    FDs = {0, 1, 3}
    Dests = {"remote"}
    IgnoreLoopback = FALSE
    MaxSockets = 1
    MaxCalls = 8
    MaxLives = 2
SPECIFICATION ChainSpec
CHECK_DEADLOCK FALSE
INVARIANTS
    FirstUserSound
    NoMissedShell
