CONSTANTS
    PIDs = {5, 10, 20}
    Tree <- MCTree
    Talkers = {5, 10, 20}
    Mortal = {}
    Boundaries = {}
    UseLookup = TRUE
    SelfPID = 5
    Enabled = {"privilege-escalation", "sensitive-file-access", "process-injection", "reverse-shell"}
    Script <- MCScript
    StatResults <- MCStats
    Loopback = {"lo"}
    IgnoreLoopback = FALSE
    Debuggers = {"gdb"}
    IgnoreSelfProc = FALSE
    ShellWindow = 2
    Depth = 6
    TTL = 3
    TrackEvery = 1
    MaxProcesses = 2
    FoldWindow = 3
    Retain = 2
    MaxKeys = 4
    Window = 1
    Threshold = 2
    SweepEvery = 1
    MaxAncestry = 3
    MaxStorySteps = 3
    MaxLineage = 4
    MaxTime = 3
    Milli = 1
    Skew = 2
    AlertKinds <- MCKinds
    MaxAlerts = 1000
    Stamps = {1, 3}
SPECIFICATION EngineSpec
CHECK_DEADLOCK FALSE
INVARIANTS
    FoldedIsEvidence
    ChainsReachTheLog
    KeysOwnRule
