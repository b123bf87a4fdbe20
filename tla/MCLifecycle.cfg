CONSTANTS
    Fails = {"jsonl", "debug", "collector", "capture", "read", "log", "paint"}
    MaxAlerts = 2
SPECIFICATION Spec
CHECK_DEADLOCK FALSE
INVARIANTS
    SummarySurvives
    FinalFrameComplete
    LeavesNothingBehind
PROPERTIES
    SignalReturns
