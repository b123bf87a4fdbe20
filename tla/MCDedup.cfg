CONSTANTS
    Alerts <- MCAlerts
    Window = 2
    Retain = 2
    MaxKeys = 2
    Skew = 1
    MaxTime = 6
    MaxFolds = 2
    Wrap = 100
SPECIFICATION Spec
INVARIANTS
    Bounded
    ExactlyOncePerWindow
    NoFoldIsLost
