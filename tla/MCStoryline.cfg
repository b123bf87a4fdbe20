CONSTANTS
    PIDs = {3, 10, 11, 20, 40}
    Tree <- TwoLogins
    Talkers = {10, 11, 20, 40}
    Mortal = {40}
    Boundaries = {3}
    UseLookup = TRUE
    AlertKinds <- TwoKinds
    Threshold = 2
    Window = 2
    SweepEvery = 2
    MaxAncestry = 2
    MaxStorySteps = 2
    MaxLineage = 2
    MaxTime = 4
    Stamps = {1, 3, 4}
    Milli = 2
    Skew = 2
    MaxAlerts = 3
SPECIFICATION Spec
CHECK_DEADLOCK FALSE
INVARIANTS
    Bounded
    MembershipExact
    StoriesAddUp
    ReportsEachTacticOnce
    TimelineTells
    SessionsApart
