CONSTANTS
    Streams <- MCStreams
    Rules <- MCRules
    ProcWidth <- MCProcWidth
    MinSeverity = 1
    Heights = {16, 24, 29}
    Widths = {60, 200}
    MinUsableHeight = 24
    recentCap = 5
    maxRecentRows = 4
    minRecentRows = 3
    maxStoryRows = 4
    minStoryRows = 2
    maxProcRows = 2
SPECIFICATION Spec
CHECK_DEADLOCK FALSE
INVARIANTS
    FrameIsSnapshot
    FitsByGivingUpLeast
    FinalFrameCurrent
PROPERTIES
    RenderEnds
