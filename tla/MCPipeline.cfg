CONSTANTS
    tracepoints <- MCtracepoints
    optionalTracepoints = {"sys_enter_dup2"}
    CPUs = {c1, c2}
    RingSize = 2
    QueueDepth = 1
    Malformed = {2}
    MayFail = TRUE
    MaxEvents = 4
SPECIFICATION Spec
CHECK_DEADLOCK FALSE
INVARIANTS
    CountersAddUp
    DrainedBeforeSummary
    NoFeedback
    ProbesAsClaimed
    PanicsOnlyAfterReadError
PROPERTIES
    ImplementsChannel
    ShutdownCompletes
    RingDrains
