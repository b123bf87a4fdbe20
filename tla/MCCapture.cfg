CONSTANTS
    Unknown = {3}
    MaxRecords = 5
    MaxRuns = 3
    MaxTears = 3
SPECIFICATION Spec
CHECK_DEADLOCK FALSE
INVARIANTS
    OneRunReadsBack
    ReplayFaithful
    TearCostsOne
    StoppedRunsSurvive
