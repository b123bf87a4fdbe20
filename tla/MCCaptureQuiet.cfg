CONSTANTS
    Unknown = {}
    MaxRecords = 3
    MaxRuns = 2
    MaxTears = 1
SPECIFICATION Spec
CHECK_DEADLOCK FALSE
INVARIANTS
    DropsNothingQuietly
