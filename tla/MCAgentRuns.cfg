\* Two runs of two turns at most, a cap of four messages, retries, compaction.
SPECIFICATION Spec
CONSTANTS
    MaxTurns = 2
    MaxMessages = 4
    CapFloor = 4
    MaxRetries = 2
    CompactOn = TRUE
    CompactMin = 3
    MaxCalls = 1
    MaxAsst = 4
    MaxSteer = 1
    MaxFollow = 0
    MaxRuns = 2
CHECK_DEADLOCK FALSE
INVARIANTS
    CompactionWithinRun
PROPERTIES
    CapKeepsEnds
    RunEnds
