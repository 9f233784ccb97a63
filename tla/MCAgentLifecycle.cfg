\* Two callers, three runs, one worker left behind by each cancelled run.
SPECIFICATION Spec
CONSTANTS
    p1 = p1
    p2 = p2
    Callers <- MCCallers
    MaxRuns = 3
    MaxLate = 1
CHECK_DEADLOCK FALSE
INVARIANTS
    OneRunAtATime
    CleanEnd
    PanicNeedsRace
PROPERTY
    StopEnds
