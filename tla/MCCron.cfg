\* Two tasks; two processes, which are started three times in all.
SPECIFICATION Spec
CONSTANTS
    p1 = p1
    p2 = p2
    t1 = t1
    t2 = t2
    None = None
    Procs <- MCProcs
    Tasks <- MCTasks
    ByHand <- MCByHand
    Schedules <- MCSchedules
    DayLen = 2
    WeekDays = 2
    MaxLines = 2
    MaxStarts = 3
    MaxFaults = 1
    MaxTime = 4
SYMMETRY Symmetry
CONSTRAINT NotStolen
CHECK_DEADLOCK FALSE
INVARIANTS
    OneAtATime
    HistoryKept
PROPERTY
    OncePerPeriod
