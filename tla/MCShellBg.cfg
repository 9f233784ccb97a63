\* Two inputs and one background task, started and stopped at any time.
SPECIFICATION Spec
CONSTANTS
    t1 = t1
    Tasks <- MCTasks
    NoTask = NoTask
    QueueCap = 2
    SortKeeps = 12
    ChanCap = 1
    MaxInputs = 2
    MaxTools = 0
    Unsafe = {}
    Waits = TRUE
CHECK_DEADLOCK FALSE
INVARIANTS
    RunningIsTrue
PROPERTIES
    QueueServed
    HeldBackCompletes
    WaiterWoken
