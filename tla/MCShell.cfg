\* Four inputs, a queue of three of which a sort keeps two in order, and a channel
\* of two, without background tasks.
SPECIFICATION Spec
CONSTANTS
    Tasks = {}
    NoTask = NoTask
    QueueCap = 3
    SortKeeps = 2
    ChanCap = 2
    MaxInputs = 4
    MaxTools = 1
    Unsafe = {2}
    Waits = FALSE
CHECK_DEADLOCK FALSE
INVARIANTS
    InputsOnce
    PromptsInOrder
    SessionAgrees
