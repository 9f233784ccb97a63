\* Two processes, three entries, one tool call, two writes cut short, opened once more.
SPECIFICATION Spec
CONSTANTS
    p1 = p1
    p2 = p2
    Procs <- MCProcs
    MaxEntries = 3
    MaxCalls = 1
    MaxFaults = 2
    MaxOpens = 1
SYMMETRY MCSymmetry
CHECK_DEADLOCK FALSE
INVARIANTS
    ReplayIsMemory
    BranchReadable
    LossBounded
    RepairComplete
