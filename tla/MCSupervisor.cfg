\* One extension whose tool has two names in turn, one restart, two failures, two
\* changes of files.
SPECIFICATION Spec
CONSTANTS
    e1 = e1
    t1 = t1
    t2 = t2
    None = None
    Builtin = Builtin
    Exts <- OneExt
    Tools <- TwoTools
    Declares <- ItsTools
    MaxRestarts = 1
    MaxFaults = 2
    MaxChanges = 2
INVARIANTS
    RegistrationsCurrent
    OneProcess
PROPERTIES
    NewestRuns
    StopEndsWatch
CHECK_DEADLOCK FALSE
