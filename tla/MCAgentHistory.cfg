\* Unlimited messages, compaction from three messages on; two steering
\* messages and a follow-up arrive at any moment of one run.
SPECIFICATION Spec
CONSTANTS
    MaxTurns = 0
    MaxMessages = 0
    CapFloor = 4
    MaxRetries = 1
    CompactOn = TRUE
    CompactMin = 3
    MaxCalls = 2
    MaxAsst = 2
    MaxSteer = 2
    MaxFollow = 1
    MaxRuns = 1
CHECK_DEADLOCK FALSE
INVARIANTS
    NoMessageTwice
    SentInOrder
    Paired
    HistoryPreserved
