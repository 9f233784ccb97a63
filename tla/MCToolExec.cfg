\* Two calls, one of an unregistered tool, while messages are steered, step mode
\* is switched on and off and the gate is answered.
SPECIFICATION Spec
CONSTANTS
    c1 = c1
    c2 = c2
    Calls <- MCTwo
    Known <- MCOneKnown
    Concurrency = 2
    MaxSteer = 1
    MaxGates = 2
CHECK_DEADLOCK FALSE
INVARIANTS
    ConcurrencyBounded
    ResultsAreTheWorkers
PROPERTIES
    BatchContract
    AnswersAreFinal
    CancelReturns
    CancelLeavesNoWorker
    BatchEnds
