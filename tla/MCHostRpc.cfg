\* A request whose handler calls back and a stream of two deltas, over pipes
\* and buffers of one.
SPECIFICATION Spec
CONSTANTS
    asks = asks
    streams = streams
    None = None
    Callers <- MCCallers
    Streams <- MCStreams
    Asks <- MCAsks
    PipeCap = 1
    DeltaCap = 1
    MaxDeltas = 2
INVARIANTS
    NothingLeft
    StreamComplete
CHECK_DEADLOCK FALSE
