\* Two requests whose handlers call back, over pipes of one message.
SPECIFICATION Spec
CONSTANTS
    asks = asks
    streams = streams
    None = None
    Callers <- MCCallers
    Streams = {}
    Asks <- MCCallers
    PipeCap = 1
    DeltaCap = 1
    MaxDeltas = 0
PROPERTIES
    RequestsReturn
    HostStopEnds
CHECK_DEADLOCK FALSE
