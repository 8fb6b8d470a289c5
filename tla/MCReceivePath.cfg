SPECIFICATION Spec
CONSTANTS
    limit = 3
    window = 2
    Messages <- MCMessages
    Noise <- MCNoise
    Streams <- MCStreams
    receive_size = 16
    rx_buffer_capacity = 16
    StartTime = 2
    MaxTime = 6
    MaxConnections = 2
INVARIANTS
    FramesExact
    BufferFits
    LimitEnforced
    RateBounded
CHECK_DEADLOCK FALSE
