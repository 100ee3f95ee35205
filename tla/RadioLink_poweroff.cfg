SPECIFICATION Spec
CONSTANTS
    Delays = {0, 1}
    DefaultMode = "always"
    DefaultDelay <- TwoTicks
    DefaultLossy <- Lossless
    QueueDepth = 2
    RxSize = 4
    Threshold = 2
    Period = 1
    BootDelay = 1
    Length = 2
    Reads = {1}
    Uplinks = 2
    Downlinks = 1
    MaxTime = 3
    Operations = 2
CHECK_DEADLOCK FALSE
INVARIANT InFlightLost
