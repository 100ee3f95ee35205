SPECIFICATION Spec
CONSTANTS
    Drivers = {"adcs"}
    Codes = {"mode"}
    MaxRequests = 1
    BufferSize = 4
    DeviceRejects = TRUE
    Faults = TRUE
CHECK_DEADLOCK FALSE
INVARIANT ForwardedMeansExecuted
