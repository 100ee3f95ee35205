SPECIFICATION Spec
CONSTANTS
    Drivers = {"demo", "adcs"}
    Codes = {"set", "hk", "data"}
    MaxRequests = 3
    BufferSize = 4
    DeviceRejects = TRUE
    Faults = TRUE
CHECK_DEADLOCK FALSE
INVARIANT TypeOK
INVARIANT SuccessMeansExecuted
INVARIANT ResponsesBuffered
INVARIANT AnswerFresh
PROPERTY Answered
