SPECIFICATION Spec
CONSTANTS
    director = director
    demo = demo
    eps = eps
    radio = radio
    Director = director
    Workers = {demo, eps, radio}
    WaitFaults = {demo, eps, radio}
    ServiceFaults = {demo, eps, radio}
    CallbackFaults = {demo, eps, radio}
    ExchangeFaults = TRUE
INVARIANT Quiescent
INVARIANT AdmittedBeforeAck
INVARIANT ServiceErrorWithheld
PROPERTY DirectorProceeds
