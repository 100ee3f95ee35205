SPECIFICATION Spec
CONSTANTS
    director = director
    demo = demo
    eps = eps
    radio = radio
    Director = director
    Workers = {demo}
    WaitFaults = {demo}
    ServiceFaults = {}
    CallbackFaults = {}
    ExchangeFaults = FALSE
PROPERTY WaitErrorPreventsCommit
