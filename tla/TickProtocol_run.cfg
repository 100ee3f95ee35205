SPECIFICATION Spec
CONSTANTS
    director = director
    fsw = fsw
    observer = observer
    Clients = {director, fsw, observer}
    Kind <- MCKind
    Duration = 3
    Faulty = {}
    StartPaused = FALSE
    Commands = {}
    ExternalStop = FALSE
INVARIANT NoTornRead
INVARIANT NoLivePhaseRejected
PROPERTY RunCompletes
