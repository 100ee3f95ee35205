SPECIFICATION Spec
CONSTANTS
    director = director
    fsw = fsw
    observer = observer
    Clients = {director, fsw}
    Kind <- MCKind
    Duration = 2
    Faulty = {director}
    StartPaused = TRUE
    Commands = {"pause", "resume", "step", "p", "quit"}
    ExternalStop = TRUE
INVARIANT Lockstep
PROPERTY StopReleases
PROPERTY PauseNeverStrandsTick
PROPERTY ImplementsTickSync
