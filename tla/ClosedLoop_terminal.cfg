SPECIFICATION Spec
CONSTANTS
    Modes = {"binary"}
    Components = 1
    Emits = {1}
    QueueSize = 1
    TraceSize = 1
    Ticks = 1
    LinkFaults = FALSE
    OtherFaults = TRUE
CHECK_DEADLOCK FALSE
PROPERTY TerminalEnds
