SPECIFICATION Spec
CONSTANTS
    Modes = {"shared", "binary", "text"}
    Components = 2
    Emits = {0, 2}
    QueueSize = 3
    TraceSize = 1
    Ticks = 3
    LinkFaults = TRUE
    OtherFaults = TRUE
CHECK_DEADLOCK FALSE
INVARIANT TypeOK
INVARIANT AppliedWhole
INVARIANT CommitMeansApplied
INVARIANT InStep
INVARIANT TraceFaithful
PROPERTY CallbackEnds
PROPERTY ImplementsLoopSync
