SPECIFICATION Spec
CONSTANTS
    SwitchCount = 2
    Loads = {"demo", "adcs"}
    Rail <- MCRail
    Startup <- MCStartup
    BootDelay = 2
    MaxTransitions = 2
    MaxRequests = 3
    MaxTicks = 5
CHECK_DEADLOCK FALSE
INVARIANT RailFollowsRequest
INVARIANT OffOnPowerCycles
INVARIANT ExecutedOnlyBooted
INVARIANT ActuatorsZeroWhenInactive
PROPERTY UndisturbedPreserved
PROPERTY OverflowNeverApplied
