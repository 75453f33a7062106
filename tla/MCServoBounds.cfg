SPECIFICATION Spec
CONSTANTS
    Movers = {"det", "web", "ctl"}
    Targets <- MCNearTargets
    Steps <- MCNearSteps
    Saved <- MCNearSaved
    MaxMoves = 3
    MaxCrashes = 1
CHECK_DEADLOCK FALSE
INVARIANTS
    PulseInLimits
