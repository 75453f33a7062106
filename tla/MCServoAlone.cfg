SPECIFICATION Spec
CONSTANTS
    Movers = {"det"}
    Targets <- MCTargets
    Steps <- MCSteps
    Saved <- MCSaved
    MaxMoves = 2
    MaxCrashes = 1
CHECK_DEADLOCK FALSE
INVARIANTS
    TypeOK
    ServoFollows
    FileRecords
PROPERTIES
    GradualMotion
