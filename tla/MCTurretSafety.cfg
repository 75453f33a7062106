SPECIFICATION FairSpec
CONSTANTS
    Frames <- MCFrames
    NoFrame = NoFrame
    ConfThreshold = 2
    ResetThreshold = 2
    Requests = {"enable_turret", "disable_turret", "left"}
    QuietTicks = 1
    MaxFaults = 1
    MaxSignals = 1
INVARIANTS
    TypeOK
    LaserOnlyInBurst
    FiringFrameChecked
    CountersInStep
PROPERTY MainThreadReturns
CHECK_DEADLOCK FALSE
