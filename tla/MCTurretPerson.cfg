SPECIFICATION Spec
CONSTANTS
    Frames <- MCFrames
    NoFrame = NoFrame
    ConfThreshold = 2
    ResetThreshold = 2
    Requests = {"enable_turret", "disable_turret"}
    QuietTicks = 1
    MaxFaults = 0
    MaxSignals = 0
INVARIANT NoPersonInShot
CHECK_DEADLOCK FALSE
