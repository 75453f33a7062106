SPECIFICATION FairSpec
CONSTANTS
    Frames <- MCFrames
    NoFrame = NoFrame
    ConfThreshold = 2
    ResetThreshold = 2
    Requests = {"enable_turret", "disable_turret", "enable_aux_laser", "disable_aux_laser", "right", "up", "down", "stop"}
    QuietTicks = 1
    MaxFaults = 0
    MaxSignals = 0
PROPERTIES
    DisableQuiesces
    EnabledKeepsLooking
    EnableLocksManual
    StopReachesServo
