SPECIFICATION FairSpec
CONSTANTS
    c1 = c1
    c2 = c2
    Clients <- MCClients
    Frames <- MCFrames
    Margin = 2
    Spurious = TRUE
INVARIANTS
    TypeOK
    WholeFrame
    CopyFits
PROPERTIES
    ImplementsFeed
    WaitersServed
CHECK_DEADLOCK FALSE
