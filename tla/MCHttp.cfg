SPECIFICATION FairSpec
CONSTANTS
    Requests <- MCRequests
    Configs <- MCConfigs
    Digits <- MCDigits
    PluginIds <- MCPluginIds
    Files <- MCFiles
    IO_BUFFER = 3
    LineMax = 6
    Page <- MCPage
    Dotted <- MCDotted
INVARIANTS
    TypeOK
    NothingLost
    HeaderUnderstood
    ContentAuthorised
    ErrorIsLast
    PluginsCounted
PROPERTY ConnectionEnds
CHECK_DEADLOCK FALSE
