SPECIFICATION Spec
CONSTANTS
    Conns = {c1, c2}
    Sockets = {1}
    MaxErrors = 1
INVARIANTS
    TypeOK
    ServedByOne
    PluginsQuiet
    CrashExplained
PROPERTIES
    SignalEnds
    EveryoneServed
CHECK_DEADLOCK FALSE
