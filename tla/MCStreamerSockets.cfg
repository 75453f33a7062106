SPECIFICATION Spec
CONSTANTS
    Conns = {c1, c2}
    Sockets = {1, 2}
    MaxErrors = 0
INVARIANT ServedByOne
CHECK_DEADLOCK FALSE
