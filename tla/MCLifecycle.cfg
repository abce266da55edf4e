SPECIFICATION LiveLifecycle
CONSTANTS
    Conns = {c1, c2, c3}
    MaxRetries = 2
    NoConn = NoConn
INVARIANTS
    LifecycleTypeOK
    NoneEscapes
    CleanExit
PROPERTY
    ShutdownEnds
\* the process ends
CHECK_DEADLOCK FALSE
