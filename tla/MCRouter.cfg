SPECIFICATION FairSpec
CONSTANTS
    MaxConns = 2
    MaxOut = 2
    MaxPresses = 2
    MaxCmds = 2
    MaxDrops = 1
    None = None
INVARIANT
    RouterSound
PROPERTIES
    LogGoes
    UserAnswered
    GoroutinesEnd
\* the bounds on the user's actions are used up, or the program has ended
CHECK_DEADLOCK FALSE
