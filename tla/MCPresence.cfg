SPECIFICATION FairSpec
CONSTANTS
    Walkers = {ann}
    Me = me
    Zones = {plaza, chapel}
    StartZone = plaza
    RespawnZone = chapel
    EnemyZones = {plaza}
    MaxWire = 3
    MaxCmds = 2
    MaxWalks = 3
    MaxAsks = 1
    MaxRefused = 1
    None = None
INVARIANTS
    CountersSound
    EventsInOrder
    WhoAgrees
PROPERTY
    ViewCatchesUp
\* the bounds on walks and asks are used up
CHECK_DEADLOCK FALSE
