SPECIFICATION FairSpec
CONSTANTS
    taverne = taverne
    chapel = chapel
    well = well
    cave = cave
    nowhere = nowhere
    lamp = lamp
    loaf = loaf
    q1 = q1
    q2 = q2
    q3 = q3
    nothing = nothing
    None = None
    StartZone = taverne
    RespawnZone = chapel
    Worlds <- MCWorlds
INVARIANTS
    MapVerdict
    DataSound
PROPERTY
    LoaderEnds
\* main goes on to listen, or the process ends
CHECK_DEADLOCK FALSE
