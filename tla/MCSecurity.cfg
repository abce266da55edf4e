SPECIFICATION Spec
CONSTANTS
    s1 = s1
    s2 = s2
    host = host
    Sessions = {s1, s2}
    Hosts = {host}
    HostOf <- MCHostOf
    Cost = 2
    Refill = 1
    Capacity = 4
    QueryRefill = 1
    QueryCapacity = 2
    RejectionLimit = 2
    RejectionWindow = 1
    TimeoutLength = 2
    MaxStrikes = 2
    BanLength = 1
    FloodBans = {2}
    FloodLimit = 2
    FloodWindow = 1
    MaxTime = 3
    MaxAttempts = 3
    None = None
SYMMETRY Symmetric
INVARIANTS
    BucketsSound
    NotBeforeABurst
PROPERTIES
    BanKept
    FloodTurnedAway
