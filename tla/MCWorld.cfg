SPECIFICATION FairSpec
CONSTANTS
    tavern = tavern
    field = field
    chapel = chapel
    lamp = lamp
    coin = coin
    altar = altar
    Zones <- MCZones
    Exits <- MCExits
    StartZone = tavern
    RespawnZone = chapel
    EnemyZones <- MCEnemyZones
    Items <- MCItems
    BaseLoc <- MCBaseLoc
    Obtainable <- MCObtainable
    None = None
    Conns = {c1, c2}
    Names = {ann, bob}
INVARIANTS
    TypeOK
    SessionsSound
    ItemsConserved
PROPERTIES
    Custody
    ItemsComeHome
    NameComesFree
