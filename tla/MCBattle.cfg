SPECIFICATION FairSpec
CONSTANTS
    chapel = chapel
    field = field
    ruffian = ruffian
    Players = {ann, bob}
    NPCs = {ruffian}
    Fields = {f1, f2}
    Zones <- MCZones
    NPCZone <- MCNPCZone
    HealerZones = {chapel}
    StartZone = chapel
    RespawnZone = chapel
    MaxHP = 3
    NPCMaxHP = 2
    PlayerDamage <- MCPlayerDamage
    NPCDamage <- MCNPCDamage
    None = None
INVARIANTS
    FightsSound
    NoPanic
    ReplyTruthful
PROPERTIES
    CommandsEnd
    NoGoroutineLeak
