SPECIFICATION Spec
CONSTANTS
    loaf = loaf
    well = well
    manners = manners
    arms = arms
    bounty = bounty
    Zones <- MCZones
    Exits <- MCExits
    StartZone = "taverne"
    RespawnZone = "chapel"
    NPCs <- MCNPCs
    Place <- MCPlace
    Enemies = {"cave_bat", "ruffian"}
    Quests <- MCQuestSet
    Giver <- MCGiver
    Requires <- MCRequires
    Steps <- MCSteps
    KeyItems <- MCKeyItems
    RewardItem <- MCRewardItem
    RewardGold <- MCRewardGold
    SkillBoost <- MCSkillBoost
    None = None
INVARIANTS
    TypeOK
    NoPanic
    KeyItemsFollowProgress
    RewardsPaidOnce
    PrerequisitesKept
    KeyItemsReachable
PROPERTY
    MovesForward
