SPECIFICATION FairSpec
CONSTANTS
    Players = {ann, bob}
    Groups = {g1, g2}
    None = None
CHECK_DEADLOCK FALSE
PROPERTY
    CommandsEnd
