SPECIFICATION Spec
CONSTANTS
    Players = {ann, bob}
    Groups = {g1}
    None = None
CHECK_DEADLOCK FALSE
INVARIANT
    GroupsListed
