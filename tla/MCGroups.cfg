SPECIFICATION Spec
CONSTANTS
    Players = {ann, bob, cyd}
    Groups = {g1, g2}
    None = None
SYMMETRY Symmetric
CHECK_DEADLOCK FALSE
INVARIANTS
    MembershipSound
    GoneForGood
