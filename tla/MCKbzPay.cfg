SPECIFICATION KbzSpec
CONSTANTS
    Handlers = {s1, s2, s3}
    MayCrash = TRUE
SYMMETRY HandlerSymmetry
INVARIANTS
    ListsAreDisjoint
    VerifiedIsRewarded
