SPECIFICATION Spec
CONSTANTS
    Slots = {s1, s2}
    MaxCode = 2
    MaxAttempts = 2
    MayCrash = TRUE
SYMMETRY SlotSymmetry
INVARIANTS
    GuessesAreBounded
    CodesAreSpent
    EveryResetRevokes
CHECK_DEADLOCK FALSE
