SPECIFICATION Spec
CONSTANTS
    Keywords = {k1}
    Default = {k1}
    Processes = {p1, p2}
    Slots = {s1, s2}
    MaxPost = 1
    MaxReport = 1
    MayCrash = TRUE
SYMMETRY MCSymmetry
INVARIANTS
    FilterCatchesUp
PROPERTIES
    OutcomesAreTrue
