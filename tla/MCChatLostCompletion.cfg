SPECIFICATION Spec
CONSTANTS
    NoRoom = NoRoom
    Rooms = {r1}
    Slots = {s1, s2}
    MaxTxn = 1
    Kinds = {"DIRECT_TRADE"}
    MayCrash = FALSE
INVARIANTS
    BothConfirmedIsCompleted
CHECK_DEADLOCK FALSE
