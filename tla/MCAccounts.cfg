SPECIFICATION Spec
CONSTANTS
    Users = {root, u1}
    Root = root
    Watched = {u1}
    Things = {room}
    Slots = {s1, s2}
    MaxVersion = 2
    MaxRestart = 2
SYMMETRY SlotSymmetry
INVARIANTS
    RevokedStaysOut
    RootRemains
    DeletedLeavesNothing
CHECK_DEADLOCK FALSE
