SPECIFICATION Spec
CONSTANTS
    Buyers = {b1, b2}
    Seller = seller
    Chatting = {b1}
    Resending = {b1}
    Slots = {s1, s2}
    Keys = {k1}
    NoKey = NoKey
    MaxMessage = 2
    MaxLease = 2
    MaxHidden = 1
    PageSize = 1
    ThresholdStep = 2
    MayCrash = TRUE
SYMMETRY SlotSymmetry
INVARIANTS
    TypeOK
    InterestNeverOverstated
    SentOncePerReservation
    UnreadIsExact
    PagesAreComplete
CHECK_DEADLOCK FALSE
