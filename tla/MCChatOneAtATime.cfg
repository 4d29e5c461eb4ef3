SPECIFICATION SpecOneAtATime
CONSTANTS
    NoRoom = NoRoom
    Rooms = {r1, r2}
    Slots = {s1}
    MaxTxn = 2
    Kinds = {"DIRECT_TRADE", "SAFE_PAYMENT"}
    MayCrash = TRUE
INVARIANTS
    BothConfirmedIsCompleted
    ChargedAtMostOnce
    PaymentIsQueued
    OneOpenTransaction
PROPERTIES
    DirectTradeWaitsForSafePayment
    CancelClearsItsOwnDeal
SYMMETRY RoomSymmetry
CHECK_DEADLOCK FALSE
