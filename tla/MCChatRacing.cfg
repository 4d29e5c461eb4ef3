SPECIFICATION FairSpec
CONSTANTS
    NoRoom = NoRoom
    Rooms = {r1}
    Slots = {s1, s2}
    MaxTxn = 1
    Kinds = {"DIRECT_TRADE", "SAFE_PAYMENT"}
    MayCrash = FALSE
INVARIANTS
    ReleaseNeedsBothConfirmations
    ConfirmationNeedsVerification
PROPERTIES
    ImplementsEscrow
    CompletedTradeIsSold
    CancellationIsCharged
CHECK_DEADLOCK FALSE
