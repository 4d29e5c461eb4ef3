SPECIFICATION Spec
CONSTANTS
    Slots = {s1}
    Milestones = {"REGISTRATION_BONUS", "KBZPAY_VERIFIED_BONUS"}
    Amounts = {60, 100}
    MaxWithdrawal = 2
    MaxSubmission = 2
    MaxSuggestion = 1
    MaxReview = 1
    MaxTrade = 1
    SuggestionPoints = 300
    ReviewPoints = 5
    BlockingDebt = 20
    MayCrash = TRUE
INVARIANTS
    BalanceIsLedgerSum
    OncePerLifetime
    StatusMatchesLedger
PROPERTIES
    RequestsAreCovered
CHECK_DEADLOCK FALSE
