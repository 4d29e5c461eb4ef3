SPECIFICATION FairSpec
CONSTANTS
    Slots = {s1, s2}
    Milestones = {"KBZPAY_VERIFIED_BONUS"}
    Amounts = {60}
    MaxWithdrawal = 1
    MaxSubmission = 0
    MaxSuggestion = 0
    MaxReview = 1
    MaxTrade = 2
    SuggestionPoints = 300
    ReviewPoints = 5
    BlockingDebt = 20
    MayCrash = FALSE
INVARIANTS
    PaidWasDeducted
    RankMatchesBalance
    BlockedAtThreshold
PROPERTIES
    MilestoneIsRewarded
CHECK_DEADLOCK FALSE
