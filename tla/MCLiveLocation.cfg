SPECIFICATION FairSpec
CONSTANTS
    Buyer = buyer
    Seller = seller
    Movers = {buyer}
    Slots = {s1}
    MaxTrade = 2
    MaxShare = 3
    MaxHits = 2
    MaxActions = 1
INVARIANTS
    OnlyRevivedTradesStayShared
PROPERTIES
    WindowReopens
CHECK_DEADLOCK FALSE
