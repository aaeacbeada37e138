\* What is done with live data: books, accounts, fills, instruments, opportunities.
SPECIFICATION LiveSpec
CONSTANTS
    Parts = {"book", "accounts", "fills", "instruments", "opportunity"}
    p1 = p1
    p2 = p2
    Prices = {p1, p2}
    MaxChange = 4
    Touched <- TouchedPrices
    Removals = {3}
    VenueSet = {"spot", "futures", "bitget"}
    MaxBuffered = 2
    MaxToggles = 3
    MaxDrops = 1
    RestFails = TRUE
    a1 = a1
    a2 = a2
    Assets = {a1, a2}
    Scopes = {"spot", "futures", "bitget"}
    MaxChanges = 2
    MaxRefreshes = 2
    MaxLosses = 1
    OrderVenues = {"binance", "bitget"}
    OrderKinds = {"limit", "market"}
    Quantity = 3
    MaxQuantity = 3
    FillFees = {0, 1, 2}
    MaxFills = 3
    Products <- SomeProducts
    PriceLevels = {1, 2, 3}
    MaxSize = 2
    RuleSets <- SomeRules
    Amounts = {3, 7, 12}
INVARIANTS
    LiveTypeOK
    BookIsTrue
    PendingIsOneLoad
    SettledIsSubscribed
    
    
    
    ResolvedToItsOwn
    OpportunityIsBest
    HedgeIsClose

    
\* A behaviour stops when the bounds are used up.
CHECK_DEADLOCK FALSE
