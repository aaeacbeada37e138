\* The registry alone: is every order event of an instrument it holds resolved?
SPECIFICATION LiveSpec
CONSTANTS
    Parts = {"instruments"}
    p1 = p1
    p2 = p2
    Prices = {p1, p2}
    MaxChange = 4
    Touched <- TouchedPrices
    Removals = {3}
    VenueSet = {"spot", "futures", "bitget"}
    MaxBuffered = 2
    MaxToggles = 0
    MaxDrops = 0
    RestFails = TRUE
    a1 = a1
    a2 = a2
    Assets = {a1, a2}
    Scopes = {"spot", "futures", "bitget"}
    MaxChanges = 0
    MaxRefreshes = 0
    MaxLosses = 0
    OrderVenues = {"binance", "bitget"}
    OrderKinds = {"limit", "market"}
    Quantity = 3
    MaxQuantity = 3
    FillFees = {0, 1, 2}
    MaxFills = 0
    Products <- SomeProducts
    PriceLevels = {1, 2, 3}
    MaxSize = 2
    RuleSets <- SomeRules
    Amounts = {3, 7, 12}
INVARIANTS
    OrderEventsAreResolved
CHECK_DEADLOCK FALSE
