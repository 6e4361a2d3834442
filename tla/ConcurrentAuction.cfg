SPECIFICATION Spec
CONSTANTS
    Orders = {o1}
    Drivers = {d1, d2}
    Slots = {s1, s2}
    Routes = {r1}
    CityPair <- SameCities
    Prices = {10, 20}
    RawPrices = {100}
    Percents = {33330}
    Ops = {"create", "publish", "cancel", "select", "bid", "update_bid", "reject", "commission"}
    MaxDisputes = 0
    None = None
SYMMETRY DriverSymmetry
INVARIANTS
    MarketTypeOK
    OneAcceptedBid
    AssignmentIsPriced
    BidAnswersOffer
CHECK_DEADLOCK FALSE
