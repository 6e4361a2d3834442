SPECIFICATION Spec
CONSTANTS
    Orders = {o1}
    Drivers = {d1, d2}
    Slots = {s1}
    Routes = {r1, r2}
    CityPair <- SameCities
    Prices = {10, 20}
    RawPrices = {100}
    Percents = {15000}
    Ops = {"create", "publish", "edit", "cancel", "select", "confirm", "bid", "update_bid", "reject", "mark", "driver_cancel", "admin_cancel", "availability", "block", "delete_account"}
    MaxDisputes = 0
    None = None
SYMMETRY DriverSymmetry
INVARIANTS
    AuctionIsSettled
    ClientPaysTheBid
    DeclinedIsNotActive
    BlockedIsOffline
    DeletedDriverCarriesNothing
CHECK_DEADLOCK FALSE
