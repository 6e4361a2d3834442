SPECIFICATION Spec
CONSTANTS
    Orders = {o1}
    Drivers = {d1}
    Slots = {s1}
    Routes = {r1}
    CityPair <- SameCities
    Prices = {10}
    RawPrices = {100}
    Percents = {15000}
    Ops = {"create", "publish", "cancel", "select", "confirm", "bid", "reject", "mark", "driver_cancel", "assign", "admin_cancel", "admin_status", "dispute", "settle"}
    MaxDisputes = 1
    None = None
INVARIANTS
    ConfirmedIsPaid
PROPERTIES
    HistoryIsChain
    CancelledIsFinal
CHECK_DEADLOCK FALSE
