SPECIFICATION Spec
CONSTANTS
    Orders = {o1}
    Drivers = {d1}
    Slots = {s1, s2}
    Routes = {r1}
    CityPair <- SameCities
    Prices = {10}
    RawPrices = {70}
    Percents = {15000}
    Ops = {"create", "publish", "cancel", "select", "confirm", "bid", "mark", "driver_cancel", "assign", "admin_cancel", "dispute", "settle"}
    MaxDisputes = 2
    None = None
INVARIANTS
    AssignmentIsPriced
    ConfirmedIsPaid
    OneActiveDispute
    DisputedCanBeSettled
    DeliveryHasDriver
CHECK_DEADLOCK FALSE
