SPECIFICATION Spec
CONSTANTS
    Orders = {o1}
    Drivers = {d1, d2}
    Slots = {s1}
    Routes = {r1}
    CityPair <- SameCities
    Prices = {10}
    RawPrices = {100}
    Percents = {15000}
    Ops = {"create", "publish", "cancel", "select", "confirm", "bid", "reject", "mark", "driver_cancel", "assign", "admin_cancel", "dispute", "settle"}
    MaxDisputes = 2
    None = None
SYMMETRY DriverSymmetry
PROPERTIES
    ImplementsLifecycle
CHECK_DEADLOCK FALSE
