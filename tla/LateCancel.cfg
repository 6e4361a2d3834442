SPECIFICATION Spec
CONSTANTS
    Orders = {o1}
    Drivers = {d1}
    Slots = {s1, s2}
    Routes = {r1}
    CityPair <- SameCities
    Prices = {10}
    RawPrices = {100}
    Percents = {15000}
    Ops = {"create", "publish", "bid", "select", "mark", "cancel"}
    MaxDisputes = 0
    None = None
PROPERTIES
    ClientCancelsBeforePickup
CHECK_DEADLOCK FALSE
