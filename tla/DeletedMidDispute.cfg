SPECIFICATION Spec
CONSTANTS
    Orders = {o1}
    Drivers = {d1}
    Slots = {s1}
    Routes = {r1}
    CityPair <- SameCities
    Prices = {10}
    RawPrices = {100}
    Percents = {15000}
    Ops = {"create", "publish", "bid", "select", "dispute", "settle", "delete_account"}
    MaxDisputes = 1
    None = None
INVARIANTS
    DeletedDriverCarriesNothing
CHECK_DEADLOCK FALSE
