SPECIFICATION Spec
CONSTANTS
    None = None
    SignCalls = {w1, w2}
    Cities = {a, b}
    Parted = {a}
    WebCalls = {w1, w2}
    Orders = {o1, o2}
    DriverCalls = {w1, w2}
    Records = {o1, o2}
    DeskCalls = {w1, w2}
SYMMETRY Interchangeable
INVARIANTS
    PageMatchesTokens DraftKeepsChoices DraftPublishedOnce SheetTellsOfItsBid
    VehicleFormIsTheDrivers
