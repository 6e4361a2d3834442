SPECIFICATION FairSpec
CONSTANTS
    Users = {u1, u2}
    NoUser = NoUser
    Calls = {c1, c2}
    MaxToken = 3
INVARIANTS
    StoredTokenIsUsable
    ScreenMatchesTokens
PROPERTIES
    StartCompletes
    CallsSettle
CHECK_DEADLOCK FALSE
