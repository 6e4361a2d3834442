SPECIFICATION Spec
CONSTANTS
    Users = {u1}
    NoUser = NoUser
    Calls = {c1}
    MaxToken = 3
PROPERTIES
    LogoutEndsTheSession
CHECK_DEADLOCK FALSE
