CONSTANTS
    Tabs = {t1, t2}
    Accounts = {a1, a2}
    Slots = 1
    MaxVer = 1
SYMMETRY Alike
SPECIFICATION Spec
INVARIANTS
    SessionEndsForCause
    ShellHasSession
    CallsReachRoutes
PROPERTIES
    IdentityIsOfSession
CHECK_DEADLOCK FALSE
