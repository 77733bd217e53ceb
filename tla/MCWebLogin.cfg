CONSTANTS
    Tabs = {t1}
    Accounts = {a1}
    Slots = 2
    MaxVer = 0
SPECIFICATION Spec
INVARIANTS
    SignedInReachesPage
CHECK_DEADLOCK FALSE
