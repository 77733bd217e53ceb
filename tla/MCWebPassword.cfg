CONSTANTS
    Tabs = {t1}
    Accounts = {a1}
    Slots = 1
    MaxVer = 1
SPECIFICATION Spec
PROPERTIES
    StaysSignedIn
CHECK_DEADLOCK FALSE
