CONSTANTS
    Calls = {c1}
    MaxIssued = 2
    MaxEnded = 0
    MaxFaults = 2
SPECIFICATION Spec
INVARIANT EndsOnlyOnRefusal
CHECK_DEADLOCK FALSE
