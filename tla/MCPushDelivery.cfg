\* One event with two recipients, one of whom has a target that the push
\* service refuses; as many faults as leave a delivery one attempt.
CONSTANTS
    Events = {e1}
    Devices = {d1, d2}
    Invalid = {d2}
    Worker = worker
    MaxAttempts = 3
    Retries = 2
    MinAge = 4
    MaxFaults = 2
    MaxChanges = 2
SPECIFICATION Spec
INVARIANTS
    NoDoubleDispatch
PROPERTIES
    ImplementsDelivery
    AlertArrives
CHECK_DEADLOCK FALSE
