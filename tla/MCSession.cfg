\* A call of the app beside the user, the gate and the background isolate;
\* two pairs of tokens, one revocation or expiry of a refresh token, one failure.
CONSTANTS
    Calls = {c1}
    MaxIssued = 2
    MaxEnded = 1
    MaxFaults = 1
SPECIFICATION Spec
INVARIANTS
    EndsForCause
    SignedOutIsDead
PROPERTIES
    DeadSessionEnds
CHECK_DEADLOCK FALSE
