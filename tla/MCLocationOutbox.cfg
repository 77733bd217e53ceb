\* Two sessions; a reporter and two drains overlap, a batch holds one fix
\* of a queue that holds two.
CONSTANTS
    Requests = {r1, r2}
    Clients = {fg, da, db}
    Nobody = nobody
    MaxSessions = 2
    Accounts = {1, 2}
    MaxTs = 3
    Reporters = {fg}
    Drainers = {da, db}
    MaxPoints = 2
    MaxPerCall = 1
    MaxFaults = 3
SPECIFICATION Spec
INVARIANTS
    PositionIsNewest
    FixIsKept
PROPERTIES
    QueueIsDrained
CHECK_DEADLOCK FALSE
