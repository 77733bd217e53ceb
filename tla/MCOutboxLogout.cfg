CONSTANTS
    Requests = {r1, r2}
    Clients = {fg, da}
    Nobody = nobody
    MaxSessions = 2
    Accounts = {1, 2}
    MaxTs = 2
    Reporters = {fg}
    Drainers = {da}
    MaxPoints = 2
    MaxPerCall = 1
    MaxFaults = 2
SPECIFICATION Spec
INVARIANT QueueIsOfSession
CHECK_DEADLOCK FALSE
