CONSTANTS
    u1 = u1
    all = all
    f1 = f1
    home = home
    atHome = atHome
    away = away
    Users = {u1}
    Everyone = all
    Fences = {f1}
    Places = {home}
    Spots = {atHome, away}
    Editors = {}
    NoEdit = NoEdit
    Patches = {}
    InitialFences <- MCFences
    InitialPlace <- MCPlace
    Debounce = 1
    MaxTs = 5
    MaxChanges = 0
    Goroutines = {g1}
    Worker = worker
    Near <- MCNear
    MaxFaults = 0
SPECIFICATION SteadySpec
PROPERTY NoPendingLost
