CONSTANTS
    u1 = u1
    u2 = u2
    all = all
    f1 = f1
    f2 = f2
    home = home
    school = school
    atHome = atHome
    park = park
    Users = {u1, u2}
    Everyone = all
    Fences = {f1, f2}
    Places = {home, school, park}
    Spots = {atHome}
    Editors = {m1}
    NoEdit = NoEdit
    Patches <- MCPatches
    InitialFences <- MCFences
    InitialPlace <- MCPlace
    Debounce = 1
    MaxTs = 1
    MaxChanges = 2
    Goroutines = {g1}
    Worker = worker
    Near <- MCNear
    MaxFaults = 0
SPECIFICATION Spec
INVARIANT NoStateOfOldArea
