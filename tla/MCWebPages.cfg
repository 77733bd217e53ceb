SPECIFICATION PanelSpec
CONSTANTS
    a = a
    b = b
    c = c
    Stale = 0
    Places <- MCPlaces
    Reports <- MCReports
    MaxRetries = 1
    MaxTime = 2
    MaxFaults = 1
    Buffer = 2
    MaxCasts = 2
    MaxAvatar = 1
    People <- MCPeople
    FamilyOf <- MCFamilyOf
    Spots = {0, 1, 2}
    Radius = 2
    MaxZoom = 2
    RecenterZoom = 1
    ExpandZoom = 1
    MaxRev = 2
    MaxEdits = 1
    MaxCircleRev = 2
    MaxCircleEdits = 2
    MaxPhoto = 2
    UserFamilies = {"f", "g"}
    UserRoles = {"admin", "member"}
    MaxUserRev = 3
    Walkers <- MCWalkers
    CircleOf <- MCCircleOf
    Days = {1, 2}
    AccountNames = {"n", "m"}
    MaxPics = 2
    MaxJobs = 1
    MaxOutages = 1
    MaxAsks = 2
INVARIANTS
    CreateIsServed
    MembersOnlyView
    NameFollowsRename
    FailedSavesAreShown
CHECK_DEADLOCK FALSE
