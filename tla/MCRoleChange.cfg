SPECIFICATION Spec
CONSTANTS
    a = a
    b = b
    c = c
    d = d
    e = e
    g = g
    h = h
    i = i
    k = k
    j = j
    l = l
    None = None
    Users <- MCUsers
    Families <- MCFamilies
    Codes <- MCCodes
    MaxUses = 1
    Req <- MCReq
    StartUsers <- MCStartUsers
    StartCodes <- MCStartCodes
    MaxOpen = 3
    MaxServed = 3
PROPERTY RoleNeedsAdminOfFamily
CHECK_DEADLOCK FALSE
