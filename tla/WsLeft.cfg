SPECIFICATION FairSpec
CONSTANTS
    u1 = u1
    u2 = u2
    c1 = c1
    c2 = c2
    c3 = c3
    Users = {u1}
    Conns = {c1, c2}
    PageUser <- TwoPagesUser
    PageKind <- TwoPagesKind
    MAX_WSCON = 3
    DbMayFail = FALSE
    MaxRestarts = 0
    MaxQueue = 2
    Absent = Absent
    EmptyHdl = EmptyHdl
PROPERTIES
    NobodyWaitsForEver
    LeftIsMarkedOffline
CHECK_DEADLOCK FALSE
