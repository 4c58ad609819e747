SPECIFICATION Spec
CONSTANTS
    u1 = u1
    u2 = u2
    c1 = c1
    c2 = c2
    c3 = c3
    Users = {u1, u2}
    Conns = {c1, c2, c3}
    PageUser <- ThreePagesUser
    PageKind <- ThreePagesKind
    MAX_WSCON = 4
    DbMayFail = FALSE
    MaxRestarts = 0
    MaxQueue = 1
    Absent = Absent
    EmptyHdl = EmptyHdl
INVARIANTS
    LiveIsRegistered
    NoMisdelivery
    OnlineHasPage
PROPERTIES
    ImplementsRouting
    OnlyOwnPageMarksOffline
CHECK_DEADLOCK FALSE
