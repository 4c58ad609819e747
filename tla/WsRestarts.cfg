SPECIFICATION Spec
CONSTANTS
    u1 = u1
    u2 = u2
    c1 = c1
    c2 = c2
    c3 = c3
    Users = {u1}
    Conns = {c1, c2, c3}
    PageUser <- ReloadUser
    PageKind <- ReloadKind
    MAX_WSCON = 3
    DbMayFail = TRUE
    MaxRestarts = 1
    MaxQueue = 1
    Absent = Absent
    EmptyHdl = EmptyHdl
INVARIANTS
    TypeOK
    OneIdPerConnection
    DeadIdsStayDead
CHECK_DEADLOCK FALSE
