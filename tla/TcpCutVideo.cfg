SPECIFICATION Spec
CONSTANTS
    u1 = u1
    u2 = u2
    k1 = k1
    k2 = k2
    k3 = k3
    Ws = Ws
    NoUser = NoUser
    Free = Free
    Users = {u1, u2}
    Links = {k1, k2, k3}
    Peer <- OneDevice
    TcpId <- AllKnown
    NoFile = NoFile
    Cut = Cut
    LastFd = 8
    MaxTime = 0
    MaxImages = 1
INVARIANT ListedVideosPlay
CHECK_DEADLOCK FALSE
