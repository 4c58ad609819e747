SPECIFICATION FairSpec
CONSTANTS
    u1 = u1
    u2 = u2
    k1 = k1
    k2 = k2
    k3 = k3
    Ws = Ws
    NoUser = NoUser
    Free = Free
    Users = {u1}
    Links = {k1, k2, k3}
    Peer <- OneDevice
    TcpId <- FirstIsWs
    NoFile = NoFile
    Cut = Cut
    LastFd = 8
    MaxTime = 1
    MaxImages = 2
INVARIANTS
    TypeOK
    FdTableSound
    ImagesSequential
    RelayWhileWsStays
PROPERTIES
    ImplementsRecorder
    LinkSettles
CHECK_DEADLOCK FALSE
