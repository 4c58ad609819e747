SPECIFICATION FairSpec
CONSTANTS
    LastFd = 10
    Backlog = 3
    MaxFaults = 4
INVARIANTS
    TypeOK
    RelayFindsWs
    OneLivePerPeer
PROPERTY Recovers
