SPECIFICATION FairSpec
CHECK_DEADLOCK FALSE
CONSTANTS
    a = a
    b = b
    Server = Server
    Unknown = Unknown
    Clients = {a, b}
    Nats <- Pairs
    MaxCmds = 3
INVARIANTS
    TypeOK
    PeersCanTalk
    OnlyCone
PROPERTY PunchSucceeds
