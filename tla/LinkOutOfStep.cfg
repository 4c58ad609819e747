\* The WS server, across a restart of the TCP server.
SPECIFICATION Spec
CHECK_DEADLOCK FALSE
CONSTANTS
    K = 2
    Ends <- WsEnd
    MaxConns = 2
    MaxFrames = 2
INVARIANT UpIntact
