\* Both peers; links of devices break, and the TCP server dies.
\* The bounds on frames and connections end every behaviour.
SPECIFICATION FairSpec
CHECK_DEADLOCK FALSE
CONSTANTS
    K = 2
    Ends <- BothEnds
    MaxConns = 2
    MaxFrames = 2
INVARIANTS
    TypeOK
    UpInStep
    DownInStep
PROPERTIES
    LoopReturns
    BreakIsNoticed
