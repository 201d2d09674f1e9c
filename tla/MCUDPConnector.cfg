SPECIFICATION FairSpec
CONSTANTS
    p1 = p1
    Peers = {p1}
    Defaults <- OneDefault
    PoolSize = 2
    UseMM = TRUE
    RegisterInterval = 0
    HBInterval = 0
    Broadcasts = TRUE
    Spurious = {"sender"}
CHECK_DEADLOCK FALSE
INVARIANTS BuffersConserved
PROPERTIES NoEarlyHeartbeat HeartbeatsGoOn ImplementsPeerTable
