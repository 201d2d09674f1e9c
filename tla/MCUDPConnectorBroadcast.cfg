SPECIFICATION TurnsSpec
CONSTANTS
    p1 = p1
    Peers = {p1}
    Defaults <- OneDefault
    PoolSize = 3
    UseMM = FALSE
    RegisterInterval = 0
    HBInterval = 0
    Broadcasts = TRUE
    Spurious = {}
CHECK_DEADLOCK FALSE
PROPERTIES HeartbeatsDespiteBroadcasts
