SPECIFICATION StreamSpec
CONSTANTS
    o1 = o1
    o2 = o2
    pool = pool
    ql = ql
    qw = qw
    qs = qs
    Queues = {ql, qw, qs}
    Pools = {pool}
    Objects = {o1, o2}
    Stock <- FrameStock
    PoolOf <- FramePool
    Acqs = {frames, config, live, writer, network}
    Closers = {}
    Values <- StreamFrames
    Blank = Blank
    NULL = NULL
    Spurious = TRUE
    Producers = {frames, config}
    Live = live
    Writer = writer
    Network = network
    LiveQueue = ql
    WriteQueue = qw
    SendQueue = qs
    MaxFrames = 2
CHECK_DEADLOCK FALSE
INVARIANTS FramesConserved
PROPERTIES ImplementsFrameFlow
