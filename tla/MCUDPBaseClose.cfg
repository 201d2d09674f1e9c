SPECIFICATION FairNetSpec
CONSTANTS
    o1 = o1
    o2 = o2
    pool = pool
    qs = qs
    qr = qr
    qd = qd
    Queues = {qs, qr, qd}
    Pools = {pool}
    Objects = {o1, o2}
    Stock <- SharedStock
    PoolOf <- SharedPool
    Acqs = {doa_r, doa_s}
    Closers = {main}
    Values <- NetMessages
    Blank = Blank
    NULL = NULL
    Spurious = FALSE
    Listener = doa_r
    Sender = doa_s
    Users = {}
    Readers = {}
    Closer = main
    SendQueue = qs
    ReceiveQueue = qr
    Families = {"DATA"}
    QueueFor <- DataQueue
    MaxSends = 2
CHECK_DEADLOCK FALSE
PROPERTIES CloseStops
