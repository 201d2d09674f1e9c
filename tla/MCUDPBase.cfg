SPECIFICATION NetSpec
CONSTANTS
    o1 = o1
    o2 = o2
    pool = pool
    qs = qs
    qr = qr
    qd = qd
    Queues = {qs, qr, qd}
    Pools = {pool}
    Objects = {o1, o2}
    Stock <- SharedStock
    PoolOf <- SharedPool
    Acqs = {doa_r, doa_s, u1, k1}
    Closers = {main}
    Values <- NetMessages
    Blank = Blank
    NULL = NULL
    Spurious = TRUE
    Listener = doa_r
    Sender = doa_s
    Users = {u1}
    Readers = {k1}
    Closer = main
    SendQueue = qs
    ReceiveQueue = qr
    Families = {"DATA", "OTHER"}
    QueueFor <- DataQueue
    MaxSends = 2
CHECK_DEADLOCK FALSE
INVARIANTS QueuesDoNotCross SentOnceInOrder ListenerHasBuffer
PROPERTIES ImplementsSendLine
