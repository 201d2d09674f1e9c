SPECIFICATION TestSpec
CONSTANTS
    o1 = o1
    o2 = o2
    pool = pool
    qs = qs
    qr = qr
    inA = inA
    inB = inB
    Queues = {qs, qr, inA, inB}
    Pools = {pool}
    Objects = {o1, o2}
    Stock <- SharedStock
    PoolOf <- SharedPool
    Acqs = {doa_r, doa_s, doa}
    Closers = {client}
    Values <- TestMessages
    Blank = Blank
    NULL = NULL
    Spurious = FALSE
    Listener = doa_r
    Sender = doa_s
    Users = {}
    Readers = {}
    Closer = client
    SendQueue = qs
    ReceiveQueue = qr
    Families = {"A", "B"}
    QueueFor <- TestQueues
    MaxSends = 0
    Doa = doa
    TypeA = "A"
    TypeB = "B"
    Runs = 2
CHECK_DEADLOCK FALSE
INVARIANTS AssertsHold CountedIsOnTheWay NothingOutlivesThePool
