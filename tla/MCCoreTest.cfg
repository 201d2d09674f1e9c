SPECIFICATION FairTestSpec
CONSTANTS
    o1 = o1
    o2 = o2
    p1 = p1
    q1 = q1
    k1 = k1
    k2 = k2
    x1 = x1
    x2 = x2
    Queues = {q1}
    Pools = {p1}
    Objects = {o1, o2}
    Stock <- TestStock
    PoolOf <- TestPool
    Acqs = {doa, k1, k2, x1, x2}
    Closers = {main}
    Values = {}
    Blank = Blank
    NULL = NULL
    Spurious = TRUE
    Producer = doa
    Consumers = {k1, k2}
    XOf <- TestX
    Main = main
    Worker1 = q1
    Runs = 4
CHECK_DEADLOCK FALSE
INVARIANTS EachIdOnceInOrder EndsClean NoAbort
PROPERTIES EnqueuedIsRead
