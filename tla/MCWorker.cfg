SPECIFICATION Spec
CONSTANTS
    o1 = o1
    o2 = o2
    p1 = p1
    p2 = p2
    q1 = q1
    q2 = q2
    Queues = {q1, q2}
    Pools = {p1, p2}
    Objects = {o1, o2}
    Stock <- TwoPools
    PoolOf <- OwnPools
    Acqs = {a1, a2}
    Closers = {c1}
    Values = {v1}
    Blank = Blank
    NULL = NULL
    Spurious = TRUE
SYMMETRY AcqSymmetry
INVARIANTS TypeOK OneOwner PoolsClean NullMeansClosed
PROPERTIES ImplementsStore
