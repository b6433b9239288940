CONSTANTS
    conn1 = conn1
    conn2 = conn2
    conn3 = conn3
    Conns = {conn1, conn2, conn3}
    Threads = 2
    None = None
    Tick = Tick
    MaxChunks = 1
SPECIFICATION Spec
SYMMETRY Symmetry
INVARIANTS
    TypeOK
    OneContinuation
    DeadlineHasOwner
PROPERTY
    ImplementsWorkerPool
CHECK_DEADLOCK FALSE
