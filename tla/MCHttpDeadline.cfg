CONSTANTS
    conn1 = conn1
    conn2 = conn2
    Conns = {conn1, conn2}
    Threads = 1
    None = None
    Tick = Tick
    MaxChunks = 1
SPECIFICATION Spec
SYMMETRY Symmetry
INVARIANT WaitingHasDeadline
CHECK_DEADLOCK FALSE
