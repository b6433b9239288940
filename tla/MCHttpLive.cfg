CONSTANTS
    conn1 = conn1
    conn2 = conn2
    Conns = {conn1, conn2}
    Threads = 1
    None = None
    Tick = Tick
    MaxChunks = 2
SPECIFICATION FairSpec
PROPERTY
    RequestTaken
CHECK_DEADLOCK FALSE
