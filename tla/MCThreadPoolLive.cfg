SPECIFICATION FairSpec
CONSTANTS
    CLIENTS = 2
    Conns = {c1, c2, c3}
    t0 = t0
    t1 = t1
    h0 = h0
    h1 = h1
    TidsN = {t2, t3}
    HandlesN = {h2}
    Tids <- MCTids
    Handles <- MCHandles
    thread0 <- MCThread0
    handle0 <- MCHandle0
    Null = Null
    NoThread = NoThread
CHECK_DEADLOCK FALSE
PROPERTY
    EveryConnectionIsSettled
