CONSTANTS
    None = None
    a1 = a1
    a2 = a2
    t1 = t1
    t2 = t2
    t3 = t3
    Msgs = {a1, a2}
    Threads = {t1, t2}
    Hasty = FALSE
SPECIFICATION FairSpec
INVARIANTS FullSyncIsFull
PROPERTIES ImplementsService Served
