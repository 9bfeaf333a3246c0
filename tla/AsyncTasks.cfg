CONSTANTS
    None = None
    p1 = p1
    p2 = p2
    t1 = t1
    Plain = {p1}
    Threads = {t1}
    PRUNING_THRESHOLD = 1
SPECIFICATION FairSpec
INVARIANTS TypeOK WaitMeansAll SignatureIsThere
PROPERTIES Answered WaitReturns
CHECK_DEADLOCK FALSE
