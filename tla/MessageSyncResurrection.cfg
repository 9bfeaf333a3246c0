CONSTANTS
    None = None
    m1 = m1
    m2 = m2
    m3 = m3
    Msgs = {m1}
    RemoteStates <- NewFormats
    Own = {}
    Undecodable = {}
    PageSize = 1
    ConcurrentUi = TRUE
    Budget <- SmallBudget
SPECIFICATION Spec
PROPERTY DeletedForever
CHECK_DEADLOCK FALSE
