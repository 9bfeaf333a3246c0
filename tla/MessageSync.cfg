CONSTANTS
    None = None
    m1 = m1
    m2 = m2
    m3 = m3
    Msgs = {m1, m2, m3}
    RemoteStates <- AllFormats
    Own = {m3}
    Undecodable = {m2}
    PageSize = 1
    ConcurrentUi = FALSE
    Budget <- SmallBudget
SPECIFICATION FairSpec
INVARIANTS TypeOK VersionsAreTrue NothingUnseen CacheIsCurrent
PROPERTIES DeletedForever LocalModificationWins Converges SyncEnds
CHECK_DEADLOCK FALSE
