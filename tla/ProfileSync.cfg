CONSTANTS
    None = None
    k1 = k1
    k2 = k2
    v1 = v1
    v2 = v2
    Default = ""
    Keys = {k1, k2}
    Values = {v1, v2}
    Hasty = FALSE
    MaxRemote = 2
    MaxLocal = 2
    MaxFaults = 1
SPECIFICATION FairSpec
INVARIANTS CursorSkipsNothing SameVersionSameValue ShownIsStored
PROPERTIES PushedOrOverwritten Converges
