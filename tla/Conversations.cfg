CONSTANTS
    None = None
    p1 = p1
    p2 = p2
    Participants = {p1, p2}
    MaxId = 2
    MaxMessages = 2
    Hasty = FALSE
    MaxActions = 5
    MaxDeletes = 1
SPECIFICATION Spec
CHECK_DEADLOCK FALSE
INVARIANTS RightConversation NothingThrown CacheAgrees
