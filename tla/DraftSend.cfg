CONSTANTS
    None = None
    c1 = c1
    c2 = c2
    short = short
    long = long
    Empty = ""
    Convs = {c1}
    Texts = {short, long}
    Large = {long}
    MaxAtts = 2
    Careful = TRUE
    MaxSends = 2
    MaxFaults = 1
SPECIFICATION FairSpec
INVARIANTS TypeOK SentAsAsked StoredIsPosted
PROPERTIES NothingLost Sends
CHECK_DEADLOCK FALSE
