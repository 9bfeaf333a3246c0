CONSTANTS
    None = None
    Messages <- MCMessages
    Last = 2
    Offered <- MCOffered
    MaxFaults = 1
    MaxCrashes = 1
SPECIFICATION FairSpec
INVARIANTS AnnouncedIsWhole AllOrNothing
PROPERTY Fetched
