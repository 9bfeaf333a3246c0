CONSTANTS
    None = None
    Msgs = {1, 2, 3}
    Recipients = {1, 2, 3}
    Participants <- Mixed
    NoAccount = {2}
    Unencodable = {3}
    Removable = {2}
    MaxFaults = 3
SPECIFICATION FairSpec
INVARIANTS DeliveredWasReceived AtMostOnce
PROPERTY Settles
