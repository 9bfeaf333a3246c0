CONSTANTS
    None = None
    Msgs = {1, 2}
    Recipients = {1, 2}
    Participants <- Both
    NoAccount = {}
    Unencodable = {}
    Removable = {2}
    MaxFaults = 0
SPECIFICATION Spec
PROPERTY PostsAreUnsent
