CONSTANTS
    NoKey = NoKey
    e1 = e1
    e2 = e2
    s1 = s1
    s2 = s2
    n1 = n1
    u1 = u1
    p1 = p1
    Encryption = {e1, e2}
    Signature = {s1, s2, n1}
    Invalid = {u1}
    NoPrivate = {n1}
    validFrom <- From
    validUntil <- Until
    First = {e1, n1, s1}
    Revocable = {s1}
    Msgs = {"good", "short", "broken", "malformed", "forged"}
    Form <- FormOf
    Signer <- OneSender
    Rows = {"r1"}
    MaxTime = 2
    MaxChanges = 3
    MaxFaults = 1
SPECIFICATION FairKeysSpec
INVARIANTS KeysTypeOK
PROPERTIES SkipsForAReason SignsWithNewest KeysArrive Handled
CHECK_DEADLOCK FALSE
