SPECIFICATION Spec
CONSTANTS
    Users <- OneUser
    RefIds <- OneId
    Keys <- OneKey
    Requests <- TwoRequests
    RestoreWindow = 1
    MaxTime = 1
    Nil = Nil
    u1 = u1
    u2 = u2
    id1 = id1
    id2 = id2
    k1 = k1
    r1 = r1
    r2 = r2
    r3 = r3
INVARIANTS
    DeletedRowsAreRestorable
