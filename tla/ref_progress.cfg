SPECIFICATION FairWatchedSpec
CONSTANTS
    Users <- OneUser
    RefIds <- TwoIds
    Keys <- OneKey
    Requests <- TwoRequests
    RestoreWindow = 1
    MaxTime = 1
    Nil = Nil
    u1 = u1
    id1 = id1
    id2 = id2
    k1 = k1
    r1 = r1
    r2 = r2
INVARIANTS
    DuplicatesHaveACause
PROPERTIES
    EveryRequestAnswered
