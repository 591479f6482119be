SPECIFICATION PageSignInSpec
CONSTANTS
    Users <- OneUser
    Tokens <- TwoTokens
    Requests <- TwoRequests
    Calls <- TwoCalls
    Nil = Nil
    Broken = Broken
    u1 = u1
    t1 = t1
    t2 = t2
    r1 = r1
    r2 = r2
    c1 = c1
    c2 = c2
SYMMETRY Symmetry
INVARIANTS
    PageTypeOK
    WaitersHaveARefresh
    CarriedOutOnce
    OneRefreshAtATime
PROPERTIES
    ImplementsLedger
