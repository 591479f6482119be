SPECIFICATION FairPageSpec
CONSTANTS
    Users <- OneUser
    Tokens <- TwoTokens
    Requests <- OneRequest
    Calls <- TwoCalls
    Nil = Nil
    Broken = Broken
    u1 = u1
    t1 = t1
    t2 = t2
    r1 = r1
    r2 = r2
    c1 = c1
    c2 = c2
PROPERTIES
    EveryCallEnds
    BootDecides
