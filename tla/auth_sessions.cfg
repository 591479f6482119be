SPECIFICATION LogoutSpec
CONSTANTS
    Users <- TwoUsers
    Tokens <- ThreeTokens
    Requests <- TwoRequests
    Nil = Nil
    u1 = u1
    u2 = u2
    t1 = t1
    t2 = t2
    t3 = t3
    r1 = r1
    r2 = r2
SYMMETRY Symmetry
INVARIANTS
    TypeOK
    SpentTokensAreDead
    IdentityIsKept
    ExpiredAnswersAreTrue
    LogoutEndsSignIn
