CONSTANTS
    u1 = u1
    u2 = u2
    t1 = t1
    t2 = t2
    t3 = t3
    t4 = t4
    r1 = r1
    r2 = r2
    r3 = r3
    Nobody = Nobody
    Users <- TwoUsers
    Tokens <- FourTokens
    Handlers <- ThreeHandlers
    MaxLogins = 3
SYMMETRY Symmetry
SPECIFICATION AuthSpec
INVARIANTS
    OneChainPerLogin
CHECK_DEADLOCK FALSE
