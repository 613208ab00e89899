SPECIFICATION Spec
CONSTANTS
    t1 = t1
    t2 = t2
    c1 = c1
    c2 = c2
    n1 = n1
    n2 = n2
    alice = alice
    bob = bob
    Request = {r1, r2}
    Agent = {alice}
    Token = {t1, t2}
    Challenge = {c1, c2}
    Nonce = {n1, n2}
    Body <- Asking
    Holder <- TokenHolder
    TokenExp <- Exps
    Subject <- Subjects
    Lease <- Leases
    ChallengeTtl = 2
    AuthTtl = 1
    Window = 1
    Limit = 1
    Stall = 2
    MaxTime = 3
    NoBody = NoBody
SYMMETRY Requests
INVARIANTS
    TypeOK
    AuthorizationsAreBacked
    ChallengeProvesOnce
    AuthorizationsWithinLimit
PROPERTIES
    ReuseOnlyAfterExpiry
CHECK_DEADLOCK FALSE
