SPECIFICATION Spec
CONSTANTS
    t1 = t1
    t2 = t2
    c1 = c1
    c2 = c2
    n1 = n1
    n2 = n2
    alice = alice
    bob = bob
    Request = {r1, r2, r3}
    Agent = {alice, bob}
    Token = {t1, t2}
    Challenge = {c1, c2}
    Nonce = {n1, n2}
    Body <- Redeeming
    Holder <- TokenHolder
    TokenExp <- Exps
    Subject <- Subjects
    Lease <- Leases
    ChallengeTtl = 2
    AuthTtl = 1
    Window = 2
    Limit = 2
    Stall = 1
    MaxTime = 2
    NoBody = NoBody
SYMMETRY Requests
INVARIANTS
    PaidOnceByOwner
PROPERTIES
    RevocationStopsPayment
CHECK_DEADLOCK FALSE
