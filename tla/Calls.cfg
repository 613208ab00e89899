CONSTANTS
  r1 = r1
  a1 = a1
  n1 = n1
  d1 = d1
  d2 = d2
  Request = {r1, r2}
  Agent = {a1}
  Nonce = {n1}
  Digest = {d1, d2}
  Call <- Calls
  Unit = 2
  Skew = 2
  Grace = 2
  Stall = 2
  MaxTime = 8
  Enforce <- Enforcing
  AcceptDpop = TRUE
  LogFails = TRUE
  Lease <- LeaseOf
  NoCall = NoCall
SPECIFICATION Spec
INVARIANTS TypeOK VerifiedOnce
PROPERTIES InactiveNeverVerified
CHECK_DEADLOCK FALSE
