CONSTANTS
  t1 = t1
  t2 = t2
  s1 = s1
  s2 = s2
  n1 = n1
  n2 = n2
  Request = {r1, r2, r3}
  Tenant = {t1, t2}
  Signer = {s1, s2}
  Nonce = {n1, n2}
  Envelope <- Envelopes
  Lease <- LeaseOf
  PoolSize = 2
  Stall = 1
  MaxTime = 2
  Genesis = Genesis
  Nobody = Nobody
SPECIFICATION Spec
INVARIANTS TypeOK ReceiptsLinkBack
PROPERTIES ReuseOnlyAfterExpiry
SYMMETRY Requests
CHECK_DEADLOCK FALSE
