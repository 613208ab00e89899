------------------------ MODULE CallSignatureProofs ------------------------
(***************************************************************************)
(* No signed call is verified twice, provided a request spends at most     *)
(* Grace - 1 seconds between its skew check and its nonce insert.          *)
(*                                                                         *)
(* VerifiedOnce alone is not inductive: nothing in it says why the nonce   *)
(* of a verified call is still in the table when a second delivery         *)
(* inserts it.  IInv adds that the row is kept until its expiry has        *)
(* passed, and that a request on its way to the insert passed the skew     *)
(* check at most Stall ago; the arithmetic of NonceExp then shows that no  *)
(* such request can come after the expiry.                                 *)
(***************************************************************************)
EXTENDS CallSignature, TLAPS

GraceCoversStall == Stall <= (Grace - 1) * Unit

InFlightIsFresh ==
    \A r \in Request : pc[r] \in {"timely", "checked"} =>
        /\ clock[r] <= now /\ now <= clock[r] + Stall
        /\ clock[r] - call[r].ts <= Skew

SpentIsKept ==
    \A r \in Request : pc[r] = "verified" =>
        \/ \E n \in nonces : n.key = NonceKey(call[r]) /\ n.exp >= NonceExp(call[r])
        \/ NonceExp(call[r]) < Secs(now)

CarriesCall == \A r \in Request : pc[r] # "new" => call[r] \in Call

IInv == TypeOK /\ CarriesCall /\ InFlightIsFresh /\ SpentIsKept /\ VerifiedOnce

-----------------------------------------------------------------------------
(* Rounding to seconds.                                                    *)

(* Secs(x) is the integer part of x / Unit. *)
LEMMA SecsBounds ==
    ASSUME NEW x \in Nat
    PROVE  Secs(x) \in Nat /\ Unit * Secs(x) <= x /\ x < Unit * Secs(x) + Unit
BY CallConstants DEF Secs

(* A nonce outlives every request that passed the skew check: at most      *)
(* Stall later the clock still does not exceed the stored expiry.          *)
LEMMA ExpiryCoversWindow ==
    ASSUME GraceCoversStall, NEW c \in Call, NEW t \in Nat, t <= c.ts + Skew + Stall
    PROVE  Secs(t) <= NonceExp(c)
<1> USE CallConstants
<1>0. c.ts \in Nat
  BY Zenon DEF CallType
<1> DEFINE ts == c.ts
<1>1. Secs(ts) \in Nat /\ ts < Unit * Secs(ts) + Unit
  BY Zenon, <1>0, SecsBounds
<1>2. Secs(Skew) \in Nat /\ Skew < Unit * Secs(Skew) + Unit
  BY Zenon, SecsBounds
<1>3. Secs(t) \in Nat /\ Unit * Secs(t) <= t
  BY Zenon, SecsBounds
<1> HIDE DEF ts
<1>4. t <= ts + Skew + (Grace - 1) * Unit
  BY <1>0 DEF GraceCoversStall, ts
<1>5. Unit * Secs(t) < Unit * (Secs(ts) + Secs(Skew) + Grace + 1)
  <2>1. ts \in Nat
    BY Zenon, <1>0 DEF ts
  <2> DEFINE a == Unit * Secs(ts)
             b == Unit * Secs(Skew)
             g == Unit * Grace
             x == Unit * Secs(t)
  <2>2. a \in Nat /\ b \in Nat /\ g \in Nat /\ x \in Nat
    BY <1>1, <1>2, <1>3
  <2>3. (Grace - 1) * Unit = g - Unit
    OBVIOUS
  <2>4. Unit * (Secs(ts) + Secs(Skew) + Grace + 1) = a + b + g + Unit
    BY <1>1, <1>2
  <2>5. ts < a + Unit /\ Skew < b + Unit /\ x <= t
    BY Zenon, <1>1, <1>2, <1>3
  <2> HIDE DEF a, b, g, x
  <2>6. x < a + b + g + Unit
    BY <1>4, <2>1, <2>2, <2>3, <2>5
  <2> QED
    BY Zenon, <2>4, <2>6 DEF x
<1>6. Secs(t) < Secs(ts) + Secs(Skew) + Grace + 1
  BY <1>1, <1>2, <1>3, <1>5
<1> QED
  BY <1>1, <1>2, <1>3, <1>6 DEF NonceExp, ts

-----------------------------------------------------------------------------
(* Type correctness.                                                       *)

(* The error arm answers the request and touches only the denied log. *)
LEMMA RejectTyped ==
    ASSUME TypeOK, NEW r \in Request, Reject(r)
    PROVE  /\ denied' \subseteq Request
           /\ \E a \in {"refused", "unverified"} : pc' = [pc EXCEPT ![r] = a]
BY Zenon DEF Reject, LogDenied, TypeOK

(* A request that moves on, and writes at most its clock reading and the     *)
(* denied log, keeps the types.                                            *)
LEMMA MoveTyped ==
    ASSUME TypeOK, CarriesCall, NEW r \in Request, pc[r] # "new", NEW a \in Step,
           pc' = [pc EXCEPT ![r] = a], denied' \subseteq Request,
           clock' \in [Request -> 0..MaxTime], UNCHANGED <<now, agents, nonces, call>>
    PROVE  TypeOK' /\ CarriesCall'
<1>1. pc' \in [Request -> Step]
  BY Zenon DEF TypeOK
<1>2. CarriesCall'
  <2> SUFFICES ASSUME NEW s \in Request, pc'[s] # "new"
               PROVE  call[s] \in Call
    BY Zenon DEF CarriesCall
  <2>1. pc[s] # "new"
    BY Zenon DEF TypeOK
  <2> QED
    BY Zenon, <2>1 DEF CarriesCall
<1> QED
  BY Zenon, <1>1, <1>2 DEF TypeOK

(* So does a request that is rejected. *)
LEMMA RejectKeepsTypes ==
    ASSUME TypeOK, CarriesCall, NEW r \in Request, pc[r] # "new", Reject(r),
           UNCHANGED <<now, agents, nonces, call, clock>>
    PROVE  TypeOK' /\ CarriesCall'
<1>1. PICK a \in {"refused", "unverified"} : pc' = [pc EXCEPT ![r] = a]
  BY Zenon, RejectTyped
<1>2. a \in Step /\ denied' \subseteq Request
  BY Zenon, RejectTyped DEF Step, Answered
<1>3. clock' \in [Request -> 0..MaxTime]
  BY Zenon DEF TypeOK
<1> QED
  BY Zenon, <1>1, <1>2, <1>3, MoveTyped

(* Every step keeps the types. *)
LEMMA TypeStep == TypeOK /\ CarriesCall /\ [Next]_vars => TypeOK' /\ CarriesCall'
<1> SUFFICES ASSUME TypeOK, CarriesCall, [Next]_vars
             PROVE  TypeOK' /\ CarriesCall'
  BY Zenon
<1>1. ASSUME NEW r \in Request, NEW c \in Call, Arrive(r, c)
      PROVE  TypeOK' /\ CarriesCall'
  BY Zenon, <1>1 DEF Arrive, TypeOK, CarriesCall, Step
<1>2. ASSUME NEW r \in Request, MissingHeaders(r)
      PROVE  TypeOK' /\ CarriesCall'
  <2>1. pc[r] # "new" /\ Reject(r) /\ UNCHANGED <<now, agents, nonces, call, clock>>
    BY Zenon, <1>2 DEF MissingHeaders
  <2> QED
    BY Zenon, <2>1, RejectKeepsTypes
<1>3. ASSUME NEW r \in Request, CheckClock(r)
      PROVE  TypeOK' /\ CarriesCall'
  <2>n. pc[r] # "new" /\ UNCHANGED <<now, agents, nonces, call>>
    BY Zenon, <1>3 DEF CheckClock
  <2>1. CASE TimelyAt(call[r], now)
    <3>1. /\ pc' = [pc EXCEPT ![r] = IF call[r].scheme = "dpop" THEN "checked" ELSE "timely"]
          /\ clock' = [clock EXCEPT ![r] = now]
          /\ UNCHANGED denied
      BY Zenon, <1>3, <2>1 DEF CheckClock
    <3>2. PICK a \in {"checked", "timely"} : pc' = [pc EXCEPT ![r] = a]
      BY Zenon, <3>1
    <3>3. clock' \in [Request -> 0..MaxTime]
      BY Zenon, <3>1 DEF TypeOK
    <3>4. a \in Step /\ denied' \subseteq Request
      BY Zenon, <3>1 DEF TypeOK, Step
    <3> QED
      BY Zenon, <2>n, <3>2, <3>3, <3>4, MoveTyped
  <2>2. CASE ~TimelyAt(call[r], now)
    <3>1. Reject(r) /\ UNCHANGED clock
      BY Zenon, <1>3, <2>2 DEF CheckClock
    <3> QED
      BY Zenon, <2>n, <3>1, RejectKeepsTypes
  <2> QED
    BY Zenon, <2>1, <2>2
<1>4. ASSUME NEW r \in Request, ReadAgent(r)
      PROVE  TypeOK' /\ CarriesCall'
  <2>n. pc[r] # "new" /\ UNCHANGED <<now, agents, nonces, call, clock>>
    BY Zenon, <1>4 DEF ReadAgent
  <2>1. CASE Reject(r)
    BY Zenon, <2>n, <2>1, RejectKeepsTypes
  <2>2. CASE \E a \in {"known", "checked"} : pc' = [pc EXCEPT ![r] = a] /\ UNCHANGED denied
    <3>1. PICK a \in {"known", "checked"} : pc' = [pc EXCEPT ![r] = a] /\ UNCHANGED denied
      BY Zenon, <2>2
    <3>2. a \in Step /\ denied' \subseteq Request /\ clock' \in [Request -> 0..MaxTime]
      BY Zenon, <2>n, <3>1 DEF TypeOK, Step
    <3> QED
      BY Zenon, <2>n, <3>1, <3>2, MoveTyped
  <2> QED
    BY Zenon, <1>4, <2>1, <2>2 DEF ReadAgent
<1> USE CallConstants DEF TypeOK, CarriesCall, Step, Answered
<1>5. ASSUME NEW r \in Request, ConsumeNonce(r)
      PROVE  TypeOK' /\ CarriesCall'
  <2>1. call[r] \in Call /\ call[r] \in CallType
    BY Zenon, <1>5 DEF ConsumeNonce
  <2>2. NonceKey(call[r]) \in Agent \X Scheme \X Nonce
    BY Zenon, <2>1 DEF NonceKey, CallType
  <2>3. NonceExp(call[r]) \in Int
    BY <2>1 DEF NonceExp, CallType, Secs
  <2>4. nonces' \subseteq [key : Agent \X Scheme \X Nonce, exp : Int]
    BY <1>5, <2>2, <2>3 DEF ConsumeNonce
  <2> QED
    BY Zenon, <1>5, <2>4 DEF ConsumeNonce
<1>6. ASSUME NEW r \in Request, NonceRefused(r)
      PROVE  TypeOK' /\ CarriesCall'
  <2>1. pc[r] # "new" /\ Reject(r) /\ UNCHANGED <<now, agents, nonces, call, clock>>
    BY Zenon, <1>6 DEF NonceRefused
  <2> QED
    BY Zenon, <2>1, RejectKeepsTypes
<1>7. CASE CollectNonces
  BY Zenon, <1>7 DEF CollectNonces
<1>8. ASSUME NEW a \in Agent, Revoke(a)
      PROVE  TypeOK' /\ CarriesCall'
  BY Zenon, <1>8 DEF Revoke
<1>9. ASSUME NEW a \in Agent, NEW d \in Digest, UpdateChecksum(a, d)
      PROVE  TypeOK' /\ CarriesCall'
  BY Zenon, <1>9 DEF UpdateChecksum
<1>10. CASE Crash
  BY Zenon, <1>10 DEF Crash
<1>11. CASE Tick
  BY <1>11 DEF Tick
<1>12. CASE UNCHANGED vars
  BY Zenon, <1>12 DEF vars
<1> QED
  BY Zenon, <1>1, <1>2, <1>3, <1>4, <1>5, <1>6, <1>7, <1>8, <1>9, <1>10, <1>11, <1>12
  DEF Next, RequestStep

(* The initial state is well typed. *)
LEMMA TypeInit == Init => TypeOK /\ CarriesCall
<1> SUFFICES ASSUME Init PROVE TypeOK /\ CarriesCall
  BY Zenon
<1>1. agents \in [Agent -> [revoked : BOOLEAN, digest : Digest]]
  <2>1. [revoked : {FALSE}, digest : Digest] \subseteq [revoked : BOOLEAN, digest : Digest]
    BY Zenon
  <2> QED
    BY Zenon, <2>1 DEF Init
<1>2. now \in 0..MaxTime /\ clock \in [Request -> 0..MaxTime]
  BY CallConstants DEF Init
<1> QED
  BY Zenon, <1>1, <1>2 DEF Init, TypeOK, CarriesCall, Step

(* The variables of the middleware keep their types. *)
THEOREM TypeCorrect == Spec => []TypeOK
<1> QED
  BY TypeInit, TypeStep, PTL DEF Spec

-----------------------------------------------------------------------------
(* At most one verified delivery.                                          *)

(* A request that inserts its nonce does so before the nonce's expiry, so  *)
(* no earlier verified delivery of the same call can have lost its row.    *)
LEMMA InsertIsFirst ==
    ASSUME GraceCoversStall, IInv, NEW s \in Request, pc[s] = "checked", ~Spent(call[s]),
           NEW r \in Request, pc[r] = "verified", NonceKey(call[r]) = NonceKey(call[s])
    PROVE  call[r].ts # call[s].ts
<1> USE CallConstants DEF IInv
<1>1. call[r] \in Call /\ call[s] \in Call
  BY Zenon DEF CarriesCall
<1>2. NonceExp(call[r]) < Secs(now)
  BY Zenon DEF SpentIsKept, Spent
<1>3. call[s].ts \in Nat /\ now \in Nat /\ clock[s] \in Nat
  BY <1>1 DEF TypeOK, CallType
<1>4. now <= call[s].ts + Skew + Stall
  BY <1>3 DEF InFlightIsFresh
<1>5. Secs(now) <= NonceExp(call[s])
  BY Zenon, <1>1, <1>3, <1>4, ExpiryCoversWindow
<1>6. NonceExp(call[s]) \in Int /\ NonceExp(call[r]) \in Int /\ Secs(now) \in Int
  BY <1>1, <1>3, SecsBounds DEF NonceExp, CallType
<1>7. NonceExp(call[r]) # NonceExp(call[s])
  BY <1>2, <1>5, <1>6
<1> QED
  BY Zenon, <1>7 DEF NonceExp

(* Answering a request without verifying it keeps the invariant. *)
LEMMA RejectKeeps ==
    ASSUME IInv, NEW r \in Request, pc[r] # "verified", Reject(r),
           UNCHANGED <<now, nonces, call, clock>>
    PROVE  InFlightIsFresh' /\ SpentIsKept' /\ VerifiedOnce'
<1>1. PICK a \in {"refused", "unverified"} : pc' = [pc EXCEPT ![r] = a]
  BY Zenon, RejectTyped DEF IInv
<1> USE DEF IInv, TypeOK
<1>2. InFlightIsFresh'
  BY Zenon, <1>1 DEF InFlightIsFresh
<1>3. SpentIsKept'
  BY Zenon, <1>1 DEF SpentIsKept
<1>4. VerifiedOnce'
  BY Zenon, <1>1 DEF VerifiedOnce
<1> QED
  BY Zenon, <1>2, <1>3, <1>4

(* Every step keeps the inductive invariant. *)
LEMMA IInvStep ==
    ASSUME GraceCoversStall, IInv, [Next]_vars
    PROVE  IInv'
<1> USE CallConstants
<1>0. TypeOK' /\ CarriesCall'
  BY Zenon, TypeStep DEF IInv
<1>t. TypeOK /\ CarriesCall /\ InFlightIsFresh /\ SpentIsKept /\ VerifiedOnce
  BY Zenon DEF IInv
<1> SUFFICES InFlightIsFresh' /\ SpentIsKept' /\ VerifiedOnce'
  BY Zenon, <1>0 DEF IInv
<1>1. ASSUME NEW r \in Request, NEW c \in Call, Arrive(r, c)
      PROVE  InFlightIsFresh' /\ SpentIsKept' /\ VerifiedOnce'
  <2>1. InFlightIsFresh'
    BY Zenon, <1>1, <1>t DEF Arrive, InFlightIsFresh, TypeOK
  <2>2. SpentIsKept'
    BY Zenon, <1>1, <1>t DEF Arrive, SpentIsKept, TypeOK
  <2>3. VerifiedOnce'
    BY Zenon, <1>1, <1>t DEF Arrive, VerifiedOnce, TypeOK
  <2> QED
    BY Zenon, <2>1, <2>2, <2>3
<1>2. ASSUME NEW r \in Request, MissingHeaders(r)
      PROVE  InFlightIsFresh' /\ SpentIsKept' /\ VerifiedOnce'
  BY Zenon, <1>2, RejectKeeps DEF MissingHeaders
<1>3. ASSUME NEW r \in Request, CheckClock(r)
      PROVE  InFlightIsFresh' /\ SpentIsKept' /\ VerifiedOnce'
  <2>1. CASE TimelyAt(call[r], now)
    <3>1. PICK a \in {"timely", "checked"} : pc' = [pc EXCEPT ![r] = a]
      BY Zenon, <1>3, <2>1 DEF CheckClock
    <3>2. clock' = [clock EXCEPT ![r] = now] /\ UNCHANGED <<now, nonces, call>>
      BY Zenon, <1>3, <2>1 DEF CheckClock
    <3>3. pc[r] # "verified" /\ now \in Nat
      BY <1>3, <1>t DEF CheckClock, TypeOK
    <3>4. InFlightIsFresh'
      BY <1>t, <2>1, <3>1, <3>2, <3>3 DEF InFlightIsFresh, TypeOK, TimelyAt
    <3>5. SpentIsKept'
      BY Zenon, <1>t, <3>1, <3>2, <3>3 DEF SpentIsKept, TypeOK
    <3>6. VerifiedOnce'
      BY Zenon, <1>t, <3>1, <3>2, <3>3 DEF VerifiedOnce, TypeOK
    <3> QED
      BY Zenon, <3>4, <3>5, <3>6
  <2>2. CASE ~TimelyAt(call[r], now)
    BY Zenon, <1>3, <2>2, RejectKeeps DEF CheckClock
  <2> QED
    BY Zenon, <2>1, <2>2
<1>4. ASSUME NEW r \in Request, ReadAgent(r)
      PROVE  InFlightIsFresh' /\ SpentIsKept' /\ VerifiedOnce'
  <2>1. CASE Reject(r)
    BY Zenon, <1>4, <2>1, RejectKeeps DEF ReadAgent
  <2>2. CASE pc' = [pc EXCEPT ![r] = IF call[r].scheme = "dpop" THEN "known" ELSE "checked"]
    <3>1. \/ pc[r] = "timely" /\ \E a \in {"known", "checked"} : pc' = [pc EXCEPT ![r] = a]
          \/ pc' = [pc EXCEPT ![r] = "known"]
      BY Zenon, <1>4, <2>2 DEF ReadAgent
    <3>2. pc[r] # "verified" /\ UNCHANGED <<now, nonces, call, clock>>
      BY Zenon, <1>4, <1>t DEF ReadAgent
    <3>3. InFlightIsFresh'
      BY Zenon, <1>t, <3>1, <3>2 DEF InFlightIsFresh, TypeOK
    <3>4. SpentIsKept'
      BY Zenon, <1>t, <3>1, <3>2 DEF SpentIsKept, TypeOK
    <3>5. VerifiedOnce'
      BY Zenon, <1>t, <3>1, <3>2 DEF VerifiedOnce, TypeOK
    <3> QED
      BY Zenon, <3>3, <3>4, <3>5
  <2> QED
    BY Zenon, <1>4, <2>1, <2>2 DEF ReadAgent
<1>5. ASSUME NEW s \in Request, ConsumeNonce(s)
      PROVE  InFlightIsFresh' /\ SpentIsKept' /\ VerifiedOnce'
  <2>1. PICK a \in {"verified", "refused"} : pc' = [pc EXCEPT ![s] = a]
    BY Zenon, <1>5 DEF ConsumeNonce
  <2>2. /\ pc[s] = "checked" /\ ~Spent(call[s]) /\ UNCHANGED <<now, call, clock>>
        /\ nonces' = nonces \cup {[key |-> NonceKey(call[s]), exp |-> NonceExp(call[s])]}
    BY Zenon, <1>5 DEF ConsumeNonce
  <2>3. InFlightIsFresh'
    BY Zenon, <1>t, <2>1, <2>2 DEF InFlightIsFresh, TypeOK
  <2>4. SpentIsKept'
    <3> SUFFICES ASSUME NEW r \in Request, pc'[r] = "verified"
                 PROVE  \/ \E n \in nonces' : n.key = NonceKey(call[r]) /\ n.exp >= NonceExp(call[r])
                        \/ NonceExp(call[r]) < Secs(now)
      BY Zenon, <2>2 DEF SpentIsKept, NonceExp, NonceKey, Secs
    <3>1. CASE r = s
      <4>1. NonceExp(call[s]) \in Int
        <5>1. call[s] \in CallType
          BY Zenon, <1>t, <2>2 DEF CarriesCall
        <5> QED
          BY <5>1, SecsBounds DEF NonceExp, CallType
      <4> DEFINE n == [key |-> NonceKey(call[s]), exp |-> NonceExp(call[s])]
      <4>2. n \in nonces' /\ n.key = NonceKey(call[r]) /\ n.exp = NonceExp(call[r])
        BY Zenon, <2>2, <3>1
      <4>3. n.exp >= NonceExp(call[r])
        BY <3>1, <4>1, <4>2
      <4> QED
        BY Zenon, <4>2, <4>3
    <3>2. CASE r # s
      <4>1. pc[r] = "verified"
        BY Zenon, <1>t, <2>1, <3>2 DEF TypeOK
      <4> QED
        BY Zenon, <1>t, <2>2, <4>1 DEF SpentIsKept
    <3> QED
      BY Zenon, <3>1, <3>2
  <2>5. VerifiedOnce'
    <3>1. \A r \in Request : pc[r] = "verified" /\ NonceKey(call[r]) = NonceKey(call[s])
             => call[r].ts # call[s].ts
      BY Zenon, <2>2, InsertIsFirst
    <3> SUFFICES ASSUME NEW r \in Request, NEW q \in Request, r # q,
                        pc'[r] = "verified", pc'[q] = "verified",
                        NonceKey(call[r]) = NonceKey(call[q])
                 PROVE  call[r].ts # call[q].ts
      BY Zenon, <2>2 DEF VerifiedOnce, NonceKey
    <3>2. \A x \in Request \ {s} : pc'[x] = pc[x]
      BY Zenon, <1>t, <2>1 DEF TypeOK
    <3>3. CASE r = s
      BY Zenon, <3>1, <3>2, <3>3
    <3>4. CASE q = s
      BY Zenon, <3>1, <3>2, <3>4
    <3>5. CASE r # s /\ q # s
      BY Zenon, <1>t, <3>2, <3>5 DEF VerifiedOnce
    <3> QED
      BY Zenon, <3>3, <3>4, <3>5
  <2> QED
    BY Zenon, <2>3, <2>4, <2>5
<1>6. ASSUME NEW r \in Request, NonceRefused(r)
      PROVE  InFlightIsFresh' /\ SpentIsKept' /\ VerifiedOnce'
  BY Zenon, <1>6, RejectKeeps DEF NonceRefused
<1>7. CASE CollectNonces
  <2>1. SpentIsKept'
    <3> SUFFICES ASSUME NEW r \in Request, pc[r] = "verified"
                 PROVE  \/ \E n \in nonces' : n.key = NonceKey(call[r]) /\ n.exp >= NonceExp(call[r])
                        \/ NonceExp(call[r]) < Secs(now)
      BY Zenon, <1>7 DEF CollectNonces, SpentIsKept, NonceExp, NonceKey, Secs
    <3>1. NonceExp(call[r]) \in Int /\ Secs(now) \in Int
      <4>1. call[r] \in CallType
        BY Zenon, <1>t DEF CarriesCall
      <4> QED
        BY <1>t, <4>1, SecsBounds DEF NonceExp, CallType, TypeOK
    <3>2. \A n \in nonces : n.exp \in Int
      BY Zenon, <1>t DEF TypeOK
    <3> QED
      BY <1>7, <1>t, <3>1, <3>2 DEF CollectNonces, SpentIsKept
  <2>2. InFlightIsFresh' /\ VerifiedOnce'
    BY Zenon, <1>7, <1>t DEF CollectNonces, InFlightIsFresh, VerifiedOnce, NonceKey
  <2> QED
    BY Zenon, <2>1, <2>2
<1>8. ASSUME UNCHANGED <<now, nonces, pc, call, clock>>
      PROVE  InFlightIsFresh' /\ SpentIsKept' /\ VerifiedOnce'
  BY Zenon, <1>8, <1>t DEF InFlightIsFresh, SpentIsKept, VerifiedOnce, NonceKey, NonceExp, Secs
<1>9. CASE Crash
  <2>1. /\ \A r \in Request : pc'[r] = pc[r] \/ pc'[r] = "lost"
        /\ UNCHANGED <<now, nonces, call, clock>>
    BY Zenon, <1>9 DEF Crash
  <2>2. InFlightIsFresh'
    BY Zenon, <1>t, <2>1 DEF InFlightIsFresh
  <2>3. SpentIsKept'
    BY Zenon, <1>t, <2>1 DEF SpentIsKept, NonceKey, NonceExp, Secs
  <2>4. VerifiedOnce'
    <3> SUFFICES ASSUME NEW r \in Request, NEW s \in Request, r # s,
                        pc'[r] = "verified", pc'[s] = "verified",
                        NonceKey(call[r]) = NonceKey(call[s])
                 PROVE  call[r].ts # call[s].ts
      BY Zenon, <2>1 DEF VerifiedOnce, NonceKey
    <3>1. pc[r] = "verified" /\ pc[s] = "verified"
      BY Zenon, <2>1
    <3> QED
      BY Zenon, <1>t, <3>1 DEF VerifiedOnce
  <2> QED
    BY Zenon, <2>2, <2>3, <2>4
<1>10. CASE Tick
  <2>1. InFlightIsFresh'
    BY <1>10, <1>t DEF Tick, InFlightIsFresh, TypeOK
  <2>2. VerifiedOnce'
    BY Zenon, <1>10, <1>t DEF Tick, VerifiedOnce, NonceKey
  <2>3. SpentIsKept'
    <3> SUFFICES ASSUME NEW r \in Request, pc[r] = "verified", NonceExp(call[r]) < Secs(now)
                 PROVE  NonceExp(call[r]) < Secs(now + 1)
      BY Zenon, <1>10, <1>t DEF Tick, SpentIsKept, NonceExp, NonceKey, Secs
    <3>1. now \in Nat /\ call[r] \in CallType
      BY <1>t DEF TypeOK, CarriesCall
    <3>2. Secs(now) <= Secs(now + 1)
      <4>1. Secs(now) \in Nat /\ Unit * Secs(now) <= now
        BY Zenon, <3>1, SecsBounds
      <4>2. Secs(now + 1) \in Nat /\ now + 1 < Unit * Secs(now + 1) + Unit
        BY <3>1, SecsBounds
      <4> QED
        BY <3>1, <4>1, <4>2
    <3>3. NonceExp(call[r]) \in Int /\ Secs(now) \in Nat /\ Secs(now + 1) \in Nat
      BY <3>1, SecsBounds DEF NonceExp, CallType
    <3> QED
      BY <3>2, <3>3
  <2> QED
    BY Zenon, <2>1, <2>2, <2>3
<1> QED
  BY Zenon, <1>1, <1>2, <1>3, <1>4, <1>5, <1>6, <1>7, <1>8, <1>9, <1>10
  DEF Next, RequestStep, Revoke, UpdateChecksum, vars

(* With the 60 s that nonce_exp adds and a stall of less than that, a      *)
(* signed call is verified at most once, for any numbers of requests,      *)
(* agents and calls, any skew and any clock resolution.                    *)
THEOREM SignedCallVerifiedOnce ==
    ASSUME GraceCoversStall
    PROVE  Spec => []VerifiedOnce
<1>1. Init => IInv
  <2>1. Init => TypeOK
    BY Zenon, TypeInit
  <2> QED
    BY Zenon, <2>1 DEF Init, IInv, CarriesCall, InFlightIsFresh, SpentIsKept, VerifiedOnce
<1>2. IInv /\ [Next]_vars => IInv'
  BY Zenon, IInvStep
<1>3. IInv => VerifiedOnce
  BY Zenon DEF IInv
<1> QED
  BY <1>1, <1>2, <1>3, PTL DEF Spec
=============================================================================
