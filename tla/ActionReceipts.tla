--------------------------- MODULE ActionReceipts ---------------------------
(***************************************************************************)
(* Signed agent actions and their receipts: validate_agent_action (the     *)
(* identity path) and validate_anon_action (the anonymous ring path).      *)
(*                                                                         *)
(* A request carries an action envelope.  The handler checks the           *)
(* envelope's expiry, checks a connection out of the pool, checks the      *)
(* signer, prunes and inserts the action nonce, reads the head of the      *)
(* tenant's receipt chain and inserts the receipt that links to it.  These *)
(* are separate autocommitted statements: the handlers open no             *)
(* transaction, and the pool hands out up to PoolSize connections at once. *)
(***************************************************************************)
EXTENDS Integers, FiniteSets

CONSTANTS
    Request,   \* HTTP requests; a request also names the receipt it writes
    Tenant,
    Signer,    \* agents, and ring pseudonyms (key images)
    Nonce,
    Envelope,  \* the signed envelopes that clients send
    Lease,     \* when a signer's registration expires
    PoolSize,  \* SAURON_DB_POOL_SIZE
    Stall,     \* longest time from a clock reading to the next, or to the nonce insert
    MaxTime,   \* bound on the clock
    Genesis,   \* prev_hash of the first receipt of a tenant
    Nobody     \* no envelope; no signer

Path == {"identity", "anon"}

(* good: the ring signature verifies and the rule or intent allows the     *)
(* action.                                                                 *)
EnvelopeType == [tenant : Tenant, path : Path, signer : Signer, nonce : Nonce,
                 exp : Nat, good : BOOLEAN]

ASSUME ReceiptConstants ==
    /\ PoolSize \in Nat \ {0} /\ Stall \in Nat /\ MaxTime \in Nat
    /\ Lease \in [Signer -> Nat]
    /\ Envelope \subseteq EnvelopeType
    /\ Genesis \notin Request /\ Nobody \notin Envelope /\ Nobody \notin Signer

VARIABLES
    now,      \* the wall clock, in seconds
    active,   \* signers that are not revoked (members of their ring)
    nonces,   \* agent_action_nonces
    receipts, \* agent_action_receipts, by tenant
    pc,       \* progress of a request
    env,      \* the envelope a request carries
    clock,    \* the clock reading a request took last
    head      \* the chain head a request read

vars == <<now, active, nonces, receipts, pc, env, clock, head>>

Chain(t) == INSTANCE HashChain WITH Entry <- Request, rows <- receipts[t]

Holding == {"held", "admitted", "collected", "spent", "linked"}
Answered == {"accepted", "refused", "lost"}
Step == {"new", "arrived", "dated", "queued"} \cup Holding \cup Answered

(* The primary key of agent_action_nonces: the nonce alone, or key image   *)
(* and nonce for an anonymous action.                                      *)
NonceKey(e) == <<IF e.path = "anon" THEN e.signer ELSE Nobody, e.nonce>>

ReceiptRow == [id : Request, seq : Nat \ {0}, prev : Request \cup {Genesis}]
ChainHead == [seq : Nat, id : Request \cup {Genesis}]

TypeOK ==
    /\ now \in 0..MaxTime
    /\ active \subseteq Signer
    /\ nonces \subseteq [key : (Signer \cup {Nobody}) \X Nonce, exp : Nat]
    /\ receipts \in [Tenant -> SUBSET ReceiptRow]
    /\ pc \in [Request -> Step]
    /\ env \in [Request -> Envelope \cup {Nobody}]
    /\ clock \in [Request -> 0..MaxTime]
    /\ head \in [Request -> ChainHead]

Init ==
    /\ now = 0
    /\ active = Signer
    /\ nonces = {}
    /\ receipts = [t \in Tenant |-> {}]
    /\ pc = [r \in Request |-> "new"]
    /\ env = [r \in Request |-> Nobody]
    /\ clock = [r \in Request |-> 0]
    /\ head = [r \in Request |-> [seq |-> 0, id |-> Genesis]]

-----------------------------------------------------------------------------
(* One request.                                                            *)

Goto(r, step) == pc' = [pc EXCEPT ![r] = step]

Submit(r, e) ==
    /\ pc[r] = "new"
    /\ Goto(r, "arrived")
    /\ env' = [env EXCEPT ![r] = e]
    /\ UNCHANGED <<now, active, nonces, receipts, clock, head>>

(* env.expires_at < now_secs().  The anonymous path keeps this reading of  *)
(* the clock for everything that follows, the identity path takes another. *)
CheckEnvelope(r) ==
    /\ pc[r] = "arrived"
    /\ clock' = [clock EXCEPT ![r] = now]
    /\ \/ env[r].exp < now /\ Goto(r, "refused")
       \/ env[r].exp >= now /\ Goto(r, IF env[r].path = "anon" THEN "queued" ELSE "dated")
    /\ UNCHANGED <<now, active, nonces, receipts, env, head>>

ReadClock(r) ==
    /\ pc[r] = "dated"
    /\ clock' = [clock EXCEPT ![r] = now]
    /\ Goto(r, "queued")
    /\ UNCHANGED <<now, active, nonces, receipts, env, head>>

InUse == {r \in Request : pc[r] \in Holding}

(* st.db.lock(): a pool checkout, or a timeout that ends the request. *)
Checkout(r) ==
    /\ pc[r] = "queued"
    /\ \/ Cardinality(InUse) < PoolSize /\ Goto(r, "held")
       \/ Goto(r, "refused")
    /\ UNCHANGED <<now, active, nonces, receipts, env, clock, head>>

(* The signer's row and ring, read with the clock reading from before the  *)
(* checkout.  A receipt is built but not stored when the ring signature    *)
(* does not verify.                                                        *)
Admit(r) ==
    LET e == env[r]
        ok == /\ e.signer \in active /\ e.good
              /\ e.path = "identity" => Lease[e.signer] > clock[r]
    IN
    /\ pc[r] = "held"
    /\ \/ ok /\ Goto(r, "admitted")
       \/ ~ok /\ Goto(r, "refused")
    /\ UNCHANGED <<now, active, nonces, receipts, env, clock, head>>

(* Mutant of CollectNonces: expires_at <= now. *)
CollectNoncesEarly(r) ==
    /\ pc[r] = "admitted"
    /\ nonces' = {n \in nonces : n.exp > clock[r]}
    /\ Goto(r, "collected")
    /\ UNCHANGED <<now, active, receipts, env, clock, head>>

(* DELETE FROM agent_action_nonces WHERE expires_at < now *)
CollectNonces(r) ==
    /\ pc[r] = "admitted"
    /\ nonces' = {n \in nonces : n.exp >= clock[r]}
    /\ Goto(r, "collected")
    /\ UNCHANGED <<now, active, receipts, env, clock, head>>

Used(e) == \E n \in nonces : n.key = NonceKey(e)

(* INSERT INTO agent_action_nonces under its primary key. *)
InsertNonce(r) ==
    /\ pc[r] = "collected"
    /\ \/ /\ ~Used(env[r])
          /\ nonces' = nonces \cup {[key |-> NonceKey(env[r]), exp |-> env[r].exp]}
          /\ Goto(r, "spent")
       \/ Used(env[r]) /\ Goto(r, "refused") /\ UNCHANGED nonces
    /\ UNCHANGED <<now, active, receipts, env, clock, head>>

(* Mutant of ReadHead: the SELECT is not restricted to the tenant. *)
ReadHeadOfAnyTenant(r) ==
    /\ pc[r] = "spent"
    /\ \E t \in Tenant : \E h \in Chain(t)!Heads(receipts[t]) : head' = [head EXCEPT ![r] = h]
    /\ Goto(r, "linked")
    /\ UNCHANGED <<now, active, nonces, receipts, env, clock>>

(* next_chain_position *)
ReadHead(r) ==
    LET t == env[r].tenant IN
    /\ pc[r] = "spent"
    /\ \E h \in Chain(t)!Heads(receipts[t]) : head' = [head EXCEPT ![r] = h]
    /\ Goto(r, "linked")
    /\ UNCHANGED <<now, active, nonces, receipts, env, clock>>

(* INSERT INTO agent_action_receipts: nothing in the table constrains seq. *)
InsertReceipt(r) ==
    LET t == env[r].tenant IN
    /\ pc[r] = "linked"
    /\ receipts' = [receipts EXCEPT ![t] = @ \cup {Chain(t)!LinkedRow(r, head[r])}]
    /\ Goto(r, "accepted")
    /\ UNCHANGED <<now, active, nonces, env, clock, head>>

(* A statement fails; what was committed before it stays. *)
StatementFails(r) ==
    /\ pc[r] \in Holding
    /\ Goto(r, "refused")
    /\ UNCHANGED <<now, active, nonces, receipts, env, clock, head>>

-----------------------------------------------------------------------------
(* The rest of the system.                                                 *)

(* Revocation of an agent, removal of a ring member. *)
Revoke(s) ==
    /\ s \in active
    /\ active' = active \ {s}
    /\ UNCHANGED <<now, nonces, receipts, pc, env, clock, head>>

InProgress == {r \in Request : pc[r] \notin Answered \cup {"new"}}

(* The server stops: requests in progress are never answered. *)
Crash ==
    /\ InProgress # {}
    /\ pc' = [r \in Request |-> IF r \in InProgress THEN "lost" ELSE pc[r]]
    /\ UNCHANGED <<now, active, nonces, receipts, env, clock, head>>

Tick ==
    /\ now < MaxTime
    /\ \A r \in Request :
          pc[r] \in {"dated", "queued", "held", "admitted", "collected"} => now < clock[r] + Stall
    /\ now' = now + 1
    /\ UNCHANGED <<active, nonces, receipts, pc, env, clock, head>>

RequestStep(r) ==
    \/ CheckEnvelope(r) \/ ReadClock(r) \/ Checkout(r) \/ Admit(r) \/ CollectNonces(r)
    \/ InsertNonce(r) \/ ReadHead(r) \/ InsertReceipt(r) \/ StatementFails(r)

Next ==
    \/ \E r \in Request : RequestStep(r) \/ \E e \in Envelope : Submit(r, e)
    \/ \E s \in Signer : Revoke(s)
    \/ Crash \/ Tick

Spec == Init /\ [][Next]_vars

-----------------------------------------------------------------------------
(* Properties.                                                             *)

(* db.rs: "`seq` is dense and monotonic; `prev_hash` is the chain hash of  *)
(* seq-1", and verify_receipt_chain accepts every tenant's receipts at     *)
(* every moment, although the head is read and the row inserted in two     *)
(* statements.                                                             *)
ReceiptChainsVerify == \A t \in Tenant : Chain(t)!Verifies(receipts[t])

(* What remains of that when handlers run on several connections: every    *)
(* receipt links to a stored receipt of its own tenant with the seq before *)
(* its own, or is a first one.  A tenant's receipts may branch, but none   *)
(* is cut off from the start, whichever handlers fail or are cut short.    *)
ReceiptsLinkBack ==
    \A t \in Tenant : \A x \in receipts[t] :
        \/ x.seq = 1 /\ x.prev = Genesis
        \/ \E y \in receipts[t] : y.id = x.prev /\ x.seq = y.seq + 1

(* db.rs: "a canonical envelope with a one-time nonce".  However often an  *)
(* envelope is delivered, and however the pruning of nonces interleaves    *)
(* with slow requests, its nonce is inserted a second time only after the  *)
(* envelope expired (by a request that had checked the expiry before).     *)
ReuseOnlyAfterExpiry ==
    [][\A r, s \in Request :
          /\ r # s /\ env[r] = env[s]
          /\ pc[s] \in {"spent", "linked", "accepted"}
          /\ pc[r] = "collected" /\ pc'[r] = "spent"
          => env[r].exp < now]_vars
=============================================================================
