# SauronID: TLA+ models and proofs

SauronID is a fail-closed authorization gateway for AI agents: an axum/tokio server
(`src/core/src`) in front of SQLite (an r2d2 pool) or Postgres. An agent signs every
call, presents single-use tokens, has its actions recorded as hash-chained receipts,
and the receipts are anchored in Merkle batches at external ledgers. Almost all of its
correctness rests on *statements on pooled connections that run in an order nobody
chose*: `DbHandle::lock` (`db.rs`) is a pool checkout, not a mutex, so two handlers
interleave between any two statements that are not in one transaction. These modules
model exactly that: a database statement or transaction is one atomic step, clock
readings are taken where the code takes them, and requests may wait, fail or be cut
short by a crash anywhere in between.

Paths below are relative to `src/core/src` unless they start with `docs/`.

## 1. Inventory

| Component | State | Operations that change it | Hard behaviour |
|---|---|---|---|
| Security audit log (`middleware/audit_log.rs`) | `security_audit_log`, file sink, `AUDIT_CHAIN_LOCK`, failure counter | `record` | several threads and processes append to one chain; lost races, retries, failing sinks |
| Call signatures and DPoP (`agent/call_sig.rs`, `dpop.rs`) | `agent_call_nonces`, `agents` | the middleware; nonce collection | duplicated deliveries, clock skew, waiting for the pool, revocation meanwhile |
| Agent actions (`agent_action/`) | `agent_action_nonces`, `agent_action_receipts` | `validate_agent_action`, the anonymous path | two-statement chain append, pruning of nonces against slow handlers |
| Anchoring (`agent_action_anchor.rs`) | `agent_action_anchors`, what the providers accepted | ticker and admin passes, proof lookup | overlapping passes, receipts stored behind a pass, a provider that fails, a crash after publishing |
| Tokens and PoP challenges (`ajwt_support.rs`, `agent/handlers.rs`) | `ajwt_used_jtis`, `agent_pop_challenges` | `/agent/verify`, challenge issue and take, collection | SELECT then DELETE, collection at expiry |
| Payments (`main/payment.rs`) | `agent_payment_authorizations` | authorize, consume | eight statements in separate commits, revocation during an await |
| Risk counters (`risk.rs`) | `risk_rate_counters` | `check_and_increment` | concurrent requests at the limit |
| Agent registry (`agent/handlers.rs`, `licence.rs`) | `agents`, in-memory ring | register, revoke, update checksum | checks before the insert that are stale at the insert |
| Egress gateway (`egress_gateway/`) | egress capabilities, egress log | issue, consume and forward | capability spent, then refused |
| Policies and spend ledger (`policy/`) | policies, bindings, spend | bind, gate, record spend | check then write |
| Anonymous rings and usage (`rings.rs`, `usage.rs`) | rings, budgets | subscribe, revoke, meter | budget against concurrent use |
| Owner sessions (`user_session.rs`) | sessions, epochs | log in, log out, revoke all | stale session accepted |
| HTTP rate limiter (`middleware/rate_limit.rs`) | token buckets | take, prune | refill against pruning |

`PROJECT.json` lists every part of the system with its status, and the hazards of this
code at the line where each of them bites.

## 2. Modules

    HashChain            what a hash chain promises: atomic appends, the verifier's walk
      AuditChain         implements HashChain          AuditChainProofs    theorems
      ActionReceipts     one HashChain per tenant
    CallSignature        the per-call middleware       CallSignatureProofs theorems
    Anchor               batches of receipts
    Payments             tokens, challenges, authorizations, rate limit
    MC<module>           the instances for TLC

A hash is represented by the entry it was computed from (collision freedom); a signature
check is a field of the message. `seq`, watermarks, expiries and clocks are integers.

**HashChain** is the abstract specification. `rows` is a set of `[id, seq, prev]`;
`Append` adds the row that follows the head; `Verifies` is the walk of the verifier:
`seq` dense from 1, every `prev` the entry before.

**AuditChain** is `SecurityAuditLogger::record`. A writer goes through the file sink, the
pool checkout, the chain lock of its process, the head read and the insert, and on a lost
race (`UniqueSeq`: the unique index that only the Postgres migrations create) back to the
head read, at most `Attempts` times. Any sink may fail, an insert also after it committed
(`InsertAnswerLost`: the error arm cannot tell); `failures` is the process's counter;
`Crash(p)` drops the writers, the lock and the counter of a process.

**CallSignature** is `require_call_signature` with both schemes. `Arrive` hands the
middleware a call (possibly for the second time); `CheckClock` is the skew check with its
clock reading; `ReadAgent` the SELECT of the agent row; `ConsumeNonce` the INSERT that
decides; `CollectNonces` the background DELETE. The clock counts milliseconds in `Unit`s
per second because the code compares milliseconds with the skew and seconds with the
expiry of a nonce. `Stall` bounds the time between the clock reading and the insert.
`LogDenied` is the best-effort log of denied egress: nothing is written for a body that
names no agent (`Attributable`), and with `LogFails` the insert may fail silently.

**ActionReceipts** is the identity and the anonymous path of action validation: envelope
checks, clock reading, pool checkout (`PoolSize`), status of the signer, pruning of
nonces, nonce insert, chain head, receipt insert, each a separate statement.

**Anchor** is one tenant's anchoring pass and the proof lookup. A receipt is stored with a
`created_at` read some time earlier and a random id (`InsertReceipt`), so it may come in
below receipts that a pass has selected already; the history variable `late` remembers
those receipts. A pass reads the watermark, selects at most `BatchCap` receipts after it,
stores a pending row, publishes to each provider and records the outcome. A provider has
*accepted* a root when it answers the request with a receipt, which is all the pass waits
for: `publish_root` returns after `sendTransaction` (`solana_anchor.rs:202`) and a later
task asks for the confirmation (`:350`), a Bitcoin timestamp is upgraded later too.

**Payments** is `/agent/verify` (consuming and inspecting), `/agent/payment/authorize` and
`/agent/payment/consume` with the rate counter, the PoP challenge (SELECT, DELETE), the
policy gate, the second look at the agent and the envelope's expiry, the pruning of
expired nonces, nonce, receipt, jti and authorization. The pruning uses the clock reading
`renow`, taken before the pool checkout. The content checks (amounts, scopes, policy) are
one nondeterministic refusal, `Refuse`. The rate counter is keyed by
`floor(epoch / window)`: fixed windows, although `risk.rs:1` and `db.rs:873` say "sliding",
so `AuthorizationsWithinLimit` is per fixed window and says nothing of a span across two.

## 3. Runs

Every run has `CHECK_DEADLOCK FALSE`: an instance ends when its events, requests or clock
ticks are used up.

| Run | Instance | Properties | States |
|---|---|---|---|
| audit | 2 processes, 3 writers, 3 events, unique index, file sink, failing head reads | TypeOK, ChainVerifies, AppendsAreAtomic, LossesAreCounted, RecordReturns | 115,338 |
| calls | 2 requests (an enforcing and an advisory process), 6 calls, DPoP accepted | TypeOK, VerifiedOnce, InactiveNeverVerified | 651,568 |
| receipts | 3 requests, 2 tenants, pool of 2, stall 1 | TypeOK, ReceiptsLinkBack, ReuseOnlyAfterExpiry | 831,368 |
| anchor_overlap | 3 receipts, cap 2, 2 workers, 2 providers | TypeOK, OnlyLateReceiptsMissed, SubmittedIsAccepted, RangeHoldsTheBatch | 1,210,758 |
| pay_authorize | 2 requests, 1 agent, limit 1, window 1, stall 2 | TypeOK, AuthorizationsAreBacked, ChallengeProvesOnce, AuthorizationsWithinLimit, ReuseOnlyAfterExpiry | 513,602 |
| pay_consume | 3 requests, 2 agents | PaidOnceByOwner, RevocationStopsPayment | 129,080 |

What they show. Across processes the unique index and the bounded retry keep the audit
chain, and an append is atomic to an observer; every event a sink missed is counted;
`record` returns. (That the lock alone keeps the chain of a single
process on SQLite is the other case of the theorem in section 5.) A signed call is
verified once, although its nonce is collected while copies are on their way, and never
for an agent whose revocation or lease expiry precedes the read of its row. Handlers on
several connections may make a tenant's receipts branch (finding 3), but every receipt
links back to the first. The nonce of an action, and the jti of a token, are single-use
until they expire. Below its watermark the anchor leaves out only receipts that were stored
behind a pass, however passes overlap, fail or are cut short; it marks a batch submitted
only when every provider accepted its root; and its stored range selects the batch again,
and besides it only late receipts. A payment authorization has its own receipt and
challenge, two authorizations share a nonce only if one of their envelopes has expired,
and the rate limit holds per window; an authorization is paid once and to its owner; a
revocation during the policy gate stops the payment.

**What is conditional.** `OnlyLateReceiptsMissed` and `RangeHoldsTheBatch` except the `late`
receipts, which the code does produce: finding 4 is what happens to them, and a late
receipt inside a stored range makes the rebuilt tree differ from the published one,
against `agent_action_anchor.rs:600`. `LossesAreCounted` is one-sided, as the comment at
`middleware/audit_log.rs:209` is ("may not have been durably recorded"): an event whose
insert committed but whose answer was lost is counted too. The two
`ReuseOnlyAfterExpiry`, and the nonce clause of `AuthorizationsAreBacked`, are what the code
guarantees and not more: expiry is checked before
the handler waits for a connection (and, for a payment, for the policy gate), the used
nonce or jti is deleted at the first moment past its expiry, so a request that passed the
check in time and waited can use it once more. Call signatures keep nonces for a grace
period for this reason; `db.rs:709` ("one-time nonce") and
`docs/architecture/tech-stack-deep.md:357` ("A successful insert proves first use") do not
mention the exception.

**Bounds.** Two writers per lock and two processes are the fewest that race in either way;
three events leave a successor to a lost race; `Attempts` 2 reaches the last attempt. Two
deliveries and a skew, grace and stall of 2 put every comparison of a nonce's expiry on
both sides. The cap is below the number of receipts, so a batch ends inside a second. Two
requests share or do not share a token, a challenge and a nonce; three are a burst. Time
bounds (`MaxTime`) go past the expiries that are compared. `MaxBatches` bounds the rows of
repeated batches in `anchor_overlap`; in `anchor_backlog` it is out of reach. In
`pay_authorize` the first envelope expires early enough to be pruned while the other
request is under way. Requests,
workers and providers are interchangeable where a cfg declares symmetry; no run of a
liveness property does.

**Fairness.** `RecordReturns` assumes weak fairness of each writer's own steps: `record` is
straight-line code on a thread of its own, and the mutex is held for a bounded number of
steps. `BacklogDrains` assumes it of the anchoring pass, which a ticker starts again and
again, and that from some time on every step is a regular one (`<>[][Regular]_vars`); it is
violated all the same (finding 5), so no fault is to blame. No fairness is assumed of
clients, crashes, collection or the clock, and none of the choice among tied watermark
rows: the query leaves it open and no index covers `to_created_at`, so the same row may
come back every time.

## 4. Findings

Each is the counterexample of a violation run; `PROJECT.json` quotes the line it disagrees
with.

1. `audit_head_error`: a failing head SELECT is read as an empty chain; on SQLite the next
   row is a second `seq` 1 (`middleware/audit_log.rs:435`).
2. `calls_denied_egress`: a body that names another agent is refused after the arm that
   logs denied egress (`agent/call_sig.rs:661`).
3. `receipts_race`: two receipts of a tenant get one `seq` (`agent_action/validate.rs:259`).
4. `anchor_out_of_order`: a receipt stored below the watermark is never anchored
   (`agent_action_anchor.rs:226`). An older second is not needed: within one second the
   random id decides.
5. `anchor_backlog`: the watermark is ordered by the second alone (`:206`). When a batch
   ends in some second, a full batch of the same second follows it and the query keeps
   returning the older end, the full batch is anchored again and again and what comes after
   it never. The run shows it with a cap of 1 and three receipts; with the cap of 10,000 it
   takes more than 10,000 receipts of a tenant in one second, the first of which end an
   earlier batch.
6. `anchor_proof`: the proof tree lacks the audit-head leaf, so its root is not the
   published one (`:622`). The kept trace stops there. With
   `HeadRead = {FALSE}` and `BatchCap = 1` the same property fails for another reason: the
   batch is looked up by seconds, oldest first (`:512`), so a receipt of the second in which
   a full batch ended is looked for in that batch although the next one holds it.

One comment is out of date without consequence: `main/payment.rs:304` says the take of a
PoP challenge "is wrapped in BEGIN IMMEDIATE today"; `ajwt_support.rs:199` says it never was,
and the row count of the DELETE makes it single-use (`ChallengeProvesOnce`).

## 5. Proofs

Checked by TLAPS for all values of the constants that satisfy the modules' assumptions.

**AuditChainProofs.** `TypeCorrect`; `AuditChainVerifies` and `AuditAppendsAreAtomic`,
assuming `UniqueSeq \/ ~HeadReadFails` (finding 1 is the remaining case). `ChainVerifies`
is not inductive: the insert uses a head read earlier. The invariant `IInv` adds that `seq`
is dense (`Dense`), that an event in progress is not in the chain and no two writers have
the same one (`EventsAreDistinct`), that a head a writer holds was a row of the chain
(`HeadWasRead`), and that without the unique index it is still the head, because the writer
holds the lock of the only process (`LockKeepsHead`). The refinement then follows: an
insert that commits (`AppendRow`, whether or not its answer arrives) is an `Append`, every
other step a stutter.

**CallSignatureProofs.** `TypeCorrect`; `SignedCallVerifiedOnce`, assuming
`GraceCoversStall`, `Stall <= (Grace - 1) * Unit`: from its skew check to its nonce insert
a request takes at most the grace less one second (59 s with the code's 60; the second is
lost to rounding the timestamp down). The invariant adds that a request between check and
insert is still within the window (`InFlightIsFresh`) and that the nonce of a verified
call is kept as long as a copy could pass (`SpentIsKept`). The pool timeout of 30 s per
checkout is what the code offers in support of the assumption.

**Only model-checked:** all liveness properties (fairness is out of the prover's reach),
`LossesAreCounted`, `InactiveNeverVerified`, and ActionReceipts, Anchor and Payments.

## 6. Not modelled

Registry, egress gateway, policy and spend ledger, rings and usage, sessions and the HTTP
rate limiter are planned (below). Cryptographic arithmetic, SQL translation, schema
creation, routing, reports and administration queries are not: they are pure arithmetic
or text, or single statements without shared state. SDKs, dashboard and the zero-knowledge
crates are outside the server.

## 7. Plan

The definitions so far stand for about 3,600 lines of `src/core/src` (some 34,700 with
tests), the parts where concurrent requests meet in the database. In this order next:

1. `AgentRegistry`: register (duplicate, licence ceiling, parent), revoke, checksum update,
   the in-memory ring and its rebuild at start; licence ceiling and parent liveness.
2. `EgressGateway`: issue, consume and forward a capability, with the log.
3. `SpendLedger`: policy gate and `record_spend` against the caps.
4. `Rings` and usage budgets, composed with the anonymous path of ActionReceipts.
5. Owner sessions; HTTP rate limiter; provider confirmation tasks.
6. Proofs: `OnlyLateReceiptsMissed` and `RangeHoldsTheBatch`;
   `ReceiptChainsVerify` for a pool of one; `ChallengeProvesOnce`,
   `AuthorizationsAreBacked` and `PaidOnceByOwner`; `InactiveNeverVerified`.
