------------------------------ MODULE Payments ------------------------------
(***************************************************************************)
(* Single-use agent tokens and what they buy: POST /agent/verify,          *)
(* POST /agent/payment/authorize and POST /agent/payment/consume, running  *)
(* at the same time on pooled connections.  A database statement, or a     *)
(* transaction, is one step; nothing else excludes other requests.         *)
(* The agents are registered with a PoP key.                               *)
(***************************************************************************)
EXTENDS Integers, FiniteSets

CONSTANTS
    Request, Agent, Token, Challenge, Nonce,
    Body,         \* the bodies clients send; exp is the envelope's expires_at
    Holder,       \* agent_id claim of a token
    TokenExp,     \* exp claim of a token
    Subject,      \* the agent a PoP challenge is issued to
    Lease,        \* agents.expires_at
    ChallengeTtl, \* 300 s
    AuthTtl,      \* 300 s
    Window,       \* SAURON_RISK_WINDOW_SECS
    Limit,        \* SAURON_RISK_PAYMENT_AUTHORIZE_PER_WINDOW and ..._AGENT_VERIFY_...
    Stall,        \* most seconds a request spends after its clock reading
    MaxTime,
    NoBody

Kind == {"authorize", "verify", "inspect", "consume"}

ASSUME PaymentConstants ==
    /\ Body \subseteq [kind : Kind, token : Token, challenge : Challenge, nonce : Nonce,
                     exp : Nat, signer : Agent]
    /\ NoBody \notin Body
    /\ Holder \in [Token -> Agent] /\ TokenExp \in [Token -> Nat]
    /\ Subject \in [Challenge -> Agent] /\ Lease \in [Agent -> Nat]
    /\ ChallengeTtl \in Nat /\ AuthTtl \in Nat /\ Window \in Nat \ {0}
    /\ Limit \in Nat \ {0} /\ Stall \in Nat /\ MaxTime \in Nat

VARIABLES
    now,
    revoked,    \* agents.revoked
    challenges, \* agent_pop_challenges
    issued,     \* challenge ids handed out so far
    counters,   \* risk_rate_counters
    nonces,     \* agent_action_nonces
    receipts,   \* accepted agent_action_receipts, by the request that wrote them
    jtis,       \* ajwt_used_jtis
    auths,      \* agent_payment_authorizations
    pc, body,
    clock,      \* the handler's clock reading
    renow       \* the later reading of validate_agent_action, up to its last use

vars == <<now, revoked, challenges, issued, counters, nonces, receipts, jtis, auths,
          pc, body, clock, renow>>

Working == {"admitted", "counted", "checked", "read", "proved", "gated", "rechecked",
            "collected", "noted", "receipted", "spent", "asked", "found"}
Answered == {"authorized", "valid", "seen", "paid", "refused", "lost"}

Bucket == {"authorize", "verify"} \X Agent \X (0..(MaxTime \div Window))

TypeOK ==
    /\ now \in 0..MaxTime
    /\ revoked \subseteq Agent
    /\ challenges \subseteq [id : issued, exp : Nat]
    /\ issued \subseteq Challenge
    /\ counters \in [Bucket -> Nat]
    /\ nonces \subseteq [nonce : Nonce, exp : Nat]
    /\ receipts \subseteq Request
    /\ jtis \subseteq Token
    /\ auths \subseteq [token : Token, agent : Agent, created : Nat, expires : Nat,
                        consumed : BOOLEAN, by : Request]
    /\ pc \in [Request -> {"idle"} \cup Working \cup Answered]
    /\ body \in [Request -> Body \cup {NoBody}]
    /\ clock \in [Request -> 0..MaxTime] /\ renow \in [Request -> 0..MaxTime]

Init ==
    /\ now = 0
    /\ revoked = {} /\ challenges = {} /\ issued = {}
    /\ counters = [b \in Bucket |-> 0]
    /\ nonces = {} /\ receipts = {} /\ jtis = {} /\ auths = {}
    /\ pc = [r \in Request |-> "idle"]
    /\ body = [r \in Request |-> NoBody]
    /\ clock = [r \in Request |-> 0] /\ renow = [r \in Request |-> 0]

(* The handler of r goes on at l.  An answer ends its local variables; what  *)
(* a successful request asked for is kept for the properties.              *)
Goto(r, l) ==
    /\ pc' = [pc EXCEPT ![r] = l]
    /\ body' = IF l = "refused" THEN [body EXCEPT ![r] = NoBody] ELSE body
    /\ clock' = IF l \in Answered THEN [clock EXCEPT ![r] = 0] ELSE clock

AgentOf(r) == Holder[body[r].token]
Paying(r) == body[r].kind = "authorize"
InProgress == {r \in Request : pc[r] \in Working}
Min2(a, b) == IF a <= b THEN a ELSE b

tables == <<revoked, challenges, issued, counters, nonces, receipts, jtis, auths>>

-----------------------------------------------------------------------------
(* POST /agent/pop/challenge *)
IssueChallenge(c) ==
    /\ c \notin issued
    /\ Subject[c] \notin revoked /\ Lease[Subject[c]] >= now
    /\ issued' = issued \cup {c}
    /\ challenges' = {x \in challenges : x.exp >= now} \cup {[id |-> c, exp |-> now + ChallengeTtl]}
    /\ UNCHANGED <<now, revoked, counters, nonces, receipts, jtis, auths, pc, body, clock, renow>>

Revoke(a) ==
    /\ a \notin revoked
    /\ revoked' = revoked \cup {a}
    /\ UNCHANGED <<now, challenges, issued, counters, nonces, receipts, jtis, auths, pc, body, clock, renow>>

(* spawn_background_gc, the tables modelled here *)
BackgroundGc ==
    /\ challenges' = {x \in challenges : x.exp >= now}
    /\ jtis' = {t \in jtis : TokenExp[t] >= now}
    /\ UNCHANGED <<now, revoked, issued, counters, nonces, receipts, auths, pc, body, clock, renow>>

Tick ==
    /\ now < MaxTime
    /\ \A r \in InProgress : now < clock[r] + Stall
    /\ now' = now + 1
    /\ UNCHANGED <<tables, pc, body, clock, renow>>

(* The server stops; the tables stay. *)
Crash ==
    /\ pc' = [r \in Request |-> IF r \in InProgress THEN "lost" ELSE pc[r]]
    /\ body' = [r \in Request |-> IF r \in InProgress THEN NoBody ELSE body[r]]
    /\ clock' = [r \in Request |-> 0]
    /\ renow' = [r \in Request |-> 0]
    /\ UNCHANGED <<now, tables>>

-----------------------------------------------------------------------------
(* The handlers.                                                           *)

(* A request reaches its handler, past the middleware.  The token           *)
(* is verified with the clock reading the handler goes on with.            *)
Arrive(r, b) ==
    /\ pc[r] = "idle"
    /\ b.kind = "consume" => b.signer \notin revoked
    /\ IF b.kind # "consume" /\ now > TokenExp[b.token] THEN Goto(r, "refused")
       ELSE /\ pc' = [pc EXCEPT ![r] = IF b.kind = "consume" THEN "asked" ELSE "admitted"]
            /\ body' = [body EXCEPT ![r] = b]
            /\ clock' = [clock EXCEPT ![r] = now]
    /\ UNCHANGED <<now, tables, renow>>

(* Whatever a handler finds wrong with the contents of a request (policy    *)
(* verdict, PoP or ring signature, payment intent), and failing statements. *)
Refuse(r) ==
    /\ pc[r] \in Working
    /\ Goto(r, "refused")
    /\ renow' = [renow EXCEPT ![r] = 0]
    /\ UNCHANGED <<now, tables>>

(* Mutant of OverLimit: off by one. *)
OverLimitByOne(n) == n > Limit + 1

OverLimit(n) == n > Limit

(* check_and_increment: the upsert and the read are one transaction.  The   *)
(* verify handler reads the clock for it once it has a connection.         *)
CountRequest(r) ==
    LET b == IF Paying(r) THEN <<"authorize", AgentOf(r), clock[r] \div Window>>
             ELSE <<"verify", AgentOf(r), now \div Window>> IN
    /\ pc[r] = "admitted"
    /\ counters' = [counters EXCEPT ![b] = @ + 1]
    /\ Goto(r, IF OverLimit(counters'[b]) THEN "refused" ELSE "counted")
    /\ UNCHANGED <<now, revoked, challenges, issued, nonces, receipts, jtis, auths, renow>>

CheckAgent(r) ==
    /\ pc[r] = "counted"
    /\ Goto(r, IF AgentOf(r) \in revoked \/ (Paying(r) /\ Lease[AgentOf(r)] < clock[r])
               THEN "refused" ELSE "checked")
    /\ UNCHANGED <<now, tables, renow>>

(* take_pop_challenge: the SELECT, and the DELETE of a row found expired *)
SelectChallenge(r) ==
    LET found == {x \in challenges : x.id = body[r].challenge}
        good == {x \in found : Subject[x.id] = AgentOf(r)} IN
    /\ pc[r] = "checked"
    /\ Goto(r, IF \E x \in good : x.exp >= now THEN "read" ELSE "refused")
    /\ challenges' = challenges \ {x \in good : x.exp < now}
    /\ UNCHANGED <<now, revoked, issued, counters, nonces, receipts, jtis, auths, renow>>

(* Mutant of DeleteChallenge: the row count is ignored. *)
DeleteChallengeUnchecked(r) ==
    /\ pc[r] = "read"
    /\ Goto(r, "proved")
    /\ challenges' = {x \in challenges : x.id # body[r].challenge}
    /\ UNCHANGED <<now, revoked, issued, counters, nonces, receipts, jtis, auths, renow>>

(* take_pop_challenge: the DELETE, whose row count decides who has it *)
DeleteChallenge(r) ==
    /\ pc[r] = "read"
    /\ Goto(r, IF \E x \in challenges : x.id = body[r].challenge THEN "proved" ELSE "refused")
    /\ challenges' = {x \in challenges : x.id # body[r].challenge}
    /\ UNCHANGED <<now, revoked, issued, counters, nonces, receipts, jtis, auths, renow>>

(* The bound policy and the intent allow the payment. *)
PassGate(r) ==
    /\ pc[r] = "proved" /\ Paying(r)
    /\ Goto(r, "gated")
    /\ UNCHANGED <<now, tables, renow>>

(* Mutant of Recheck: revocation is not looked at again. *)
RecheckLeaseOnly(r) ==
    /\ pc[r] = "gated"
    /\ \E s, t \in clock[r]..now :
          /\ s <= t
          /\ IF body[r].exp < s \/ Lease[AgentOf(r)] <= t
             THEN Goto(r, "refused") /\ UNCHANGED renow
             ELSE Goto(r, "rechecked") /\ renow' = [renow EXCEPT ![r] = t]
    /\ UNCHANGED <<now, tables>>

(* validate_agent_action: the envelope's expiry against a new clock         *)
(* reading, then, with one more reading, the agent and the ring of the      *)
(* tenant's active agents (expires_at > now)                               *)
Recheck(r) ==
    /\ pc[r] = "gated"
    /\ \E s, t \in clock[r]..now :
          /\ s <= t
          /\ IF body[r].exp < s \/ AgentOf(r) \in revoked \/ Lease[AgentOf(r)] <= t
             THEN Goto(r, "refused") /\ UNCHANGED renow
             ELSE Goto(r, "rechecked") /\ renow' = [renow EXCEPT ![r] = t]
    /\ UNCHANGED <<now, tables>>

(* Mutant of CollectNonces: expires_at <= now. *)
CollectNoncesEarly(r) ==
    /\ pc[r] = "rechecked"
    /\ nonces' = {n \in nonces : n.exp > renow[r]}
    /\ renow' = [renow EXCEPT ![r] = 0]
    /\ Goto(r, "collected")
    /\ UNCHANGED <<now, revoked, challenges, issued, counters, receipts, jtis, auths>>

(* DELETE FROM agent_action_nonces WHERE expires_at < now, a statement of   *)
(* its own                                                                 *)
CollectNonces(r) ==
    /\ pc[r] = "rechecked"
    /\ nonces' = {n \in nonces : n.exp >= renow[r]}
    /\ renow' = [renow EXCEPT ![r] = 0]
    /\ Goto(r, "collected")
    /\ UNCHANGED <<now, revoked, challenges, issued, counters, receipts, jtis, auths>>

(* The nonce is the primary key of agent_action_nonces. *)
InsertNonce(r) ==
    LET used == \E n \in nonces : n.nonce = body[r].nonce IN
    /\ pc[r] = "collected"
    /\ Goto(r, IF used THEN "refused" ELSE "noted")
    /\ nonces' = IF used THEN nonces
                 ELSE nonces \cup {[nonce |-> body[r].nonce, exp |-> body[r].exp]}
    /\ UNCHANGED <<now, revoked, challenges, issued, counters, receipts, jtis, auths, renow>>

InsertReceipt(r) ==
    /\ pc[r] = "noted"
    /\ Goto(r, "receipted")
    /\ receipts' = receipts \cup {r}
    /\ UNCHANGED <<now, revoked, challenges, issued, counters, nonces, jtis, auths, renow>>

NextAfterSpend(r) == IF Paying(r) THEN "spent" ELSE "valid"

(* Mutant of SpendToken: a token still in its last second is collected. *)
SpendTokenEarlyGc(r) ==
    LET kept == {t \in jtis : TokenExp[t] > now} IN
    /\ pc[r] = "receipted" \/ (pc[r] = "proved" /\ body[r].kind = "verify")
    /\ IF body[r].token \in kept THEN Goto(r, "refused") /\ UNCHANGED jtis
       ELSE Goto(r, NextAfterSpend(r)) /\ jtis' = kept \cup {body[r].token}
    /\ UNCHANGED <<now, revoked, challenges, issued, counters, nonces, receipts, auths, renow>>

(* consume_ajwt_jti: collection and insert in one transaction, which a      *)
(* duplicate rolls back                                                    *)
SpendToken(r) ==
    LET kept == {t \in jtis : TokenExp[t] >= now} IN
    /\ pc[r] = "receipted" \/ (pc[r] = "proved" /\ body[r].kind = "verify")
    /\ IF body[r].token \in kept THEN Goto(r, "refused") /\ UNCHANGED jtis
       ELSE Goto(r, NextAfterSpend(r)) /\ jtis' = kept \cup {body[r].token}
    /\ UNCHANGED <<now, revoked, challenges, issued, counters, nonces, receipts, auths, renow>>

(* /agent/verify without consume_jti *)
AnswerInspect(r) ==
    /\ pc[r] = "proved" /\ body[r].kind = "inspect"
    /\ Goto(r, "seen")
    /\ UNCHANGED <<now, tables, renow>>

(* Mutant of NewAuth: the lifetime is subtracted. *)
NewAuthBackdated(r) ==
    [token |-> body[r].token, agent |-> AgentOf(r), created |-> clock[r],
     expires |-> Min2(TokenExp[body[r].token], clock[r] - AuthTtl), consumed |-> FALSE, by |-> r]

NewAuth(r) ==
    [token |-> body[r].token, agent |-> AgentOf(r), created |-> clock[r],
     expires |-> Min2(TokenExp[body[r].token], clock[r] + AuthTtl), consumed |-> FALSE, by |-> r]

(* insert_payment_authorization: jti is UNIQUE *)
InsertAuthorization(r) ==
    LET taken == \E a \in auths : a.token = body[r].token IN
    /\ pc[r] = "spent"
    /\ Goto(r, IF taken THEN "refused" ELSE "authorized")
    /\ auths' = IF taken THEN auths ELSE auths \cup {NewAuth(r)}
    /\ UNCHANGED <<now, revoked, challenges, issued, counters, nonces, receipts, jtis, renow>>

(* agent_payment_consume: the owner, then the clock *)
ReadOwner(r) ==
    /\ pc[r] = "asked"
    /\ IF \E a \in auths : a.token = body[r].token /\ a.agent = body[r].signer
       THEN /\ pc' = [pc EXCEPT ![r] = "found"]
            /\ clock' = [clock EXCEPT ![r] = now]
            /\ UNCHANGED body
       ELSE Goto(r, "refused")
    /\ UNCHANGED <<now, tables, renow>>

(* Mutant of Open: consumed = 0 is missing. *)
OpenIgnoresConsumed(r) == {a \in auths : a.token = body[r].token /\ a.expires > clock[r]}

(* ... WHERE auth_id = ? AND consumed = 0 AND expires_at > now *)
Open(r) == {a \in auths : a.token = body[r].token /\ ~a.consumed /\ a.expires > clock[r]}

ConsumeAuthorization(r) ==
    /\ pc[r] = "found"
    /\ Goto(r, IF Open(r) = {} THEN "refused" ELSE "paid")
    /\ auths' = (auths \ Open(r)) \cup {[a EXCEPT !.consumed = TRUE] : a \in Open(r)}
    /\ UNCHANGED <<now, revoked, challenges, issued, counters, nonces, receipts, jtis, renow>>

RequestStep(r) ==
    \/ CountRequest(r) \/ CheckAgent(r) \/ SelectChallenge(r) \/ DeleteChallenge(r)
    \/ PassGate(r) \/ Recheck(r) \/ CollectNonces(r) \/ InsertNonce(r) \/ InsertReceipt(r)
    \/ SpendToken(r) \/ AnswerInspect(r) \/ InsertAuthorization(r)
    \/ ReadOwner(r) \/ ConsumeAuthorization(r)

Next ==
    \/ \E c \in Challenge : IssueChallenge(c)
    \/ \E a \in Agent : Revoke(a)
    \/ BackgroundGc \/ Tick \/ Crash
    \/ \E r \in Request : (\E b \in Body : Arrive(r, b)) \/ RequestStep(r) \/ Refuse(r)

Spec == Init /\ [][Next]_vars

-----------------------------------------------------------------------------
(* Every payment authorization carries a receipt of its own: the request    *)
(* that obtained it wrote an accepted receipt, no two authorizations rest   *)
(* on one PoP challenge, and two rest on one action nonce only when one of  *)
(* their envelopes has expired (validate_agent_action collects the row of   *)
(* an expired envelope, and its nonce can be used again).                  *)
AuthorizationsAreBacked ==
    /\ \A a \in auths : a.by \in receipts
    /\ \A a, b \in auths : a # b =>
          /\ body[a.by].challenge # body[b.by].challenge
          /\ body[a.by].nonce = body[b.by].nonce => \E x \in {a, b} : body[x.by].exp < now

Proved == {"proved", "gated", "rechecked", "collected", "noted", "receipted", "spent",
           "authorized", "valid", "seen"}

(* A one-time PoP challenge proves possession to one request, of the        *)
(* endpoints that take one.                                                *)
ChallengeProvesOnce ==
    \A r, s \in Request : r # s =>
        ~({pc[r], pc[s]} \subseteq Proved /\ body[r].challenge = body[s].challenge)

(* A successful insert into ajwt_used_jtis proves first use of a token that *)
(* has not expired: a second request gets past it with the same token only *)
(* after exp, when it had verified the token before and the row is gone.   *)
ReuseOnlyAfterExpiry ==
    [][\A r, s \in Request :
          /\ r # s /\ pc[s] \in {"spent", "authorized", "valid"}
          /\ pc[r] # pc'[r] /\ pc'[r] \in {"spent", "valid"}
          /\ body[r].token = body[s].token
          => TokenExp[body[r].token] < now]_vars

(* A burst of consume requests for one authorization gets one success, and  *)
(* the agent that obtained the authorization gets it.                      *)
PaidOnceByOwner ==
    \A r \in Request : pc[r] = "paid" =>
        /\ \E a \in auths : a.token = body[r].token /\ a.agent = body[r].signer /\ a.consumed
        /\ \A s \in Request \ {r} : ~(pc[s] = "paid" /\ body[s].token = body[r].token)

(* The limit holds per agent and window whatever the interleaving, also     *)
(* for authorizations whose request finished in a later window.            *)
AuthorizationsWithinLimit ==
    \A g \in Agent, w \in 0..(MaxTime \div Window) :
        Cardinality({a \in auths : a.agent = g /\ a.created \div Window = w}) <= Limit

(* An agent revoked while its payment request waits for the policy gate     *)
(* gets no receipt and no authorization out of it.                         *)
RevocationStopsPayment ==
    [][\A r \in Request :
          (body[r] # NoBody /\ pc[r] \in {"admitted", "counted", "checked", "read", "proved", "gated"}
             /\ Paying(r) /\ AgentOf(r) \in revoked)
          => pc'[r] \notin {"rechecked", "authorized"}]_vars
=============================================================================
