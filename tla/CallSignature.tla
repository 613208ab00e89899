--------------------------- MODULE CallSignature ---------------------------
(***************************************************************************)
(* The per-call signature middleware: require_call_signature,              *)
(* try_verify_call_sig, its opt-in DPoP alternative, and the table of      *)
(* single-use nonces with the background collection that prunes it.        *)
(*                                                                         *)
(* A request carries a signed call.  The same call may be delivered in any *)
(* number of requests.  Between the clock-skew check and the insert of the *)
(* nonce the middleware reads the agent row and awaits the database, so    *)
(* each of these is a step of its own, taken at its own time.  Stall bounds *)
(* the time from the skew check to the nonce insert.                       *)
(*                                                                         *)
(* `now` counts milliseconds (scaled); Unit of them make one second, the   *)
(* resolution of the stored expiries.                                      *)
(***************************************************************************)
EXTENDS Integers

CONSTANTS
    Request,    \* HTTP requests
    Agent,
    Nonce,
    Digest,     \* registered checksum / mandate values a call can cite
    Call,       \* the signed calls that clients send
    Unit,       \* milliseconds per second
    Skew,       \* SAURON_CALL_SIG_SKEW_MS
    Grace,      \* seconds a nonce outlives the skew window
    Stall,      \* longest time from the skew check to the nonce insert
    MaxTime,    \* bound on the clock
    Enforce,    \* SAURON_REQUIRE_CALL_SIG of the server process a request reaches
    AcceptDpop, \* SAURON_ACCEPT_DPOP
    LogFails,   \* TRUE: storing a denied egress attempt may fail
    Lease,      \* the second at which an agent's registration expires
    NoCall      \* an unused request

Scheme == {"call_sig", "dpop", "none"}

(* ts: signed timestamp; until: v3's own expiry; good: the signature       *)
(* verifies; names: the agent_id in the body; route: whether the call goes *)
(* to /agent/egress/log.                                                   *)
CallType == [agent : Agent, nonce : Nonce, digest : Digest, scheme : Scheme,
             ts : Nat, until : Nat, good : BOOLEAN, names : {"signer", "other", "nobody"},
             route : {"egress_log", "other"}]

ASSUME CallConstants ==
    /\ Unit \in Nat \ {0}
    /\ Skew \in Nat /\ Grace \in Nat /\ Stall \in Nat /\ MaxTime \in Nat
    /\ Enforce \in [Request -> BOOLEAN] /\ AcceptDpop \in BOOLEAN /\ LogFails \in BOOLEAN
    /\ Lease \in [Agent -> Nat]
    /\ Call \subseteq CallType
    /\ NoCall \notin Call

VARIABLES
    now,     \* the wall clock
    agents,  \* agents table: revoked flag and registered digest
    nonces,  \* agent_call_nonces
    pc,      \* progress of a request through the middleware
    call,    \* the call a request carries
    clock,   \* the clock reading a request took last
    denied   \* requests logged as denied egress attempts

vars == <<now, agents, nonces, pc, call, clock, denied>>

Secs(t) == t \div Unit

(* (now_ms - call_ts).abs() > skew_ms is refused; so is a v3 call past the *)
(* expiry its signer set.                                                  *)
TimelyAt(c, t) == t - c.ts <= Skew /\ c.ts - t <= Skew /\ t <= c.until

(* Mutant of NonceKey: a DPoP jti and a call nonce share one key. *)
NonceKeyNoScheme(c) == <<c.agent, c.nonce>>

(* The key of a call in agent_call_nonces; DPoP's jti gets a prefix. *)
NonceKey(c) == <<c.agent, c.scheme, c.nonce>>

(* Mutant of NonceExp: no grace. *)
NonceExpNoGrace(c) == Secs(c.ts) + Secs(Skew)

(* call_ts / 1000 + skew_ms / 1000 + 60 *)
NonceExp(c) == Secs(c.ts) + Secs(Skew) + Grace

Answered == {"verified", "unverified", "refused", "lost"}
Step == {"new", "arrived", "timely", "known", "checked"} \cup Answered

TypeOK ==
    /\ now \in 0..MaxTime
    /\ agents \in [Agent -> [revoked : BOOLEAN, digest : Digest]]
    /\ nonces \subseteq [key : Agent \X Scheme \X Nonce, exp : Int]
    /\ pc \in [Request -> Step]
    /\ call \in [Request -> Call \cup {NoCall}]
    /\ clock \in [Request -> 0..MaxTime]
    /\ denied \subseteq Request

Init ==
    /\ now = 0
    /\ agents \in [Agent -> [revoked : {FALSE}, digest : Digest]]
    /\ nonces = {}
    /\ pc = [r \in Request |-> "new"]
    /\ call = [r \in Request |-> NoCall]
    /\ clock = [r \in Request |-> 0]
    /\ denied = {}

-----------------------------------------------------------------------------
(* The middleware, one request.                                            *)

Arrive(r, c) ==
    /\ pc[r] = "new"
    /\ pc' = [pc EXCEPT ![r] = "arrived"]
    /\ call' = [call EXCEPT ![r] = c]
    /\ clock' = [clock EXCEPT ![r] = now]
    /\ UNCHANGED <<now, agents, nonces, denied>>

(* log_denied_egress writes for the egress log route only, and only when    *)
(* the body says whose attempt it was.                                     *)
Attributable(c) == c.route = "egress_log" /\ c.names # "nobody"

(* A storage error is swallowed. *)
LogDenied(r) ==
    \/ denied' = IF Attributable(call[r]) THEN denied \cup {r} ELSE denied
    \/ LogFails /\ UNCHANGED denied

(* The error arm of require_call_signature: refused and logged, or, in     *)
(* advisory mode, passed on to the handler without a verified signer.      *)
Reject(r) ==
    \/ /\ Enforce[r]
       /\ pc' = [pc EXCEPT ![r] = "refused"]
       /\ LogDenied(r)
    \/ /\ ~Enforce[r]
       /\ pc' = [pc EXCEPT ![r] = "unverified"]
       /\ UNCHANGED denied

(* No signature headers.  A DPoP proof is looked at only when the server   *)
(* accepts DPoP; otherwise the request lacks the call-sig headers.         *)
MissingHeaders(r) ==
    /\ pc[r] = "arrived"
    /\ call[r].scheme = "none" \/ (call[r].scheme = "dpop" /\ ~AcceptDpop)
    /\ Reject(r)
    /\ UNCHANGED <<now, agents, nonces, call, clock>>

(* The skew check comes first for a call signature and after the agent     *)
(* lookup for a DPoP proof.                                                *)
CheckClock(r) ==
    /\ \/ pc[r] = "arrived" /\ call[r].scheme = "call_sig"
       \/ pc[r] = "known" /\ call[r].scheme = "dpop"
    /\ \/ /\ TimelyAt(call[r], now)
          /\ pc' = [pc EXCEPT ![r] = IF call[r].scheme = "dpop" THEN "checked" ELSE "timely"]
          /\ clock' = [clock EXCEPT ![r] = now]
          /\ UNCHANGED denied
       \/ /\ ~TimelyAt(call[r], now)
          /\ Reject(r)
          /\ UNCHANGED clock
    /\ UNCHANGED <<now, agents, nonces, call>>

(* Mutant of ActiveAgent: revocation is not part of the query. *)
LeasedAgent(a, t) == Lease[a] > Secs(t)

(* SELECT ... WHERE revoked = 0 AND expires_at > now, with a `now` that    *)
(* was read before the connection was checked out of the pool.             *)
ActiveAgent(a, t) == ~agents[a].revoked /\ Lease[a] > Secs(t)

(* The agent row, then what is verified against it: the config digest and  *)
(* mandate (not part of a DPoP proof) and the signature.                   *)
ReadAgent(r) ==
    LET c == call[r]
        ok == /\ ActiveAgent(c.agent, clock[r])
              /\ c.scheme = "call_sig" => c.digest = agents[c.agent].digest
              /\ c.good
    IN
    /\ \/ pc[r] = "timely"
       \/ pc[r] = "arrived" /\ c.scheme = "dpop" /\ AcceptDpop
    /\ \/ /\ ok
          /\ pc' = [pc EXCEPT ![r] = IF c.scheme = "dpop" THEN "known" ELSE "checked"]
          /\ UNCHANGED denied
       \/ ~ok /\ Reject(r)
    /\ UNCHANGED <<now, agents, nonces, call, clock>>

Spent(c) == \E n \in nonces : n.key = NonceKey(c)

(* consume_call_nonce: one INSERT under the primary key.  A signer whose   *)
(* body names another agent is refused after its nonce is spent, and that  *)
(* refusal is returned without being logged.                               *)
ConsumeNonce(r) ==
    /\ pc[r] = "checked"
    /\ ~Spent(call[r])
    /\ nonces' = nonces \cup {[key |-> NonceKey(call[r]), exp |-> NonceExp(call[r])]}
    /\ pc' = [pc EXCEPT ![r] = IF call[r].names = "other" THEN "refused" ELSE "verified"]
    /\ UNCHANGED <<now, agents, call, clock, denied>>

(* The primary key rejects the insert (409), or the backend fails (500). *)
NonceRefused(r) ==
    /\ pc[r] = "checked"
    /\ Reject(r)
    /\ UNCHANGED <<now, agents, nonces, call, clock>>

-----------------------------------------------------------------------------
(* The rest of the system.                                                 *)

(* spawn_background_gc: DELETE FROM agent_call_nonces WHERE exp < now *)
CollectNonces ==
    /\ \E n \in nonces : n.exp < Secs(now)
    /\ nonces' = {n \in nonces : n.exp >= Secs(now)}
    /\ UNCHANGED <<now, agents, pc, call, clock, denied>>

Revoke(a) ==
    /\ ~agents[a].revoked
    /\ agents' = [agents EXCEPT ![a].revoked = TRUE]
    /\ UNCHANGED <<now, nonces, pc, call, clock, denied>>

UpdateChecksum(a, d) ==
    /\ ~agents[a].revoked /\ agents[a].digest # d
    /\ agents' = [agents EXCEPT ![a].digest = d]
    /\ UNCHANGED <<now, nonces, pc, call, clock, denied>>

(* The server stops: a request in progress is never answered. *)
Crash ==
    /\ \E r \in Request : pc[r] \notin Answered \cup {"new"}
    /\ pc' = [r \in Request |-> IF pc[r] \in Answered \cup {"new"} THEN pc[r] ELSE "lost"]
    /\ UNCHANGED <<now, agents, nonces, call, clock, denied>>

(* Time passes, but a request does not stay longer than Stall between the  *)
(* skew check and the nonce insert.                                        *)
Tick ==
    /\ now < MaxTime
    /\ \A r \in Request : pc[r] \in {"timely", "checked"} => now < clock[r] + Stall
    /\ now' = now + 1
    /\ UNCHANGED <<agents, nonces, pc, call, clock, denied>>

RequestStep(r) ==
    \/ MissingHeaders(r) \/ CheckClock(r) \/ ReadAgent(r) \/ ConsumeNonce(r) \/ NonceRefused(r)

Next ==
    \/ \E r \in Request : RequestStep(r) \/ \E c \in Call : Arrive(r, c)
    \/ \E a \in Agent : Revoke(a) \/ \E d \in Digest : UpdateChecksum(a, d)
    \/ CollectNonces \/ Crash \/ Tick

Spec == Init /\ [][Next]_vars

-----------------------------------------------------------------------------
(* Properties.                                                             *)

(* consume_call_nonce: "a captured per-call signature cannot be replayed". *)
(* However often a signed call is delivered, and however the collection of *)
(* old nonces interleaves with slow requests, at most one delivery reaches *)
(* the handler as verified.                                                *)
VerifiedOnce ==
    \A r, s \in Request :
        /\ r # s /\ pc[r] = "verified" /\ pc[s] = "verified"
        /\ NonceKey(call[r]) = NonceKey(call[s])
        => call[r].ts # call[s].ts

(* The agent row is read once and used after the nonce insert was awaited: *)
(* only a request that had read the row before the revocation can still be *)
(* verified after it, and no request whose clock reading is past the lease. *)
RowNotReadYet(r) ==
    pc[r] \in {"arrived", "timely"} /\ (call[r].scheme = "dpop" => pc[r] = "arrived")
InactiveNeverVerified ==
    \A r \in Request :
        [](RowNotReadYet(r) /\ (agents[call[r].agent].revoked \/ Lease[call[r].agent] <= Secs(clock[r]))
              => [](pc[r] # "verified"))

(* log_denied_egress: "a blocked call ... is visible in the audit feed ... *)
(* not silently dropped": every refused call to the egress log that can be *)
(* attributed to an agent is logged.  (Stated for a log that can be        *)
(* written; the code does not promise more.)                               *)
DeniedEgressLogged ==
    \A r \in Request : pc[r] = "refused" /\ Attributable(call[r]) => LogFails \/ r \in denied

=============================================================================
