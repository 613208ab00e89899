-------------------------- MODULE MCCallSignature --------------------------
(* Calls of one agent: a call signature and a DPoP proof that use the same *)
(* nonce, a v3 call with an early expiry, a reused nonce with a later      *)
(* timestamp, a badly signed call, an unsigned one that names nobody, and  *)
(* a call whose body names another agent.                                  *)
EXTENDS CallSignature

CONSTANTS r1, a1, n1, d1, d2

(* r1 reaches a process that enforces signatures, r2 one in advisory mode. *)
Enforcing == [r \in Request |-> r = r1]
LeaseOf == [a \in Agent |-> 2]

Plain == [agent |-> a1, nonce |-> n1, digest |-> d1, scheme |-> "call_sig", ts |-> 1,
          until |-> MaxTime, good |-> TRUE, names |-> "signer", route |-> "egress_log"]

Calls == {Plain,
          [Plain EXCEPT !.scheme = "dpop", !.ts = 2],
          [Plain EXCEPT !.ts = 2, !.until = 3, !.digest = d2],
          [Plain EXCEPT !.good = FALSE, !.route = "other"],
          [Plain EXCEPT !.scheme = "none", !.names = "nobody"],
          [Plain EXCEPT !.names = "other"]}
=============================================================================
