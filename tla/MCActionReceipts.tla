-------------------------- MODULE MCActionReceipts --------------------------
(* Two tenants.  The envelopes of tenant t1 are an identity envelope, an   *)
(* anonymous one with the same nonce, and one with a bad signature; t2     *)
(* has one identity envelope that stays valid longer.                      *)
EXTENDS ActionReceipts, TLC

CONSTANTS t1, t2, s1, s2, n1, n2

LeaseOf == [s \in Signer |-> IF s = s1 THEN 3 ELSE MaxTime + 1]

Plain == [tenant |-> t1, path |-> "identity", signer |-> s1, nonce |-> n1,
          exp |-> 1, good |-> TRUE]

Envelopes == {Plain,
              [Plain EXCEPT !.path = "anon", !.signer = s2],
              [Plain EXCEPT !.nonce = n2, !.good = FALSE],
              [Plain EXCEPT !.tenant = t2, !.signer = s2, !.nonce = n2, !.exp = 3]}

Requests == Permutations(Request)

(* The same without the bad signature. *)
GoodEnvelopes == {e \in Envelopes : e.good}
=============================================================================
