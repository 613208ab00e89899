----------------------------- MODULE MCPayments -----------------------------
(***************************************************************************)
(* Instances of Payments: two tokens of one agent, a second agent that     *)
(* tries to redeem an authorization of the first, and bodies that share a  *)
(* token, a challenge or a nonce in every combination that matters.        *)
(***************************************************************************)
EXTENDS Payments, TLC

CONSTANTS t1, t2, c1, c2, n1, n2, alice, bob

Say(k, t, c, n, e, s) ==
    [kind |-> k, token |-> t, challenge |-> c, nonce |-> n, exp |-> e, signer |-> s]

TokenHolder == (t1 :> alice) @@ (t2 :> alice)
Exps == (t1 :> 1) @@ (t2 :> 2)
Subjects == (c1 :> alice) @@ (c2 :> alice)
Leases == [a \in Agent |-> IF a = bob THEN 2 ELSE 3]

(* The second to fourth share nothing, a nonce, and a challenge with the    *)
(* first, whose envelope expires while they are in progress.               *)
Asking ==
    {Say("authorize", t1, c1, n1, 1, alice), Say("authorize", t2, c2, n2, 3, alice),
     Say("authorize", t2, c2, n1, 3, alice), Say("authorize", t2, c1, n2, 3, alice),
     Say("verify", t1, c2, n1, 3, alice), Say("inspect", t1, c1, n1, 3, alice)}

Redeeming ==
    {Say("authorize", t1, c1, n1, 2, alice), Say("consume", t1, c1, n1, 2, alice),
     Say("consume", t1, c1, n1, 2, bob)}

Requests == Permutations(Request)
=============================================================================
