---------------------------- MODULE MCAuditChain ----------------------------
(* Instances of AuditChain: writers w1 and w2 share a process in the       *)
(* SQLite deployment; w1 is alone in its process in the Postgres one.      *)
EXTENDS AuditChain

CONSTANTS p1, p2, w1, w2, w3

OneProcess == [w \in {w1, w2} |-> p1]
TwoProcesses == [w \in {w1, w2, w3} |-> IF w = w1 THEN p1 ELSE p2]
=============================================================================
