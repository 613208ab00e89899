----------------------------- MODULE HashChain -----------------------------
(***************************************************************************)
(* What a hash-chained table promises: an append takes the next position   *)
(* and links to the current head in one indivisible step.  The security    *)
(* audit log and the action receipts are both tables of this kind; their   *)
(* modules read the head and insert the row in two separate statements and *)
(* are compared with this one.                                             *)
(*                                                                         *)
(* A row's hash covers its whole content, so two rows have the same hash   *)
(* only when they are the same row: the model names a hash by the id of    *)
(* the row it was computed from.                                           *)
(***************************************************************************)
EXTENDS Integers

CONSTANTS
    Entry,     \* ids of the rows that can be appended
    Genesis    \* what the first row links to

VARIABLE rows

Row == [id : Entry, seq : Nat \ {0}, prev : Entry \cup {Genesis}]

(* `ORDER BY seq DESC LIMIT 1`: any row of the greatest seq may be returned. *)
Heads(rs) ==
    IF rs = {} THEN {[seq |-> 0, id |-> Genesis]}
    ELSE {[seq |-> r.seq, id |-> r.id] : r \in {x \in rs : \A y \in rs : y.seq <= x.seq}}

(* Mutant of LinkedRow: the position is not advanced. *)
LinkedRowSameSeq(e, h) == [id |-> e, seq |-> h.seq, prev |-> h.id]

(* The row that links entry e to the head h. *)
LinkedRow(e, h) == [id |-> e, seq |-> h.seq + 1, prev |-> h.id]

(* The walk of a chain verifier succeeds: in seq order the rows count      *)
(* 1, 2, 3, ... and each links to the one before it.                       *)
Verifies(rs) ==
    /\ \A r, s \in rs : r.seq = s.seq => r = s
    /\ \A r \in rs :
          \/ r.seq = 1 /\ r.prev = Genesis
          \/ \E p \in rs : p.seq + 1 = r.seq /\ r.prev = p.id

-----------------------------------------------------------------------------

Init == rows = {}

Append(e) ==
    /\ \A r \in rows : r.id # e
    /\ \E h \in Heads(rows) : rows' = rows \cup {LinkedRow(e, h)}

Next == \E e \in Entry : Append(e)

Spec == Init /\ [][Next]_rows
=============================================================================
