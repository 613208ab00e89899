------------------------------- MODULE Anchor -------------------------------
(***************************************************************************)
(* Merkle anchoring of one tenant's action receipts:                       *)
(* anchor_pending_actions_for_tenant, run by the ticker and by the admin   *)
(* trigger, and proof_for_receipt_for_tenant, which rebuilds a batch.      *)
(*                                                                         *)
(* A pass reads the watermark of the last submitted batch, selects the     *)
(* receipts after it, stores the batch as pending, publishes its root and  *)
(* records the outcome.  Every statement runs on its own pooled            *)
(* connection; a receipt's created_at is a clock reading that its handler  *)
(* took before it inserted the row.                                        *)
(***************************************************************************)
EXTENDS Integers, FiniteSets

CONSTANTS
    ReceiptId,  \* receipt ids in their lexicographic order; random in the code
    Worker,     \* anchoring passes that can run at the same time
    Provider,   \* configured anchor providers (Bitcoin, Solana)
    BatchCap,   \* MAX_RECEIPTS_PER_BATCH
    MaxBatches, \* bound on the number of different batch rows
    MaxTime,    \* bound on the clock
    Burst,      \* most receipts with one created_at
    HeadRead,   \* whether a pass finds an audit-chain head: TRUE, FALSE or both
    NoBatch     \* a pass without a batch row

ASSUME AnchorConstants ==
    /\ ReceiptId \subseteq Nat \ {0}
    /\ BatchCap \in Nat \ {0} /\ MaxBatches \in Nat /\ MaxTime \in Nat \ {0} /\ Burst \in Nat
    /\ HeadRead \in (SUBSET BOOLEAN) \ {{}}

VARIABLES
    now,      \* the wall clock, in seconds
    receipts, \* agent_action_receipts
    anchors,  \* agent_action_anchors
    accepted, \* roots the providers took in; confirmation comes later
    pc,       \* progress of a pass
    mark,     \* the watermark a pass read
    batch,    \* the receipts a pass selected
    row,      \* the batch row a pass stored
    ok,       \* the providers that answered a pass with a receipt
    late      \* history: receipts inserted after a pass had selected past them

vars == <<now, receipts, anchors, accepted, pc, mark, batch, row, ok, late>>

Receipt == [at : Nat, id : Nat]
Status == {"pending", "submitted", "partial", "failed"}

(* A batch row without its random anchor_id: rows that agree on all of      *)
(* this are one element of anchors.                                        *)
AnchorRow == [members : SUBSET Receipt, from : Receipt, to : Receipt,
              head : BOOLEAN, status : Status, at : Nat]

(* batch_root_hex: what the Merkle root commits to *)
Root(b) == [members |-> b.members, head |-> b.head]

(* ORDER BY created_at ASC, receipt_id ASC *)
Before(x, y) == x.at < y.at \/ (x.at = y.at /\ x.id < y.id)

Submitted == {b \in anchors : b.status = "submitted"}

TypeOK ==
    /\ now \in 1..MaxTime
    /\ receipts \subseteq [at : Nat, id : ReceiptId]
    /\ anchors \subseteq AnchorRow
    /\ accepted \subseteq Provider \X [members : SUBSET Receipt, head : BOOLEAN]
    /\ pc \in [Worker -> {"idle", "marked", "selected", "stored", "published"}]
    /\ mark \in [Worker -> Receipt]
    /\ batch \in [Worker -> SUBSET receipts]
    /\ row \in [Worker -> AnchorRow \cup {NoBatch}]
    /\ ok \in [Worker -> SUBSET Provider]
    /\ late \subseteq receipts

Origin == [at |-> 0, id |-> 0]

Init ==
    /\ now = 1
    /\ receipts = {}
    /\ anchors = {}
    /\ accepted = {}
    /\ pc = [w \in Worker |-> "idle"]
    /\ mark = [w \in Worker |-> Origin]
    /\ batch = [w \in Worker |-> {}]
    /\ row = [w \in Worker |-> NoBatch]
    /\ ok = [w \in Worker |-> {}]
    /\ late = {}

-----------------------------------------------------------------------------
(* Receipts, as far as anchoring sees them.                                *)

Stored(i) == \E r \in receipts : r.id = i

(* Some pass has already selected a receipt that comes after r. *)
Passed(r) ==
    \/ \E b \in anchors : Before(r, b.to)
    \/ \E w \in Worker : \E x \in batch[w] : Before(r, x)

(* created_at is a clock reading the handler took some time before this     *)
(* insert, and nothing orders the inserts by it: a receipt may come in      *)
(* behind a pass.                                                          *)
InsertReceipt(i) ==
    /\ ~Stored(i)
    /\ \E t \in 1..now : LET new == [at |-> t, id |-> i] IN
          /\ Cardinality({r \in receipts : r.at = t}) < Burst
          /\ receipts' = receipts \cup {new}
          /\ late' = IF Passed(new) THEN late \cup {new} ELSE late
    /\ UNCHANGED <<now, anchors, accepted, pc, mark, batch, row, ok>>

Tick ==
    /\ now < MaxTime
    /\ now' = now + 1
    /\ UNCHANGED <<receipts, anchors, accepted, pc, mark, batch, row, ok, late>>

-----------------------------------------------------------------------------
(* One anchoring pass.                                                     *)

(* Mutant of Watermarks: batches that were not published count too. *)
WatermarksAnyStatus ==
    IF anchors = {} THEN {Origin}
    ELSE {b.to : b \in {x \in anchors : \A y \in anchors : y.to.at <= x.to.at}}

(* SELECT ... WHERE anchor_status = 'submitted' ORDER BY to_created_at DESC *)
(* LIMIT 1: any of the batches that end in the last second may be returned. *)
Watermarks ==
    IF Submitted = {} THEN {Origin}
    ELSE {b.to : b \in {x \in Submitted : \A y \in Submitted : y.to.at <= x.to.at}}

ReadWatermark(w) ==
    /\ pc[w] = "idle"
    /\ \E m \in Watermarks : mark' = [mark EXCEPT ![w] = m]
    /\ pc' = [pc EXCEPT ![w] = "marked"]
    /\ UNCHANGED <<now, receipts, anchors, accepted, batch, row, ok, late>>

(* An error of that query is read as "nothing anchored yet". *)
WatermarkLost(w) ==
    /\ pc[w] = "idle"
    /\ mark' = [mark EXCEPT ![w] = Origin]
    /\ pc' = [pc EXCEPT ![w] = "marked"]
    /\ UNCHANGED <<now, receipts, anchors, accepted, batch, row, ok, late>>

After(m) == {r \in receipts : Before(m, r)}

(* The first n of a set of receipts: ORDER BY ... LIMIT n *)
Least(rs, n) == {r \in rs : Cardinality({x \in rs : Before(x, r)}) < n}

SelectReceipts(w) ==
    /\ pc[w] = "marked"
    /\ batch' = [batch EXCEPT ![w] = Least(After(mark[w]), BatchCap)]
    /\ pc' = [pc EXCEPT ![w] = IF batch'[w] = {} THEN "idle" ELSE "selected"]
    /\ mark' = [mark EXCEPT ![w] = Origin]
    /\ UNCHANGED <<now, receipts, anchors, accepted, row, ok, late>>

(* The batch row is stored before its root is published.  The head of the  *)
(* audit chain is one more leaf under the root when there is one to read.   *)
StoreBatch(w) ==
    /\ pc[w] = "selected"
    /\ Cardinality(anchors) < MaxBatches
    /\ \E f, t \in batch[w], h \in HeadRead :
          /\ \A r \in batch[w] : ~Before(r, f) /\ ~Before(t, r)
          /\ row' = [row EXCEPT ![w] =
                [members |-> batch[w], from |-> f, to |-> t, head |-> h,
                 status |-> "pending", at |-> now]]
    /\ anchors' = anchors \cup {row'[w]}
    /\ batch' = [batch EXCEPT ![w] = {}]
    /\ pc' = [pc EXCEPT ![w] = "stored"]
    /\ UNCHANGED <<now, receipts, accepted, mark, ok, late>>

(* Both providers are tried in parallel and awaited: s are the ones that   *)
(* take the root in and answer with a receipt.                             *)
PublishTo(w, s) ==
    /\ pc[w] = "stored"
    /\ accepted' = accepted \cup (s \X {Root(row[w])})
    /\ ok' = [ok EXCEPT ![w] = s]
    /\ pc' = [pc EXCEPT ![w] = "published"]
    /\ UNCHANGED <<now, receipts, anchors, mark, batch, row, late>>

Publish(w) == PublishTo(w, Provider)

PublishFails(w) == \E s \in SUBSET Provider : s # Provider /\ PublishTo(w, s)

(* Mutant of Outcome: one provider is enough. *)
OutcomeAny(s) == IF s # {} THEN "submitted" ELSE "failed"

(* Mutant of Outcome: a status the readers do not know. *)
OutcomeUnlisted(s) == IF s = Provider THEN "submitted" ELSE "error"

Outcome(s) ==
    IF Provider # {} /\ s = Provider THEN "submitted"
    ELSE IF s # {} THEN "partial" ELSE "failed"

Finish(w) ==
    /\ pc' = [pc EXCEPT ![w] = "idle"]
    /\ mark' = [mark EXCEPT ![w] = Origin]
    /\ batch' = [batch EXCEPT ![w] = {}]
    /\ row' = [row EXCEPT ![w] = NoBatch]
    /\ ok' = [ok EXCEPT ![w] = {}]

(* UPDATE ... WHERE anchor_id: another row with the same contents, left     *)
(* pending by an earlier pass, stays as it is.                             *)
RecordOutcome(w) ==
    /\ pc[w] = "published"
    /\ \E same \in SUBSET {row[w]} :
          anchors' = (anchors \ {row[w]}) \cup same \cup {[row[w] EXCEPT !.status = Outcome(ok[w])]}
    /\ Finish(w)
    /\ UNCHANGED <<now, receipts, accepted, late>>

(* A statement of the pass fails, or the final UPDATE does (`.ok()`). *)
PassFails(w) ==
    /\ pc[w] \in {"marked", "selected", "published"}
    /\ Finish(w)
    /\ UNCHANGED <<now, receipts, anchors, accepted, late>>

(* The server stops: the passes in progress are gone. *)
Crash ==
    /\ pc' = [w \in Worker |-> "idle"]
    /\ mark' = [w \in Worker |-> Origin]
    /\ batch' = [w \in Worker |-> {}]
    /\ row' = [w \in Worker |-> NoBatch]
    /\ ok' = [w \in Worker |-> {}]
    /\ UNCHANGED <<now, receipts, anchors, accepted, late>>

PassStep(w) ==
    ReadWatermark(w) \/ SelectReceipts(w) \/ StoreBatch(w) \/ Publish(w) \/ RecordOutcome(w)

Fault ==
    \/ Crash
    \/ \E w \in Worker : WatermarkLost(w) \/ PublishFails(w) \/ PassFails(w)

Regular ==
    \/ \E i \in ReceiptId : InsertReceipt(i)
    \/ \E w \in Worker : PassStep(w)
    \/ Tick

Next == Regular \/ Fault

Spec == Init /\ [][Next]_vars

(* The ticker loops for ever, so a pass that can go on does, and from some  *)
(* time on the database, the providers and the server work: every step is  *)
(* one of those that need no fault.  (A pass that fails can look like one  *)
(* that found nothing to do, so ~Fault would exclude too much.)            *)
FairSpec ==
    /\ Spec
    /\ \A w \in Worker : WF_vars(PassStep(w))
    /\ <>[][Regular]_vars

-----------------------------------------------------------------------------
(* proof_for_receipt_for_tenant                                            *)

(* The batch it looks in: the oldest one whose seconds cover the receipt. *)
Covering(r) == {b \in anchors : b.from.at <= r.at /\ r.at <= b.to.at}

ProofBatches(r) == {b \in Covering(r) : \A c \in Covering(r) : b.at <= c.at}

(* Mutant of Rebuilt: created_at BETWEEN from and to. *)
RebuiltBySecond(b) == {r \in receipts : b.from.at <= r.at /\ r.at <= b.to.at}

(* The receipts it rebuilds the tree of a batch from. *)
Rebuilt(b) == {r \in receipts : ~Before(r, b.from) /\ ~Before(b.to, r)}

-----------------------------------------------------------------------------
(* "the leftover receipts are picked up by the next ticker tick - no data   *)
(* is dropped": everything up to the end of a submitted batch is in some   *)
(* submitted batch.  A later pass starts at that end, so a receipt missing  *)
(* here is never anchored.                                                 *)
SubmittedIsGapFree ==
    \A b \in Submitted, r \in receipts :
        ~Before(b.to, r) => \E c \in Submitted : r \in c.members

(* The receipts that were stored in time are never skipped: a gap below a   *)
(* submitted batch holds only receipts that came in late, whatever passes  *)
(* ran at the same time, failed or were cut short.                         *)
OnlyLateReceiptsMissed ==
    \A b \in Submitted, r \in receipts \ late :
        ~Before(b.to, r) => \E c \in Submitted : r \in c.members

(* A row that says submitted has its root accepted by every configured     *)
(* provider: a partial or failed publication never counts.                 *)
SubmittedIsAccepted ==
    \A b \in Submitted, p \in Provider : <<p, Root(b)>> \in accepted

(* The tuple range stored with a batch still selects, at any later time,    *)
(* all the receipts the batch was built from, and beyond them only receipts *)
(* that came in late.  (With a late one in the range the rebuilt tree is    *)
(* not the published one.)                                                 *)
RangeHoldsTheBatch ==
    \A b \in anchors : b.members \subseteq Rebuilt(b) /\ Rebuilt(b) \ b.members \subseteq late

(* "Any auditor with a copy of an `agent_action_receipts` row can" fetch    *)
(* the merkle path and re-derive the root: the batch that the proof        *)
(* endpoint picks for a submitted receipt holds it, and the tree it        *)
(* rebuilds has the leaves of the tree that was published.                 *)
ProofReachesTheRoot ==
    \A c \in Submitted : \A r \in c.members : \A b \in ProofBatches(r) :
        r \in Rebuilt(b) /\ [members |-> Rebuilt(b), head |-> FALSE] = Root(b)

(* The leftovers of a full batch are picked up by later passes: every      *)
(* receipt that is not late ends up in a submitted batch.                  *)
BacklogDrains ==
    \A i \in ReceiptId :
        (\E r \in receipts \ late : r.id = i) ~> \E b \in Submitted : \E r \in b.members : r.id = i
=============================================================================
