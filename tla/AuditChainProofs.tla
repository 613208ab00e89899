-------------------------- MODULE AuditChainProofs --------------------------
(***************************************************************************)
(* The audit chain verifies in every supported deployment.                 *)
(*                                                                         *)
(* ChainVerifies is not inductive: a writer that is about to insert may    *)
(* have read its head long ago.  IInv adds that the seqs have no gaps      *)
(* (Dense), that the head a writer holds was the genesis or is a row of    *)
(* the table (so, with the unique index, an insert that succeeds follows   *)
(* the last row), and that without the index the chain lock keeps that     *)
(* head current.                                                           *)
(***************************************************************************)
EXTENDS AuditChain, TLAPS

Dense == \A r \in rows : \A n \in 1..r.seq : \E p \in rows : p.seq = n

EventsAreDistinct ==
    /\ \A w \in Writer : pc[w] # "idle" => cur[w] \in Event \ Logged
    /\ \A v, w \in Writer : v # w /\ pc[v] # "idle" => cur[v] # cur[w]

HeadWasRead ==
    \A w \in Writer : pc[w] = "insert" =>
        \/ head[w] = Start
        \/ \E r \in rows : head[w] = [seq |-> r.seq, id |-> r.id]

LockKeepsHead ==
    ~UniqueSeq => \A w \in Writer :
        /\ pc[w] \in {"read", "insert"} => lock[ProcOf[w]] = w
        /\ pc[w] = "insert" => head[w] \in Chain!Heads(rows)

IInv ==
    /\ TypeOK
    /\ Dense
    /\ ChainVerifies
    /\ EventsAreDistinct
    /\ HeadWasRead
    /\ LockKeepsHead

-----------------------------------------------------------------------------
(* Type correctness.                                                       *)

(* Returning from write_db_sink keeps the types of what it assigns.        *)
LEMMA ReturnTyped ==
    ASSUME TypeOK, NEW w \in Writer, pc[w] # "idle", Return(w)
    PROVE  /\ lock' \in [Process -> Writer \cup {NoOne}]
           /\ pc' \in [Writer -> {"idle", "file", "connect", "lock", "read", "insert"}]
           /\ cur' \in [Writer -> Event \cup {NoOne}]
           /\ head' \in [Writer -> [seq : Nat, id : Event \cup {Genesis}]]
           /\ tries' \in [Writer -> 0..Attempts]
           /\ done' \in [Process -> SUBSET Event]
           /\ \A v \in Writer : pc'[v] = "idle" <=> cur'[v] = NoOne
<1> USE AuditConstants DEF TypeOK, Return
<1>0. head' \in [Writer -> [seq : Nat, id : Event \cup {Genesis}]]
  <2>1. Start \in [seq : Nat, id : Event \cup {Genesis}]
    BY Zenon DEF Start
  <2> QED
    BY Zenon, <2>1
<1>1. lock' \in [Process -> Writer \cup {NoOne}]
  BY Zenon
<1>2. tries' \in [Writer -> 0..Attempts]
  <2>1. 0 \in 0..Attempts
    OBVIOUS
  <2> QED
    BY Zenon, <2>1
<1>3. done' \in [Process -> SUBSET Event]
  <2>1. cur[w] \in Event
    BY Zenon
  <2> QED
    BY Zenon, <2>1
<1> QED
  BY Zenon, <1>0, <1>1, <1>2, <1>3

(* Every step keeps the types.                                             *)
LEMMA TypeStep == TypeOK /\ [Next]_vars => TypeOK'
<1> SUFFICES ASSUME TypeOK, [Next]_vars
             PROVE  TypeOK'
  BY Zenon
<1> USE AuditConstants DEF TypeOK
<1>1. ASSUME NEW w \in Writer, Record(w)
      PROVE  TypeOK'
  <2>1. PICK e \in Event : cur' = [cur EXCEPT ![w] = e]
    BY Zenon, <1>1 DEF Record, Fresh
  <2>2. pc' = [pc EXCEPT ![w] = "file"] /\ UNCHANGED <<rows, file, lock, head, tries, failures, done>>
    BY Zenon, <1>1 DEF Record
  <2>3. cur' \in [Writer -> Event \cup {NoOne}]
    BY Zenon, <2>1
  <2>4. \A v \in Writer : pc'[v] = "idle" <=> cur'[v] = NoOne
    BY Zenon, <2>1, <2>2
  <2> QED
    BY Zenon, <2>2, <2>3, <2>4
<1>2. ASSUME NEW w \in Writer, WriteFileSink(w)
      PROVE  TypeOK'
  <2>1. cur[w] \in Event
    BY Zenon, <1>2 DEF WriteFileSink
  <2>2. file' \subseteq Event /\ failures' \in [Process -> Nat]
    BY <1>2, <2>1 DEF WriteFileSink, CountFailure
  <2> QED
    BY Zenon, <1>2, <2>2 DEF WriteFileSink
<1>3. ASSUME NEW w \in Writer, Checkout(w)
      PROVE  TypeOK'
  <2>1. CASE pc' = [pc EXCEPT ![w] = "lock"] /\ UNCHANGED <<lock, cur, head, tries, failures, done>>
    BY Zenon, <1>3, <2>1 DEF Checkout
  <2>2. CASE CountFailure(ProcOf[w]) /\ Return(w)
    BY <1>3, <2>2, ReturnTyped DEF Checkout, CountFailure
  <2> QED
    BY Zenon, <1>3, <2>1, <2>2 DEF Checkout
<1>4. ASSUME NEW w \in Writer, TakeChainLock(w)
      PROVE  TypeOK'
  BY Zenon, <1>4 DEF TakeChainLock
<1>5. ASSUME NEW w \in Writer, ReadHead(w)
      PROVE  TypeOK'
  <2>1. PICK h \in Chain!Heads(rows) \cup {Start} : head' = [head EXCEPT ![w] = h]
    BY Zenon, <1>5 DEF ReadHead
  <2>2. h \in [seq : Nat, id : Event \cup {Genesis}]
    BY <2>1 DEF Chain!Heads, Chain!Row, Start
  <2>3. head' \in [Writer -> [seq : Nat, id : Event \cup {Genesis}]]
    BY Zenon, <2>1, <2>2
  <2> QED
    BY Zenon, <1>5, <2>3 DEF ReadHead
<1>6. ASSUME NEW w \in Writer, AppendRow(w), UNCHANGED failures \/ CountFailure(ProcOf[w])
      PROVE  TypeOK'
  <2>1. rows' \subseteq Chain!Row
    <3>1. cur[w] \in Event /\ head[w] \in [seq : Nat, id : Event \cup {Genesis}]
      BY Zenon, <1>6 DEF AppendRow
    <3>2. Chain!LinkedRow(cur[w], head[w]) \in Chain!Row
      BY <3>1 DEF Chain!LinkedRow, Chain!Row
    <3> QED
      BY Zenon, <1>6, <3>2 DEF AppendRow
  <2>2. failures' \in [Process -> Nat]
    BY <1>6 DEF CountFailure
  <2> QED
    BY Zenon, <1>6, <2>1, <2>2, ReturnTyped DEF AppendRow
<1>7. ASSUME NEW w \in Writer, InsertRetry(w)
      PROVE  TypeOK'
  <2>1. Start \in [seq : Nat, id : Event \cup {Genesis}]
    BY Zenon DEF Start
  <2>2. tries' \in [Writer -> 0..Attempts]
    BY <1>7 DEF InsertRetry
  <2> QED
    BY Zenon, <1>7, <2>1, <2>2 DEF InsertRetry
<1>8. ASSUME NEW w \in Writer, InsertFails(w)
      PROVE  TypeOK'
  <2>1. failures' \in [Process -> Nat]
    BY <1>8 DEF InsertFails, CountFailure
  <2> QED
    BY Zenon, <1>8, <2>1, ReturnTyped DEF InsertFails
<1>9. ASSUME NEW p \in Process, Crash(p)
      PROVE  TypeOK'
  <2>1. Start \in [seq : Nat, id : Event \cup {Genesis}]
    BY Zenon DEF Start
  <2>2. tries' \in [Writer -> 0..Attempts] /\ failures' \in [Process -> Nat]
    BY <1>9 DEF Crash
  <2> QED
    BY Zenon, <1>9, <2>1, <2>2 DEF Crash
<1>10. CASE UNCHANGED vars
  BY Zenon, <1>10 DEF vars
<1> QED
  BY Zenon, <1>1, <1>2, <1>3, <1>4, <1>5, <1>6, <1>7, <1>8, <1>9, <1>10
  DEF Next, WriterStep, InsertOk, InsertAnswerLost

(* Every variable of the audit sink keeps its type, in particular rows     *)
(* only ever holds well-formed rows with seq >= 1.                         *)
THEOREM TypeCorrect == Spec => []TypeOK
<1>1. Init => TypeOK
  BY AuditConstants DEF Init, TypeOK, Start
<1> QED
  BY <1>1, TypeStep, PTL DEF Spec

-----------------------------------------------------------------------------
(* The chain.                                                              *)

(* An insert that the database accepts links to the last row of the table, *)
(* however long ago the writer read its head.                              *)
LEMMA InsertFollowsHead ==
    ASSUME IInv, NEW w \in Writer, pc[w] = "insert", ~LostTheRace(w)
    PROVE  head[w] \in Chain!Heads(rows)
<1> USE AuditConstants DEF IInv
<1>1. CASE ~UniqueSeq
  BY Zenon, <1>1 DEF LockKeepsHead
<1>2. CASE UniqueSeq
  <2>1. \A r \in rows : r.seq \in Nat \ {0}
    BY Zenon DEF TypeOK, Chain!Row
  <2>2. \A r \in rows : r.seq # head[w].seq + 1
    BY Zenon, <1>2 DEF LostTheRace
  <2>3. head[w].seq \in Nat
    BY Zenon DEF TypeOK
  <2>4. \A r \in rows : r.seq <= head[w].seq
    <3> SUFFICES ASSUME NEW r \in rows, r.seq > head[w].seq
                 PROVE  FALSE
      BY <2>1, <2>3
    <3>1. head[w].seq + 1 \in 1..r.seq
      BY <2>1, <2>3
    <3> QED
      BY Zenon, <2>2, <3>1 DEF Dense
  <2>5. CASE head[w] = Start
    <3>1. rows = {}
      BY <2>1, <2>4, <2>5 DEF Start
    <3> QED
      BY Zenon, <2>5, <3>1 DEF Chain!Heads, Start
  <2>6. CASE \E r \in rows : head[w] = [seq |-> r.seq, id |-> r.id]
    BY <2>4, <2>6 DEF Chain!Heads
  <2> QED
    BY Zenon, <2>5, <2>6 DEF HeadWasRead
<1> QED
  BY Zenon, <1>1, <1>2

(* Appending the row that links to a head keeps the chain gap-free and     *)
(* verifiable.                                                             *)
LEMMA LinkKeepsChain ==
    ASSUME NEW rs, rs \subseteq Chain!Row, NEW h \in Chain!Heads(rs), NEW e \in Event,
           Chain!Verifies(rs),
           \A r \in rs : \A n \in 1..r.seq : \E p \in rs : p.seq = n
    PROVE  LET new == rs \cup {Chain!LinkedRow(e, h)}
           IN  /\ Chain!Verifies(new)
               /\ \A r \in new : \A n \in 1..r.seq : \E p \in new : p.seq = n
<1> DEFINE row == Chain!LinkedRow(e, h)
           new == rs \cup {row}
<1> SUFFICES Chain!Verifies(new) /\ \A r \in new : \A n \in 1..r.seq : \E p \in new : p.seq = n
  BY Zenon
<1>1. row.seq = h.seq + 1 /\ row.prev = h.id
  BY Zenon DEF Chain!LinkedRow
<1>2. \A r \in rs : r.seq \in Nat \ {0}
  BY Zenon DEF Chain!Row
<1>3. CASE rs = {}
  <2>1. h = Start
    BY Zenon, <1>3 DEF Chain!Heads, Start
  <2>2. row.seq = 1 /\ row.prev = Genesis
    BY <1>1, <2>1 DEF Start
  <2>3. new = {row}
    BY Zenon, <1>3
  <2> HIDE DEF row
  <2> QED
    BY <2>2, <2>3 DEF Chain!Verifies
<1>4. CASE rs # {}
  <2>1. PICK last \in rs : h = [seq |-> last.seq, id |-> last.id] /\ \A y \in rs : y.seq <= last.seq
    BY Zenon, <1>4 DEF Chain!Heads
  <2>2. row.seq = last.seq + 1 /\ row.prev = last.id
    BY Zenon, <1>1, <2>1
  <2> HIDE DEF row
  <2>3. \A r \in rs : r.seq # row.seq
    BY <1>2, <2>1, <2>2
  <2>4. Chain!Verifies(new)
    BY Zenon, <2>2, <2>3 DEF Chain!Verifies
  <2>5. \A n \in 1..row.seq : \E p \in new : p.seq = n
    <3> SUFFICES ASSUME NEW n \in 1..row.seq
                 PROVE  \E p \in new : p.seq = n
      BY Zenon
    <3>1. CASE n = row.seq
      BY Zenon, <3>1
    <3>2. CASE n # row.seq
      <4>1. n \in 1..last.seq
        BY <1>2, <2>2, <3>2
      <4> QED
        BY Zenon, <4>1
    <3> QED
      BY Zenon, <3>1, <3>2
  <2> QED
    BY Zenon, <2>4, <2>5
<1> QED
  BY Zenon, <1>3, <1>4

(* The inductive invariant holds initially. *)
LEMMA IInvInit == Init => IInv
<1> SUFFICES ASSUME Init PROVE IInv
  BY Zenon
<1>1. TypeOK
  BY AuditConstants DEF Init, TypeOK, Start
<1> QED
  BY Zenon, <1>1 DEF Init, IInv, Dense, ChainVerifies, Chain!Verifies, EventsAreDistinct,
              HeadWasRead, LockKeepsHead

(* Every step keeps it.  Only AppendRow changes the table; a writer that    *)
(* returns or crashes gives up the lock but holds no head any more.        *)
LEMMA IInvStep ==
    ASSUME UniqueSeq \/ ~HeadReadFails, IInv, [Next]_vars
    PROVE  IInv'
<1> USE AuditConstants
<1>0. TypeOK'
  BY Zenon, TypeStep DEF IInv
<1>t. TypeOK /\ Dense /\ ChainVerifies /\ EventsAreDistinct /\ HeadWasRead /\ LockKeepsHead
  BY Zenon DEF IInv
<1>s. ASSUME UNCHANGED rows
      PROVE  Dense' /\ ChainVerifies' /\ Logged' = Logged /\ Chain!Heads(rows)' = Chain!Heads(rows)
  BY Zenon, <1>t, <1>s DEF Dense, ChainVerifies, Chain!Verifies, Logged, Chain!Heads
<1>1. ASSUME NEW w \in Writer, Record(w)
      PROVE  IInv'
  <2>1. PICK e \in Fresh : cur' = [cur EXCEPT ![w] = e]
    BY Zenon, <1>1 DEF Record
  <2>2. EventsAreDistinct'
    BY <1>1, <1>s, <1>t, <2>1 DEF Record, EventsAreDistinct, Fresh, TypeOK
  <2>3. HeadWasRead'
    BY ZenonT(60), <1>1, <1>s, <1>t DEF Record, HeadWasRead, TypeOK
  <2>4. LockKeepsHead'
    BY Zenon, <1>1, <1>s, <1>t DEF Record, LockKeepsHead, TypeOK
  <2> QED
    BY Zenon, <1>0, <1>1, <1>s, <2>2, <2>3, <2>4 DEF IInv, Record
<1>2. ASSUME NEW w \in Writer, WriteFileSink(w)
      PROVE  IInv'
  <2>1. EventsAreDistinct'
    BY Zenon, <1>2, <1>s, <1>t DEF WriteFileSink, EventsAreDistinct, TypeOK
  <2>2. HeadWasRead'
    BY Zenon, <1>2, <1>s, <1>t DEF WriteFileSink, HeadWasRead, TypeOK
  <2>3. LockKeepsHead'
    BY Zenon, <1>2, <1>s, <1>t DEF WriteFileSink, LockKeepsHead, TypeOK
  <2> QED
    BY Zenon, <1>0, <1>2, <1>s, <2>1, <2>2, <2>3 DEF WriteFileSink, IInv
<1>r. ASSUME NEW w \in Writer, Return(w), UNCHANGED rows
      PROVE  EventsAreDistinct' /\ HeadWasRead' /\ LockKeepsHead'
  <2>1. EventsAreDistinct'
    BY Zenon, <1>r, <1>s, <1>t DEF Return, EventsAreDistinct, TypeOK
  <2>2. HeadWasRead'
    BY Zenon, <1>r, <1>s, <1>t DEF Return, HeadWasRead, TypeOK
  <2>3. LockKeepsHead'
    BY Zenon, <1>r, <1>s, <1>t DEF Return, LockKeepsHead, TypeOK
  <2> QED
    BY Zenon, <2>1, <2>2, <2>3
<1>3. ASSUME NEW w \in Writer, Checkout(w)
      PROVE  IInv'
  <2>1. CASE pc' = [pc EXCEPT ![w] = "lock"] /\ UNCHANGED <<lock, cur, head, tries, failures, done>>
    <3>1. EventsAreDistinct'
      BY Zenon, <1>3, <1>s, <1>t, <2>1 DEF Checkout, EventsAreDistinct, TypeOK
    <3>2. HeadWasRead'
      BY Zenon, <1>3, <1>s, <1>t, <2>1 DEF Checkout, HeadWasRead, TypeOK
    <3>3. LockKeepsHead'
      BY Zenon, <1>3, <1>s, <1>t, <2>1 DEF Checkout, LockKeepsHead, TypeOK
    <3> QED
      BY Zenon, <1>0, <1>3, <1>s, <3>1, <3>2, <3>3 DEF Checkout, IInv
  <2>2. CASE CountFailure(ProcOf[w]) /\ Return(w)
    BY Zenon, <1>0, <1>3, <1>s, <1>r, <2>2 DEF Checkout, IInv
  <2> QED
    BY Zenon, <1>3, <2>1, <2>2 DEF Checkout
<1>4. ASSUME NEW w \in Writer, TakeChainLock(w)
      PROVE  IInv'
  <2>1. EventsAreDistinct'
    BY Zenon, <1>4, <1>s, <1>t DEF TakeChainLock, EventsAreDistinct, TypeOK
  <2>3. HeadWasRead'
    BY Zenon, <1>4, <1>s, <1>t DEF TakeChainLock, HeadWasRead, TypeOK
  <2>2. LockKeepsHead'
    BY Zenon, <1>4, <1>s, <1>t DEF TakeChainLock, LockKeepsHead, TypeOK
  <2> QED
    BY Zenon, <1>0, <1>4, <1>s, <2>1, <2>2, <2>3 DEF TakeChainLock, IInv
<1>5. ASSUME NEW w \in Writer, ReadHead(w)
      PROVE  IInv'
  <2>1. PICK h \in Chain!Heads(rows)
                   \cup (IF HeadReadFails THEN {Start} ELSE {}) :
           head' = [head EXCEPT ![w] = h]
    BY Zenon, <1>5 DEF ReadHead
  <2>2. h = Start \/ \E r \in rows : h = [seq |-> r.seq, id |-> r.id]
    BY Zenon, <2>1 DEF Chain!Heads, Start
  <2>3. ~UniqueSeq => h \in Chain!Heads(rows)
    BY Zenon, <2>1
  <2>4. EventsAreDistinct'
    BY Zenon, <1>5, <1>s, <1>t DEF ReadHead, EventsAreDistinct, TypeOK
  <2>5. HeadWasRead'
    <3> SUFFICES ASSUME NEW v \in Writer, pc'[v] = "insert"
                 PROVE  \/ head'[v] = Start
                        \/ \E r \in rows' : head'[v] = [seq |-> r.seq, id |-> r.id]
      BY Zenon DEF HeadWasRead, Start
    <3>1. pc' = [pc EXCEPT ![w] = "insert"] /\ rows' = rows
      BY Zenon, <1>5 DEF ReadHead
    <3>2. CASE v = w
      BY Zenon, <1>t, <2>1, <2>2, <3>1, <3>2 DEF TypeOK
    <3>3. CASE v # w
      BY Zenon, <1>t, <2>1, <3>1, <3>3 DEF HeadWasRead, TypeOK
    <3> QED
      BY Zenon, <3>2, <3>3
  <2>6. LockKeepsHead'
    BY Zenon, <1>5, <1>s, <1>t, <2>1, <2>3 DEF ReadHead, LockKeepsHead, TypeOK
  <2> QED
    BY Zenon, <1>0, <1>5, <1>s, <2>4, <2>5, <2>6 DEF ReadHead, IInv
<1>6. ASSUME NEW w \in Writer, AppendRow(w)
      PROVE  IInv'
  <2>1. cur[w] \in Event /\ head[w] \in Chain!Heads(rows)
    BY Zenon, <1>6, <1>t, InsertFollowsHead DEF AppendRow, EventsAreDistinct
  <2>2. rows' = rows \cup {Chain!LinkedRow(cur[w], head[w])}
    BY Zenon, <1>6 DEF AppendRow
  <2>3. Dense' /\ ChainVerifies'
    BY <1>t, <2>1, <2>2, LinkKeepsChain DEF Dense, ChainVerifies, Chain!Verifies, TypeOK
  <2>4. EventsAreDistinct'
    <3>1. Logged' = Logged \cup {cur[w]}
      <4>1. Chain!LinkedRow(cur[w], head[w]).id = cur[w]
        BY Zenon DEF Chain!LinkedRow
      <4> QED
        BY <2>2, <4>1, Zenon DEF Logged
    <3> QED
      BY Zenon, <1>6, <1>t, <3>1 DEF AppendRow, Return, EventsAreDistinct, TypeOK
  <2>5. HeadWasRead'
    BY Zenon, <1>6, <1>t, <2>2 DEF AppendRow, Return, HeadWasRead, TypeOK
  <2>6. LockKeepsHead'
    <3> SUFFICES ASSUME ~UniqueSeq
                 PROVE  LockKeepsHead'
      BY Zenon DEF LockKeepsHead
    <3>1. \A v \in Writer : v # w => pc[v] \notin {"read", "insert"}
      BY <1>6, <1>t, Deployment DEF AppendRow, LockKeepsHead, TypeOK
    <3> QED
      BY Zenon, <1>6, <1>t, <3>1 DEF AppendRow, Return, LockKeepsHead, TypeOK
  <2> QED
    BY Zenon, <1>0, <2>3, <2>4, <2>5, <2>6 DEF IInv
<1>7. ASSUME NEW w \in Writer, InsertRetry(w)
      PROVE  IInv'
  <2>1. EventsAreDistinct'
    BY Zenon, <1>7, <1>s, <1>t DEF InsertRetry, EventsAreDistinct, TypeOK
  <2>2. HeadWasRead'
    BY Zenon, <1>7, <1>s, <1>t DEF InsertRetry, HeadWasRead, TypeOK
  <2>3. LockKeepsHead'
    BY Zenon, <1>7, <1>s, <1>t DEF InsertRetry, LockKeepsHead, TypeOK
  <2> QED
    BY Zenon, <1>0, <1>7, <1>s, <2>1, <2>2, <2>3 DEF InsertRetry, IInv
<1>8. ASSUME NEW w \in Writer, InsertFails(w)
      PROVE  IInv'
  BY Zenon, <1>0, <1>8, <1>s, <1>r DEF InsertFails, IInv
<1>9. ASSUME NEW p \in Process, Crash(p)
      PROVE  IInv'
  <2>1. EventsAreDistinct'
    BY Zenon, <1>9, <1>s, <1>t DEF Crash, EventsAreDistinct, TypeOK
  <2>2. HeadWasRead'
    BY Zenon, <1>9, <1>t DEF Crash, HeadWasRead
  <2>3. LockKeepsHead'
    BY Zenon, <1>9, <1>s, <1>t DEF Crash, LockKeepsHead, TypeOK
  <2> QED
    BY Zenon, <1>0, <1>9, <1>s, <2>1, <2>2, <2>3 DEF Crash, IInv
<1>10. CASE UNCHANGED vars
  BY Zenon, <1>0, <1>10, <1>s, <1>t DEF vars, IInv, EventsAreDistinct, HeadWasRead, LockKeepsHead
<1> QED
  BY Zenon, <1>1, <1>2, <1>3, <1>4, <1>5, <1>6, <1>7, <1>8, <1>9, <1>10
  DEF Next, WriterStep, InsertOk, InsertAnswerLost

(* In every deployment where a failed head read cannot pass for an empty   *)
(* chain, verify_audit_chain accepts the table in every reachable state:   *)
(* for any number of processes with the unique index, for one process      *)
(* without it.                                                             *)
THEOREM AuditChainVerifies ==
    ASSUME UniqueSeq \/ ~HeadReadFails
    PROVE  Spec => []ChainVerifies
<1>1. IInv /\ [Next]_vars => IInv'
  BY Zenon, IInvStep
<1>2. IInv => ChainVerifies
  BY Zenon DEF IInv
<1> QED
  BY <1>1, <1>2, IInvInit, PTL DEF Spec

(* Under the same condition write_db_sink implements the atomic append of  *)
(* HashChain: the row it inserts takes the next seq and links to the head  *)
(* of that very moment, and no other step changes the table.               *)
THEOREM AuditAppendsAreAtomic ==
    ASSUME UniqueSeq \/ ~HeadReadFails
    PROVE  Spec => AppendsAreAtomic
<1>1. Init => Chain!Init
  BY Zenon DEF Init, Chain!Init
<1>2. IInv /\ [Next]_vars => [Chain!Next]_rows
  <2> SUFFICES ASSUME IInv, [Next]_vars, rows' # rows
               PROVE  Chain!Next
    BY Zenon
  <2>1. PICK w \in Writer : AppendRow(w)
    BY Zenon DEF Next, WriterStep, vars, Record, WriteFileSink, Checkout, TakeChainLock, ReadHead,
           InsertOk, InsertAnswerLost, InsertRetry, InsertFails, Crash
  <2>2. head[w] \in Chain!Heads(rows)
    BY Zenon, <2>1, InsertFollowsHead DEF AppendRow
  <2>3. cur[w] \in Event /\ \A r \in rows : r.id # cur[w]
    BY Zenon, <2>1 DEF IInv, AppendRow, EventsAreDistinct, Logged
  <2> QED
    BY Zenon, <2>1, <2>2, <2>3 DEF AppendRow, Chain!Next, Chain!Append
<1>3. IInv /\ [Next]_vars => IInv'
  BY Zenon, IInvStep
<1> QED
  BY <1>1, <1>2, <1>3, IInvInit, PTL DEF Spec, AppendsAreAtomic, Chain!Spec
=============================================================================
