----------------------------- MODULE AuditChain -----------------------------
(***************************************************************************)
(* The security audit log: audit_log::record and the sinks it writes to.   *)
(*                                                                         *)
(* A writer is a request thread of a server process.  It hands one event   *)
(* at a time to record(), which writes the file sink and then appends to   *)
(* the hash-chained table: it checks a connection out of the pool, takes   *)
(* the process-wide AUDIT_CHAIN_LOCK, and up to Attempts times reads the   *)
(* head and inserts the row that links to it.  The two statements are not  *)
(* one transaction, so a writer of another process can insert between      *)
(* them; UniqueSeq is the Postgres index uq_security_audit_seq that turns  *)
(* such a race into an error the loser retries on.                         *)
(***************************************************************************)
EXTENDS Integers, FiniteSets

CONSTANTS
    Process,       \* server processes sharing the database
    Writer,        \* request threads
    ProcOf,        \* the process a writer runs in
    Event,         \* audit events, named by their audit_id
    Genesis,       \* prev_hash of the first row
    NoOne,         \* "nobody": the lock is free, the writer has no event
    UniqueSeq,     \* TRUE on Postgres: UNIQUE index on seq
    HeadReadFails, \* TRUE: the SELECT of the head may fail
    FileSink,      \* TRUE: SAURON_AUDIT_LOG_PATH is set
    Attempts       \* AUDIT_CHAIN_APPEND_ATTEMPTS

ASSUME AuditConstants ==
    /\ ProcOf \in [Writer -> Process]
    /\ Genesis \notin Event
    /\ NoOne \notin Writer /\ NoOne \notin Event
    /\ UniqueSeq \in BOOLEAN /\ HeadReadFails \in BOOLEAN /\ FileSink \in BOOLEAN
    /\ Attempts \in Nat \ {0}

(* The deployments the code supports: several processes only with the      *)
(* unique index, SQLite with a single process.                             *)
ASSUME Deployment == UniqueSeq \/ \A p, q \in Process : p = q

VARIABLES
    rows,     \* security_audit_log
    file,     \* events in the file sink
    lock,     \* AUDIT_CHAIN_LOCK of each process
    pc,       \* where a writer is in record()
    cur,      \* the event a writer is recording
    head,     \* the head a writer has read for its next insert
    tries,    \* attempts of the append loop a writer has used
    failures, \* AUDIT_SINK_FAILURES of each process
    done      \* events whose record() returned in the current run of a process

vars == <<rows, file, lock, pc, cur, head, tries, failures, done>>

Chain == INSTANCE HashChain WITH Entry <- Event

Logged == {r.id : r \in rows}
Fresh == Event \ (Logged \cup file \cup {cur[w] : w \in Writer}
                    \cup UNION {done[p] : p \in Process})

(* (0, "genesis"): the head of an empty chain *)
Start == [seq |-> 0, id |-> Genesis]

TypeOK ==
    /\ rows \subseteq Chain!Row
    /\ file \subseteq Event
    /\ lock \in [Process -> Writer \cup {NoOne}]
    /\ pc \in [Writer -> {"idle", "file", "connect", "lock", "read", "insert"}]
    /\ cur \in [Writer -> Event \cup {NoOne}]
    /\ head \in [Writer -> [seq : Nat, id : Event \cup {Genesis}]]
    /\ tries \in [Writer -> 0..Attempts]
    /\ failures \in [Process -> Nat]
    /\ done \in [Process -> SUBSET Event]
    /\ \A w \in Writer : pc[w] = "idle" <=> cur[w] = NoOne

Init ==
    /\ rows = {}
    /\ file = {}
    /\ lock = [p \in Process |-> NoOne]
    /\ pc = [w \in Writer |-> "idle"]
    /\ cur = [w \in Writer |-> NoOne]
    /\ head = [w \in Writer |-> Start]
    /\ tries = [w \in Writer |-> 0]
    /\ failures = [p \in Process |-> 0]
    /\ done = [p \in Process |-> {}]

-----------------------------------------------------------------------------
(* record(): a new event with a random audit_id.                           *)

Record(w) ==
    /\ pc[w] = "idle"
    /\ \E e \in Fresh : cur' = [cur EXCEPT ![w] = e]
    /\ pc' = [pc EXCEPT ![w] = "file"]
    /\ UNCHANGED <<rows, file, lock, head, tries, failures, done>>

(* record_audit_sink_failure *)
CountFailure(p) == failures' = [failures EXCEPT ![p] = @ + 1]

(* write_file_sink: written, or failed and counted; skipped when the sink  *)
(* is not configured.                                                      *)
WriteFileSink(w) ==
    /\ pc[w] = "file"
    /\ pc' = [pc EXCEPT ![w] = "connect"]
    /\ \/ ~FileSink /\ UNCHANGED <<file, failures>>
       \/ FileSink /\ file' = file \cup {cur[w]} /\ UNCHANGED failures
       \/ FileSink /\ CountFailure(ProcOf[w]) /\ UNCHANGED file
    /\ UNCHANGED <<rows, lock, cur, head, tries, done>>

(* Mutant of Return: the lock guard outlives the call. *)
ReturnLocked(w) ==
    /\ pc' = [pc EXCEPT ![w] = "idle"]
    /\ cur' = [cur EXCEPT ![w] = NoOne]
    /\ tries' = [tries EXCEPT ![w] = 0]
    /\ done' = [done EXCEPT ![ProcOf[w]] = @ \cup {cur[w]}]
    /\ head' = [head EXCEPT ![w] = Start]
    /\ UNCHANGED lock

(* write_db_sink returns: the event is finished, the lock guard is dropped. *)
Return(w) ==
    /\ pc' = [pc EXCEPT ![w] = "idle"]
    /\ cur' = [cur EXCEPT ![w] = NoOne]
    /\ tries' = [tries EXCEPT ![w] = 0]
    /\ done' = [done EXCEPT ![ProcOf[w]] = @ \cup {cur[w]}]
    /\ head' = [head EXCEPT ![w] = Start]
    /\ lock' = IF lock[ProcOf[w]] = w THEN [lock EXCEPT ![ProcOf[w]] = NoOne] ELSE lock

(* DbHandle::lock(): a pool checkout that may time out. *)
Checkout(w) ==
    /\ pc[w] = "connect"
    /\ \/ /\ pc' = [pc EXCEPT ![w] = "lock"]
          /\ UNCHANGED <<lock, cur, head, tries, failures, done>>
       \/ CountFailure(ProcOf[w]) /\ Return(w)
    /\ UNCHANGED <<rows, file>>

TakeChainLock(w) ==
    /\ pc[w] = "lock"
    /\ lock[ProcOf[w]] = NoOne
    /\ lock' = [lock EXCEPT ![ProcOf[w]] = w]
    /\ pc' = [pc EXCEPT ![w] = "read"]
    /\ UNCHANGED <<rows, file, cur, head, tries, failures, done>>

(* chain_head_raw(..).unwrap_or((0, "genesis")): an empty table and a      *)
(* failed SELECT both read as an empty chain.                              *)
ReadHead(w) ==
    /\ pc[w] = "read"
    /\ \E h \in Chain!Heads(rows)
                \cup (IF HeadReadFails THEN {Start} ELSE {}) :
          head' = [head EXCEPT ![w] = h]
    /\ pc' = [pc EXCEPT ![w] = "insert"]
    /\ UNCHANGED <<rows, file, lock, cur, tries, failures, done>>

(* Mutant of LostTheRace: a unique violation is not recognised. *)
NeverLost(w) == FALSE

LostTheRace(w) == UniqueSeq /\ \E r \in rows : r.seq = head[w].seq + 1

(* The row is committed: the index, where there is one, lets it in. *)
AppendRow(w) ==
    /\ pc[w] = "insert"
    /\ ~LostTheRace(w)
    /\ rows' = rows \cup {Chain!LinkedRow(cur[w], head[w])}
    /\ Return(w)
    /\ UNCHANGED file

InsertOk(w) == AppendRow(w) /\ UNCHANGED failures

(* The row is committed but the answer is an error, e.g. of the connection. *)
InsertAnswerLost(w) == AppendRow(w) /\ CountFailure(ProcOf[w])

(* A unique violation re-reads the head until the attempts are used up. *)
InsertRetry(w) ==
    /\ pc[w] = "insert"
    /\ LostTheRace(w)
    /\ tries[w] + 1 < Attempts
    /\ tries' = [tries EXCEPT ![w] = @ + 1]
    /\ pc' = [pc EXCEPT ![w] = "read"]
    /\ head' = [head EXCEPT ![w] = Start]
    /\ UNCHANGED <<rows, file, lock, cur, failures, done>>

(* Mutant of InsertFails: the lost event is not counted. *)
InsertFailsSilently(w) ==
    /\ pc[w] = "insert"
    /\ Return(w)
    /\ UNCHANGED <<rows, file, failures>>

(* A unique violation on the last attempt, or any other error, whether or   *)
(* not the seq was taken meanwhile.                                        *)
InsertFails(w) ==
    /\ pc[w] = "insert"
    /\ CountFailure(ProcOf[w])
    /\ Return(w)
    /\ UNCHANGED <<rows, file>>

(* The process stops and is started again: everything in memory is lost,   *)
(* the event being recorded included; the two sinks survive.               *)
Crash(p) ==
    /\ \E w \in Writer : ProcOf[w] = p /\ pc[w] # "idle"
    /\ pc' = [w \in Writer |-> IF ProcOf[w] = p THEN "idle" ELSE pc[w]]
    /\ cur' = [w \in Writer |-> IF ProcOf[w] = p THEN NoOne ELSE cur[w]]
    /\ tries' = [w \in Writer |-> IF ProcOf[w] = p THEN 0 ELSE tries[w]]
    /\ head' = [w \in Writer |-> IF ProcOf[w] = p THEN Start ELSE head[w]]
    /\ lock' = [lock EXCEPT ![p] = NoOne]
    /\ failures' = [failures EXCEPT ![p] = 0]
    /\ done' = [done EXCEPT ![p] = {}]
    /\ UNCHANGED <<rows, file>>

WriterStep(w) ==
    \/ WriteFileSink(w) \/ Checkout(w) \/ TakeChainLock(w)
    \/ ReadHead(w) \/ InsertOk(w) \/ InsertAnswerLost(w) \/ InsertRetry(w)
    \/ InsertFails(w)

Next ==
    \/ \E w \in Writer : Record(w) \/ WriterStep(w)
    \/ \E p \in Process : Crash(p)

Spec == Init /\ [][Next]_vars

(* The scheduler runs every thread; nothing forces a request to audit      *)
(* anything or a process to crash.                                         *)
FairSpec == Spec /\ \A w \in Writer : WF_vars(WriterStep(w))

-----------------------------------------------------------------------------
(* Properties.                                                             *)

(* verify_audit_chain accepts the table at every moment, whatever the      *)
(* interleaving of head reads and inserts of all processes: seq counts     *)
(* 1, 2, 3, ... and every prev_hash is the hash of the row before.         *)
ChainVerifies == Chain!Verifies(rows)

(* The head-read and insert of write_db_sink together behave as one atomic *)
(* append: every change of the table is a step of the abstract chain.      *)
AppendsAreAtomic == Chain!Spec

(* A security event is never lost silently: AUDIT_SINK_FAILURES, which      *)
(* /admin/health/detailed shows, is since the process started at least the *)
(* number of recorded events absent from the table plus the number absent  *)
(* from the file.  (It exceeds that when a committed insert was answered   *)
(* with an error: "may not have been durably recorded".)                   *)
PastFile(p) == {cur[w] : w \in {x \in Writer : ProcOf[x] = p /\ pc[x] \notin {"idle", "file"}}}
LossesAreCounted ==
    \A p \in Process :
        failures[p] >= Cardinality(done[p] \ Logged)
            + IF FileSink THEN Cardinality((done[p] \cup PastFile(p)) \ file) ELSE 0

(* record() always returns: neither the chain lock nor the retry loop can  *)
(* hold a request thread for ever.                                         *)
RecordReturns == \A w \in Writer : pc[w] # "idle" ~> pc[w] = "idle"

-----------------------------------------------------------------------------
=============================================================================
