------------------------------ MODULE Database ------------------------------
(***************************************************************************)
(* The engine of crates/qmind-sql/src/engine.rs over one table: explicit   *)
(* and autocommit transactions that insert rows, the store they publish    *)
(* to, the log that comes first, crashes, and the recovery of open_db.     *)
(*                                                                         *)
(* Engine methods run under the database's mutex.  While one of them is in *)
(* commit_group (job) no other runs, but the process may die.  An          *)
(* autocommit INSERT is Begin, Insert and Commit with nothing in between.  *)
(***************************************************************************)
EXTENDS MvccStore, Recovery, FiniteSets

\* A row's key is its id: ids come from a counter, in the order of inserts.
ASSUME KeysAreRowIds == IsFiniteSet(Keys) /\ Keys = 0..(Cardinality(Keys) - 1)

VARIABLES
  phase,      \* "open", "down", or "corrupt": open_db answered WalCorrupt
  nextRowId,  \* Engine.next_row_id of the table
  job,        \* the method that is inside commit_group
  asked,      \* history: the rows a transaction asked to commit
  answer,     \* history: what the client was told of a transaction
  behind      \* history: committed with a torn frame ahead of their group

storeVars == <<data, pending, snap, writes, nextTxn, active, watermark, owner, stray>>
history == <<asked, answer, behind>>
dbVars == <<storeVars, walVars, phase, nextRowId, job, history>>

NoJob == [op |-> "none", txn |-> NoTxn, step |-> "none"]
Running == phase = "open" /\ job = NoJob

DbInit ==
  /\ Init /\ WalInit
  /\ phase = "open"
  /\ nextRowId = 0
  /\ job = NoJob
  /\ asked = [t \in Txns |-> {}]
  /\ answer = [t \in Txns |-> "none"]
  /\ behind = {}

----------------------------------------------------------------------------
(* Statements.                                                             *)

\* txn_begin, and the start of an autocommit INSERT.
TxnBegin ==
  /\ Running
  /\ Begin
  /\ asked' = [asked EXCEPT ![nextTxn] = {}]
  /\ answer' = [answer EXCEPT ![nextTxn] = "none"]
  /\ behind' = behind \ {nextTxn}
  /\ UNCHANGED <<walVars, phase, nextRowId, job>>

\* insert, a statement of one row: the id is taken before the row is locked.
\* The session's transaction is one in flight.
Insert(t) ==
  /\ Running
  /\ t \in pending
  /\ nextRowId \in Keys
  /\ nextRowId' = nextRowId + 1
  /\ Set(t, nextRowId)
  /\ UNCHANGED <<walVars, phase, job, history>>

\* The order in which a BTreeMap gives its keys.
Ascending(ks) ==
  CHOOSE s \in [1..Cardinality(ks) -> ks] : \A i, j \in DOMAIN s : i < j => s[i] < s[j]

\* The BTreeMap of pending writes is logged in key order.
PutRecords(t) ==
  [i \in 1..Cardinality(writes[t]) |-> PutRec(t, Ascending(writes[t])[i])]

MutantCommitFirst(t) == <<BeginRec(t), CommitRec(t)>> \o PutRecords(t)

MutantGroupPerRow(t) ==
  [i \in 1..(3 * Cardinality(writes[t])) |->
     CASE i % 3 = 1 -> BeginRec(t)
       [] i % 3 = 2 -> PutRecords(t)[(i + 1) \div 3]
       [] i % 3 = 0 -> CommitRec(t)]

CommitRecords(t) == <<BeginRec(t)>> \o PutRecords(t) \o <<CommitRec(t)>>

\* txn_commit with nothing to log.
CommitReadOnly(t) ==
  /\ Running
  /\ writes[t] = {}
  /\ Commit(t)
  /\ answer' = [answer EXCEPT ![t] = "ok"]
  /\ UNCHANGED <<walVars, phase, nextRowId, job, asked, behind>>

\* finish_commit, until its sink is about to write.  No commit meets a
\* conflict here: every INSERT takes a fresh row id, so two transactions share no key.
CommitStarts(t) ==
  /\ Running
  /\ t \in pending /\ writes[t] # {} /\ ~ Conflict(t)
  /\ AppendAll(CommitRecords(t))
  /\ job' = [op |-> "commit", txn |-> t, step |-> "write"]
  /\ asked' = [asked EXCEPT ![t] = writes[t]]
  /\ UNCHANGED <<storeVars, phase, nextRowId, answer, behind>>

\* txn_rollback, also sent for a client that is gone.  The Abort record is for audit; its failure is ignored.
RollbackStarts(t) ==
  /\ Running
  /\ t \in pending
  /\ Abort(t)
  /\ AppendAll(<<AbortRec(t)>>)
  /\ job' = [op |-> "rollback", txn |-> t, step |-> "write"]
  /\ answer' = [answer EXCEPT ![t] = "aborted"]
  /\ UNCHANGED <<phase, nextRowId, asked, behind>>

\* close: a last commit_group, which writes what an earlier one left behind.
CloseStarts ==
  /\ Running
  /\ group # << >>
  /\ job' = [op |-> "close", txn |-> NoTxn, step |-> "write"]
  /\ UNCHANGED <<storeVars, walVars, phase, nextRowId, history>>

----------------------------------------------------------------------------
(* Inside commit_group, and what its caller does with the answer.          *)

\* The store as a new process finds it, before or after redo.
Restore(d, ts, n) ==
  /\ data' = d /\ watermark' = ts /\ nextTxn' = n
  /\ pending' = {} /\ active' = {}
  /\ snap' = [t \in Txns |-> 0] /\ writes' = [t \in Txns |-> {}]
  /\ owner' = [k \in Keys |-> NoTxn]
  /\ stray' = {}

Leave ==
  /\ phase' = "down"
  /\ job' = NoJob
  /\ nextRowId' = 0
  /\ Restore([k \in Keys |-> << >>], 0, 0)

\* close with an empty group: commit_group returns at once.
CloseAtOnce ==
  /\ Running
  /\ group = << >>
  /\ Leave
  /\ UNCHANGED <<walVars, history>>

JobWrites ==
  /\ job.step = "write"
  /\ WriteGroup
  /\ job' = [job EXCEPT !.step = "sync"]
  /\ UNCHANGED <<storeVars, phase, nextRowId, history>>

JobSucceeds ==
  /\ job.step = "sync"
  /\ SyncGroup
  /\ \/ /\ job.op = "commit"
        /\ Commit(job.txn)
        /\ answer' = [answer EXCEPT ![job.txn] = "ok"]
        /\ behind' = IF TornPlaces(file) = {} THEN behind ELSE behind \cup {job.txn}
        /\ job' = NoJob
        /\ UNCHANGED <<phase, nextRowId>>
     \/ /\ job.op = "rollback"
        /\ job' = NoJob
        /\ UNCHANGED <<storeVars, phase, nextRowId, answer, behind>>
     \/ /\ job.op = "close"
        /\ Leave
        /\ UNCHANGED <<answer, behind>>
  /\ UNCHANGED asked

JobFails ==
  /\ \/ job.step = "write" /\ WriteGroupFails
     \/ job.step = "sync" /\ SyncGroupFails
  /\ \/ /\ job.op = "commit"
        /\ CommitLogFails(job.txn)
        /\ answer' = [answer EXCEPT ![job.txn] = "failed"]
        /\ job' = NoJob
        /\ UNCHANGED <<phase, nextRowId>>
     \/ /\ job.op = "rollback"
        /\ job' = NoJob
        /\ UNCHANGED <<storeVars, phase, nextRowId, answer>>
     \/ /\ job.op = "close"
        /\ Leave
        /\ UNCHANGED answer
  /\ UNCHANGED <<asked, behind>>

----------------------------------------------------------------------------
(* Crash and recovery.                                                     *)

Crash ==
  /\ phase = "open"
  /\ LoseTail
  /\ Leave
  /\ answer' = IF job.op = "commit" THEN [answer EXCEPT ![job.txn] = "unknown"] ELSE answer
  /\ UNCHANGED <<asked, behind>>

\* redo_from_records: one record.
RedoStep(s, r) ==
  LET seen == [s EXCEPT !.maxTxn = IF r.txn > @ THEN r.txn ELSE @]
      known == r.txn \in s.open IN
  CASE r.kind = "begin" /\ ~ known ->
         [seen EXCEPT !.open = @ \cup {r.txn}, !.puts[r.txn] = {}]
    [] r.kind = "put" /\ known ->
         [seen EXCEPT !.puts[r.txn] = @ \cup {r.key}]
    [] r.kind = "commit" /\ known ->
         [seen EXCEPT
            !.open = @ \ {r.txn},
            !.ts = @ + 1,
            !.data = [k \in Keys |->
                        IF k \in s.puts[r.txn]
                        THEN Append(@[k], [ts |-> s.ts + 1, by |-> r.txn]) ELSE @[k]]]
    [] r.kind = "abort" -> [seen EXCEPT !.open = @ \ {r.txn}]
    [] OTHER -> seen

EmptyRedo ==
  [open |-> {}, puts |-> [t \in Txns |-> {}], maxTxn |-> 0, ts |-> 0,
   data |-> [k \in Keys |-> << >>]]

\* redo_from_records, after each of the records.
RedoStates(records) ==
  LET after[n \in 0..Len(records)] ==
        IF n = 0 THEN EmptyRedo ELSE RedoStep(after[n - 1], records[n])
  IN after

Redo(records) == RedoStates(records)[Len(records)]

MutantLastTxn(s) == s.maxTxn

NextTxnAfter(s) == s.maxTxn + 1

MutantLastRowId(d) == Max({0} \cup {k \in Keys : d[k] # << >>})

\* open_db: one past the largest row id that has a committed version.
RowIdAfter(d) == 1 + Max({-1} \cup {k \in Keys : d[k] # << >>})

Recover ==
  /\ phase = "down"
  /\ ~ MeetsTooLong(file)
  /\ LET s == Redo(CleanPrefix(file)) IN
       /\ Restore(s.data, s.ts, NextTxnAfter(s))
       /\ nextRowId' = RowIdAfter(s.data)
  /\ Reopen(CleanPrefix(file))
  /\ phase' = "open"
  /\ UNCHANGED <<job, history>>

\* open_db answers WalCorrupt, now and whenever it is tried again.
RecoverRefuses ==
  /\ phase = "down"
  /\ TornInside(file) \/ MeetsTooLong(file)
  /\ phase' = "corrupt"
  /\ UNCHANGED <<storeVars, walVars, nextRowId, job, history>>

DbNext ==
  \/ TxnBegin
  \/ \E t \in Txns :
       Insert(t) \/ CommitReadOnly(t) \/ CommitStarts(t) \/ RollbackStarts(t)
  \/ CloseStarts \/ CloseAtOnce
  \/ JobWrites \/ JobSucceeds \/ JobFails
  \/ Crash \/ Recover \/ RecoverRefuses

DbSpec == DbInit /\ [][DbNext]_dbVars
----------------------------------------------------------------------------
(* Properties.                                                             *)

\* Who has a version of row k in a table of version chains.
WritersOf(d, k) == {d[k][i].by : i \in DOMAIN d[k]}

\* Whatever crashed since, an open database holds every row of every commit
\* that was answered Ok (docs/architecture/DURABILITY_CONTRACT.md:33).
CommittedSurvives ==
  phase = "open" =>
    \A t \in Txns : answer[t] = "ok" => \A k \in asked[t] : t \in WritersOf(data, k)

\* wal.rs:489-491: the writer never produces bytes that replay takes for
\* corruption; a crash, a failed sync and a restart leave nothing worse than a
\* torn tail.
WriterNeverCorrupts == phase # "corrupt"

\* The same as CommittedSurvives, of every commit that was answered Ok and whose
\* group did not land behind a torn frame: no other failure of write or sync
\* before or after it, and no crash, loses it (wal.rs:435-448).
CleanCommitsSurvive ==
  phase = "open" =>
    \A t \in Txns \ behind :
      answer[t] = "ok" => \A k \in asked[t] : t \in WritersOf(data, k)

\* A crash in the middle of a group never leaves half a transaction: a row of
\* t is visible only together with all the rows t asked to commit.
RecoveredWhole ==
  \A k \in Keys : \A t \in WritersOf(data, k) :
    \A l \in asked[t] : t \in WritersOf(data, l)

\* The versions in memory are those redo would build from the log, in the same
\* order, whenever no method is inside commit_group: the log leads, the store
\* follows (mvcc.rs:227-230, 305-316).
LiveIsLog ==
  Running =>
    \A k \in Keys :
      [i \in DOMAIN data[k] |-> data[k][i].by] =
        LET chain == Redo(CleanPrefix(file)).data[k] IN
          [i \in DOMAIN chain |-> chain[i].by]

\* Log sequence numbers stay the positions of the frames across restarts and
\* truncated tails, so replay numbers a record as the writer did (wal.rs:454-461).
LsnsArePositions ==
  Running => nextLsn = Len(file) + Len(group) + 1

\* A transaction id found in the log, or about to be, is never given out again
\* (mvcc.rs:313: new work never collides with recovered transactions).
IdsAreFresh ==
  phase = "open" =>
    /\ \A i \in DOMAIN file : file[i] # Torn => file[i].txn < nextTxn
    /\ \A i \in DOMAIN group : group[i].txn < nextTxn

\* A row id is given out once among committed rows, however often the counter
\* was recomputed: no row is overwritten (RECOVERY_INVARIANTS.md, section 5).
RowsNeverOverwritten ==
  \A k \in Keys :
    /\ Cardinality(WritersOf(data, k)) <= 1
    /\ phase = "open" /\ data[k] # << >> => k < nextRowId

\* The two recoveries of the repository agree on every log the engine leaves:
\* the row a key has after redo_from_records is the one recover finds.  The only
\* exception is a group that was written twice because its first sync failed:
\* with the second copy cut, recover undoes what redo_from_records shows.
RecoveriesAgree ==
  LET log == CleanPrefix(file) IN
  \A k \in Keys :
    LET chain == Redo(log).data[k] IN
    \/ RecoveredWriter(log, k) = (IF chain = << >> THEN NoTxn ELSE chain[Len(chain)].by)
    \/ \E t \in Undone(log) : answer[t] = "failed" /\ t \in WritersOf(Redo(log).data, k)

\* The committed rows and their writers: in memory or, when no process runs, as redo would find them.
CommittedRows ==
  LET d == IF phase = "open" THEN data ELSE Redo(CleanPrefix(file)).data
  IN UNION {{k} \X WritersOf(d, k) : k \in Keys}

\* Transactions, log, crashes and recovery together implement a table that
\* loses no answered commit and shows no refused one.
Durable == INSTANCE DurableTable WITH rows <- CommittedRows

ImplementsDurableTable == Durable!Spec
============================================================================
