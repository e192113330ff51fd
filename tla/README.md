# QuantsMind relational database: TLA+ specifications

This directory models the database in `src/crates`: lock manager, snapshot-isolated
store, write-ahead log, engine with crash and recovery, indexes, page store and
buffer pool, columnar replicas, query execution, the database directory and the wire
server. TLC checks small instances of every module; TLAPS proves the properties of
the lock manager, the store, the log, recovery, the page store, the columnar replicas,
the indexes and the server for all values of the constants.
`PROJECT.json` lists components, runs, mutants, the map from definitions to source
lines, findings, hazards and theorems.

Check a run with `tlc -config <run>.cfg <module>.tla`, a proof module with
`tlapm <module>.tla`.

## 1. The system

The database is a single-process Rust program. An `RwLock<Engine>` (the "database
mutex" below) serialises every statement that changes state, so the concurrency is
between *transactions* that interleave statement by statement, between a statement
and a *crash*, and between connections in the server.

| Component | State it keeps | Operations | Talks to | What makes it correct |
|---|---|---|---|---|
| Lock manager (`kernel/lock.rs`) | per resource: holders with mode, FIFO queue; waits-for graph | `acquire`, `try_lock`, `release`, `release_all` | called by the store (no-wait X locks only); `acquire` is the API for a blocking scheduler | exclusion, FIFO without lost wake-ups, no missed and no spurious deadlock |
| MVCC store (`kernel/mvcc.rs`) | version chains, pending writes, `TxnManager`, row locks | `begin`, `get`, `set`, `lock_write`, `commit(sink)`, `abort`, `redo_from_records` | lock manager; the commit sink is the WAL | snapshot isolation, first committer wins, atomic publication, strict 2PL |
| Write-ahead log (`kernel/wal.rs`) | file, pending group, next and durable LSN | `append`, `commit_group`, `resume`, `replay` | the file; engine and recovery | a group is all or nothing across a crash, the clean prefix is exact, LSNs are positions |
| Recovery analysis (`kernel/recovery.rs`) | none (pure) | `recover` | log reader | agrees with the store's redo |
| Engine (`sql/engine.rs`) | catalogue, row-id counters, index trees, sessions' transactions, delta applier, page store | statements, `create_db`, `open_db`, `close` | everything above and below | WAL first; recovered state = committed state; indexes, pages and columns agree with rows |
| Wire server (`server/wire.rs`, `main.rs`) | connections, session ids | startup, query loop, disconnect | engine through the RwLock | reads see the right transaction; a gone client leaves nothing behind |
| Directory (`sql/dbdir.rs`) | `db.meta`, layout | create, open | server, engine | create and open survive crashes |
| Buffer pool (`kernel/buffer.rs`) | frames, page table, pins, dirty bits, clock hand | `pin`, `unpin`, `create_page`, `flush_all` | page store, segment files | pinned pages stay, dirty pages are written, handles stay valid |
| Page store (`page.rs`, `table_store.rs`, `storage_manager.rs`, `fs_store.rs`) | page chains per table | `create_table`, `insert_row`, iteration, `flush_all` | buffer pool | a scan yields the rows that were inserted |
| B+tree (`btree.rs`) | arena of nodes | `insert`, `get`, `get_all`, `scan_from` | engine's indexes | equal to a sorted multiset of entries |
| Columnar (`column_delta.rs`, `column_reader.rs`, `columnar.rs`) | delta buffers, segment files | capture, flush, read | engine | every committed row at most once, captured rows kept, columns read back |
| Query execution (`engine.rs`, `executor.rs`, `batch_ops.rs`, `batch.rs`, `result_stream.rs`, `codec.rs`) | operator state | `select`, `stream_query` | rows, indexes, pages | one answer, whatever the path |
| Parser, CLI, embedding, tools, Studio, desktop shell | none of the database's | | engine | not modelled, section 7 |

Hard behaviours: promotion of queued lock requests against upgrades and
cancellations; snapshots that outlive many commits; a commit spread over write, sync,
publication, materialisation and answer, with a crash or an I/O error between any two;
ids and counters that recovery recomputes; frames that move during an eviction;
segment numbers recomputed from file names; two executors for one statement; clients
that vanish in the middle of a transaction. Each is a hazard in `PROJECT.json`, at its
line.

## 2. How it is built up

    LockManager <-- MvccStore --> SnapshotIsolation      (refinements)
                        |   Wal
                        |   /  \
                      Database  Recovery (EXTENDS Wal)
                         |--> DurableTable               (refinement)
    BufferPool -- TableStore          ColumnDelta -- Materialize
    SqlValues -- SqlExpr -- Volcano -- BatchOps --- QueryEngine -- MCQueryEngine
             \___ IndexedTable ___________________/
    BTree -------/
    DbDir -- Server

Three modules describe the engine from different sides, each with what the others
leave out. *Database* has one table and the log frame by frame; *Materialize* has
several tables, DDL and everything derived from committed rows, and keeps the log as
what it redoes to; *IndexedTable* has rows, indexes and pages, and *QueryEngine* asks
SELECT statements of them. *Server* has the sessions and threads, and rows as numbers.

Modules that are proved about declare no RECURSIVE operator and reach none.
Operators named `Mutant...` are faulty variants used to show that the properties can
fail; no specification refers to them.

## 3. The modules

**LockManager** (`lock.rs`). `holders[r][t]` is `LockEntry.holders`, `queue[r]` a set
of requests numbered in FIFO order (`pos`; a number is reused once the queue drains,
`MaxTicket` bounds it), `waitsFor`/`nodes` the graph map with and without empty
entries, `live` the transactions that have not ended, `victims` those whose last
`acquire` answered Deadlock. The loop at the end of `release` is the operator
`Promoted`: a request is granted if it and all before it are grantable after the
grants before them. `find_cycle` is reachability, stated by closed sets so that it can
be reasoned about without recursion. `acquire` answers Ok both for "granted" and for
"enqueued" and blocks nobody, so what a caller does while enqueued is a parameter:
`OneAtATime` (it waits) and `VictimAborts` (it gives up after Deadlock).

**MvccStore** (`mvcc.rs`). Values are abstracted to the writer's id; a chain is a
sequence of `[ts, by]`. `snap` and `writes` keep their values after the end of a
transaction: the code drops them, the properties speak of them. Row locks are the
holder per key, because only no-wait exclusive locks are used; that this is the lock
manager's behaviour is `UsesLocksStrictly` (INSTANCE of LockManager with an empty
queue and graph). A `commit` that answers Conflict, a `set` that answers Busy and a
`commit` without a pending entry change nothing and are stuttering steps. The store does
not look whether the transaction of a `set` or `lock_write` is still in flight: such a
call takes the lock, and `set` makes a new pending entry that reads the state before the
first commit (`Revive`). The engine never calls so: it names only a transaction it just
began or holds in `active` (`engine.rs:617-645`). The model allows the calls for the
transactions in `Late`; `stray` are those called for after their end and not ended
again. **SnapshotIsolation** is the abstract history of committed states; the mapping
reads each state off the chains at a timestamp, and a write in the name of an ended
transaction is its `WriteAgain`.

**Wal** (`wal.rs`). The file is a sequence of frames; `synced` says how many a sync
has covered; a frame cut short is `Torn`. `WriteGroupFails` leaves any part of the
group behind and keeps it pending, as `commit_group` does. A crash keeps the synced
frames and any leading part of the rest (`LoseTail`), or the whole file if only the
process was killed. The reader's `CleanPrefix` stops at the first torn frame. A torn
frame with bytes behind it can be read in two ways, depending on how its length field
falls across them: as a checksum or length error (refused), or as a length past the
end of the file, which is taken for a torn tail. Both are allowed. A record longer
than `MAX_RECORD_BYTES` is written like any other and refused by the reader.

**Database** (`engine.rs`, with `redo_from_records`) EXTENDS MvccStore and Recovery.
Keys are the row ids of one table. A method inside `commit_group` is recorded in `job`
(the mutex is held); its steps are the write and the sync, and the store's `Commit` or
`CommitLogFails` is taken as the sink answers. `Crash` may come at any moment,
`Recover` replays the clean prefix, truncates, redoes (`RedoStep`), recomputes
`nextRowId` and resumes the log; `close` has the same write and sync. `Faults` selects
what may go wrong: `write` and `sync` (the call fails), `partial` (the write stops
half-way), `kill` (the process dies, the machine does not); power failures are always
possible. Redo is a recursive function along the log, and the order in which a
`BTreeMap` gives its keys is written out (`Ascending`), so that the provers can look
into both. `asked` and `answer` are history variables: what a transaction asked to
commit and what its client was told ("unknown" if a crash came first); `behind` are
the commits whose group was appended behind a torn frame. Every INSERT takes a fresh
row id, so no commit meets a conflict at this level and `finish_commit`'s conflict
branch is not an action. **DurableTable** is the promise: rows and answers only; the
mapping (`CommittedRows`) takes the rows from memory or, while no process runs, from
what redo would make of the file.
**Recovery** (`recovery.rs`) is the analysis, redo and undo of a log, as operators that
`RecoveriesAgree` compares with redo; transaction ids start at 0, and the writer of a
row that nobody wrote is -1.

**BufferPool** (`buffer.rs`, `fs_store.rs`) has one operator per method on a pool
record, with the clock sweep, the swap of the last frame into a freed slot
(`make_room`), and a page write that fails, with or without tearing the bytes.
**TableStore** (`table_store.rs`, `storage_manager.rs`, `page.rs`) has one action per
call of `StorageManager`, for several tables on one pool; a row that does not fit the
last page gets a new one, and a row larger than a page is counted and placed nowhere.
What a scan returned is compared by the ids of its rows, which are the numbers of their
`insert_row` calls: ascending ids are the order of insertion. Used space and scans are
recursive functions (`Used`, `ScanStates`), so that the provers can look into them.

**ColumnDelta** (`column_delta.rs`, `columnar.rs`, `column_reader.rs`) has buffers,
numbered segment files and the four encodings with their decoders, as the lists a
chunk holds. Runs are grown value by value and laid end to end by recursive functions
(`RunStates`, `RunEnds`); lists of chosen values are `Listed`, the numbers of a set in
order. **Materialize** (`engine.rs`) composes it with DDL, transactions, index
and page maintenance after the durability point (with the early return that leaves a
commit half materialised), `flush_to_columnar`, `with_columnar` and a restart. Groups
that failed stay in `pending` and are redone with the next group or found by a
restart. A log record, or the records of one transaction, is kept as what it does to the
catalogue and the rows (`Redone`); `log` is what the whole file redoes to, and `tails`
what it may redo to after a power failure: any prefix that holds all that was ever synced.
A sync makes the whole file safe; `open_db` syncs only a file it cuts
(`engine.rs:1828-1832`), so what a process finds after a kill stays unsafe (`unproven`)
until a group of its own is synced. Torn frames are Database's. A new delta buffer numbers
its segments after the files it sees, and a directory that cannot be listed, or in part
only, counts as if the rest were not there (`Listings`; `misread` are the tables this
happened to). `MaxTrouble` bounds opens, failures and calls of `with_columnar` together.
A table has at most one index, on its INT column.

**BTree** (`btree.rs`) has `insert` with leaf splits (a run of equal keys is not
split) and internal splits, lookups and the scan iterator, on an arena of nodes.
Descents, the way back up of an insertion and walks along the leaf links are recursive
functions along an interval of numbers (`Way`, and the `back` and `walk` of the
operators), of as many steps as the arena has nodes: a descent stays at its leaf, a walk
at its end. `Exact` says what a tree promises. **SqlValues** has the values, their two
orders and the index key encoding. **IndexedTable** (`engine.rs`) has the actions that
insert a row, hold a transaction open (its rows reach pages and indexes later than newer
ones), roll it back (a gap in the row ids), and create (with the backfill) or drop an
index. **SqlExpr** is the evaluator with three-valued logic and 64-bit arithmetic with a
small `IntMax` (checked or wrapping as the code does each). **Volcano** (`executor.rs`)
has the row operators as streams that may end in an error; **BatchOps** (`batch_ops.rs`,
`result_stream.rs`) the batch operators as records with `Pull` = `next_batch`, hash join
with its pending matches included. **QueryEngine** (`engine.rs`) EXTENDS IndexedTable
with SELECT over rows or through an index and `stream_query` over pages. The second
executor reads pages, so page order and row-id order really differ. **MCQueryEngine**
gives two tables and about seventy statements.

**DbDir** (`main.rs`, `dbdir.rs`) takes `create_db`/`open_db` file call by file call.
Directory entries are taken to be durable once made, though no directory is synced
(`dbdir.rs:144-164`). **Server** (`wire.rs`, the session API of `engine.rs`) EXTENDS it
with one thread per connection. The two guarded sections of a statement (look for the
session's transaction; execute) are separate steps, and the socket write is a third
without a guard; but "engine poisoned" is written while the guard is still in the
`PoisonError` (place `refuse`), and others wait for it (`Readable`, `Writable`). A
statement is what `execute_session` makes of it together with the first word that
`run_query` sees, since routing and `session_has_txn` follow the word. Panics under the
write guard poison the lock. (The workspace's release profile aborts on panic,
`src/Cargo.toml:17-20`; unwinding is what other profiles do, so `Panics` is a constant,
and the abort is the crash of the process.)

## 4. Runs

| Run | Instance | Checks |
|---|---|---|
| `lock_graph` | 3 transactions, 2 resources, both modes, no single `release`, callers go on while queued, 2 tickets | `TypeOK`, `MutualExclusion`, `HeadIsBlocked`, `TrackedGraphAcyclic`, `EdgesAreReal`, `FirstClaim` |
| `lock_pair` | 2 transactions, 2 resources, every call, callers wait, victims abort, fairness | `NoUndetectedDeadlock`, `HoldNeverWeakens`, `EveryWaitEnds` |
| `mvcc_store` | 3 transactions, one of them called for after its end, 2 keys | `StrictLocking`, `StableReads`, refinements `IsSnapshotIsolated`, `UsesLocksStrictly` |
| `db_durable` | 3 ids, 2 rows, power failures only | `LiveIsLog`, `LsnsArePositions`, refinement `ImplementsDurableTable` |
| `db_faults` | 2 ids, 2 rows, all faults | `CleanCommitsSurvive`, `IdsAreFresh`, `RecoveredWhole`, `RowsNeverOverwritten`, `RecoveriesAgree` |
| `page_store` | 2 tables, 2 frames, 4 pages per segment, pages of 2 units, 3 rows of 1 to 3 units, failing and torn page writes | `HandlesAreSafe`, `NeverRefused`, `ScansAreFaithful`, `FlushedIsOnFile` |
| `columnar` | 2 tables, 1 explicit session besides autocommit, rows of one value or NULL, 2 rows, 2 segments, 4 opens and failures (`MaxTrouble`), all file, listing, log and page faults, kills and power failures | `MaterialisedIsExact`, `ReplicaIsCommitted`, `CapturedIsKept`, `ColumnsReadBack`, `RestartsKeepTheShown`, `CatalogIsWhole` |
| `query` | leaves of 1 entry, 2 keys per internal node, batches of 2 rows, 2-bit integers, 4 units of rows (2 each in `t`, 1 each in `u`), 1 gap, 1 index at a time | `TreesAreExact`, `IndexAnswersLikeScan`, `PathsAgree`, `AnswersAreRelational`, `BatchesAreInvisible` |
| `server` | 2 connections, packets of 2 statements, 1 row, socket errors, failing commits, panics, crashes, fairness | `ReadsAreRouted`, `OrphansAreBroken`, `ServedIsReopened`, `ThreadsComeBack` |
| `db_torn_group` | partial writes | violates `CommittedSurvives` |
| `db_long_row` | a row longer than the reader allows | violates `WriterNeverCorrupts` |
| `server_leak` | socket errors | violates `DisconnectRollsBack` |

**Bounds.** Three lock transactions suffice for holder, queued request and overtaker, or
an upgrade between two others; two resources for a cycle. In the store a lost update
needs two writers and an unstable read a third party; one transaction that is called for
after its end meets two that are in flight. In Database two rows tell half a transaction
from a whole one, and three ids allow a failed commit, a later successful one and a
reuse after a restart; crashes and restarts are not bounded, since ids in the log are
never reused. `db_faults` has two ids because each failed write multiplies the possible
files. Two frames for three pages and more force an eviction on nearly every call, of
the other table's pages too. Two rows and shares of 2 let a column be run-length
encoded, with a dictionary, plain, and with NULL; four units of trouble allow a failed
group, a restart after a kill and one after a power failure, or an applier, a restart
and a second applier that does not see a segment. With `LeafMax` 1 and `InternalMax` 2
four index entries split leaves and internal nodes and grow the tree to three levels;
`BatchesAreInvisible` puts each table twice over through the batch operators,
in batches of two, so that joins and groups cross batch boundaries too; integers from -2
to 1 overflow in one addition. Two connections suffice for a step of one between the two
guarded sections of the other.

Symmetry (of lock transactions and resources, of tables) is used only in runs without
liveness. `lock_pair` is deliberately small: with three transactions the same
properties fail, see section 5.

Deadlock checking is off where a bound lets the system rest (ids, rows or opens are
used up), where every transaction may have ended, or where a refused log or directory
stays refused. It is on in `page_store`.

**Fairness.** `EveryWaitEnds` assumes that a transaction that is not waiting for a
lock commits or aborts in the end (weak fairness of `ReleaseAll` for it); nothing is
assumed of one that waits, and the lock manager needs no fairness of its own, since
promotion happens inside `release`. `ThreadsComeBack` assumes that the operating
system runs threads and that a guard that is asked for is granted in the end: weak
fairness of the start of the process and of each thread's own steps between two socket
calls (`Thread`). Reading a packet and writing an answer are left out of it: both may
block for ever, since the socket has no timeout, and nothing is assumed of clients. So
the property is that a thread comes to its socket or is gone, or else another thread is
writing "engine poisoned" and may have the guard.

## 5. What the runs found

Properties that hold are the rule. Three runs show where the code does not do what it
says (code bugs among the findings in `PROJECT.json`):

* `db_torn_group`: after a partial write the next group is appended behind the torn
  frame; reopening refuses the log or drops everything from there on, an answered
  commit included.
* `db_long_row`: a row whose record is longer than `MAX_RECORD_BYTES` is committed and
  answered Ok; `open_db` then refuses the log as corrupt.
* `server_leak`: a socket error ends `handle_conn` by `?`, before
  `release_session_txn`; the transaction and its row locks stay.

Four texts say otherwise than the code that the modules follow (the findings of kind
`doc_code_divergence`):

* `docs/architecture/DURABILITY_CONTRACT.md:16-18, 71-72`: a failed sync leaves no group
  to retry. `commit_group` keeps it (`wal.rs:439-447`), and the next commit, rollback or
  close writes it again.
* `docs/architecture/adr/ADR-006-execution-model.md:36` and `ADR-017:42`: one input, one
  result, on both execution paths. Under GROUP BY the SUM of a group of NULLs is 0 by rows
  (`executor.rs:326-334`) and NULL by batches (`batch_ops.rs:341-347`). `PathsAgree`
  requires this difference and no other.
* `docs/concepts/deadlocks.rst:103-107`: the first to queue is granted before later
  requests. The sole holder of a shared lock is given the exclusive one at once, past the
  queue (`lock.rs:71-74, 137-140`). `FirstClaim` names this case and no other.
* `mvcc.rs:228-230`, on `commit`: after a failed sink the transaction stays open for an
  explicit abort. The code ends it and releases its locks (`mvcc.rs:269-277`).

Exceptions that the passing properties name, because they are false without them:

* Locks. `EdgesAreReal` needs that no single `release` is made. `HoldNeverWeakens` needs
  `OneAtATime` (X and then S queued by one transaction: the promoted S overwrites X),
  and is proved for any number of transactions under it. `NoUndetectedDeadlock` is
  proved as long as no three transactions compete for locks at a time. When three do, it
  and `EveryWaitEnds` are false: a request that stays queued gets no edge to a holder
  promoted before it, and an S-to-X upgrade queued behind another X request waits behind
  what it blocks itself. The engine only calls `try_lock`, so none of this is reached by
  SQL.
* Store. A call for a transaction that has ended may leave a lock behind it
  (`StrictLocking` excepts `stray`), and a transaction revived by `set` reads the empty
  store. Validation still stands: it commits only if nothing was ever committed to the
  keys it wrote since (`IsSnapshotIsolated`).
* Log. A commit whose write or sync failed is answered with an error, but its group
  stays pending and is written with the next one, so that it may be in the file twice
  and show after a restart; if the process ends first the group may be lost, or not.
  `RecoveriesAgree` excepts the case where the second copy is cut (it is false there:
  the analysis goes by the last mark of the transaction, redo by its first Commit), and
  DurableTable is implemented without sync failures only. After a kill `open_db` does
  not sync what it replays, so rows that were seen can still be lost by a later power
  failure (no commit that was answered Ok is); hence `ImplementsDurableTable` has power
  failures only, and `RestartsKeepTheShown` excepts power failures while the log is
  `unproven`.
* Materialisation. After an error behind the durability point indexes and pages lack
  rows until the next restart (`missed`); they never have a wrong one. A segment
  written whole but reported as failed is flushed again (`rewritten`), and its rows
  count twice. A new buffer that did not see the last segment in the directory
  (`column_delta.rs:339-356` passes over every error of `read_dir`) takes its number
  again, and the next flush overwrites it (`misread`). A run-length encoded column with a
  NULL cannot be read and fails the read of its whole table (`Lossy`), which the
  repository's reports name as known (`src/docs/R1_COMPLETION_REPORT.md:173`).
* Pages. A row larger than a page trips a debug assertion (`table_store.rs:121`); a
  release build counts it and stores it nowhere. A failed or torn write of a victim
  loses that page (`lost`).
* Indexes. A leaf that `insert_leaf` leaves overfull is not always "one duplicate run"
  (`btree.rs:166`): smaller keys may lie before the run, as with one entry of a key and
  `LEAF_MAX` of the next. Nothing is lost by it, and what holds, and is proved, is
  `OnlyRunsOverfill`: there is a run of more than half the size of a leaf.
* Queries. An index may answer where a scan ends in an error, from a row the index does
  not visit. LIMIT without ORDER BY picks different rows in the two; the hash join
  does not keep the order of the product. SUM wraps at the width of an integer.
  Statements on which the executors differ for known reasons are not asked: MIN and MAX
  over TEXT, SUM and AVG over TEXT, ORDER BY on a key that fails, LIMIT 0 without
  groups, scalar functions among aggregates.
* Directory. Between `write_all` and `sync_all` of `db.meta` a killed process leaves a
  file that is opened and served, and that a later power failure may take away
  (`exposed`). Nothing keeps a second process out of the directory; one is modelled.

## 6. Proofs

`NumberLemmas` has the least-number and last-position facts (from the library's
well-founded induction) and, from the former, that a set of numbers closed under
successor is all of an interval and that a function defined by recursion along an
interval exists: what the proofs about redo use in place of induction over data.

**LockManagerProofs**, for all transactions, resources, modes and calls: `TypeOK`,
`MutualExclusion`, `HeadIsBlocked`, `TrackedGraphAcyclic`, `FirstClaim`, that nothing of
a terminated transaction is left, `EdgesAreReal` when `"release"` is not among the
calls, and `HoldNeverWeakens` under `OneAtATime`: a waiter then has one request, and one
that also holds the resource waits for an upgrade of it, so no promotion can put a
weaker mode in place of the held one. `NoUndetectedDeadlock` is proved from
`[]TwoCompete`: at no time do three transactions hold or want locks, though any number
may come and go. That is more than the two transactions `lock_pair` has, and all there
is: with three it is false (section 5). The invariant (`PairInv`) is that a queued
request has another holder in its way, that each such wait has its edge unless the other
is a victim, and that victims do not wait; two that waited for each other would then be
a cycle of the graph, which is acyclic. Two places of a queue are distinct, so a
nonempty queue has a head; what `Promoted` leaves is headed by an ungrantable request
(`PromotionStopsAtHead`), and grants keep the holders exclusive (`PromotionExcludes`: of
two promoted requests that conflict, the later would not have been grantable, so no
induction along the queue is needed). Acyclicity is inductive by itself: removing edges
makes no cycle, and edges added from one node make one only through that node
(`SearchFromRequesterSuffices`).

**MvccStoreProofs**, for all keys and numbers of transactions: `TypeOK`,
`StrictLocking`, ordered chains, `StableReads`, `UsesLocksStrictly` and
`IsSnapshotIsolated`, for any set `Late`, that is, whatever is called after the end. The
invariant behind them (`ChainInv`) joins ordered chains to snapshots that do not pass the
watermark: then the last
version of a chain decides the conflict test, and appending at watermark + 1 changes
no older state of the history. The refinement proof maps each action to its abstract
one.

**DatabaseProofs**, for all numbers of transactions and rows. First about the log as a
sequence of frames:

* `AnsweredCommitsAreLogged`: unless a write can stop half-way, every commit answered
  Ok has its whole group, in one piece, in the synced part of the log. The inductive
  invariant `LogInv` adds that a torn frame is only ever the last one and only while
  the database is down, that the group of a running commit lies in one piece in the
  pending group and, once written, in the file, and that a transaction in flight has
  not been answered and asked only if it is the one at work. It covers failed
  writes and syncs, groups written again, kills, power failures and truncation.
* `LogStaysReadable`: without partial writes and over-long rows `open_db` never meets a
  log it calls corrupt. With `db_torn_group` and `db_long_row` this says that those two
  are the only causes.
* `LsnsStayPositions`: with reliable writes and syncs `LsnsArePositions` holds through
  kills, power failures and truncated tails.

and then about what recovery makes of the log:

* For every choice of `Faults`: `IdsAreFresh`, `RecoveredWhole`, `RowsNeverOverwritten`,
  `CleanCommitsSurvive` and `RecoveriesAgree`. `RedoOne` says what one record does;
  redoing the group of a commit publishes exactly the rows it names, and a part of a
  group publishes none. The inductive invariant `RecoveryInv` has five parts beside the
  types: every put logs a row that its transaction asked for, every commit record ends a
  whole group, and a transaction whose group is there twice was refused (`LogsAreWhole`);
  ids in the log are below the counter, and a transaction in flight has no record there
  before its commit is at work (`Accounts`); no two transactions share a row id and all
  row ids are below `nextRowId` (`RowsAreFresh`); the rows shown are those of logged
  commits, each with all its rows (`ShownIsLogged`); and a commit answered Ok that is not
  `behind` a torn frame has its commit record in the synced file, with no torn frame
  before it (`CleanIsSynced`). It
  holds through failed, partial and repeated writes, failing syncs, kills, power
  failures and truncation; none of the five theorems is inductive without the others.
* `LiveIsLog` when writes and syncs succeed (kills included). `LiveInv` says that redo of
  file and pending group is what memory shows, with the group of the running commit on
  top of it. With a failed sync the statement is false: a refused commit's group stays
  in the log.
* `ImplementsDurableTable` with power failures only: each step is a step of DurableTable
  or a stutter under the mapping; a crash in the middle of a commit is `Interrupt`, with
  the rows in or out as the truncated file has the commit record or not. A kill is
  excepted because rows seen after it may be lost later (section 5).

**TableStoreProofs**, for any capacity, segment and page size, and any number of tables,
pages and rows, with page writes that fail or tear at will: `HandlesAreSafe`,
`NeverRefused`, `ScansAreFaithful` and `FlushedIsOnFile`. Two layers:

* A pool between two calls is `Sound`: nothing is pinned, page table and frames name each
  other, and a clean frame is what its file holds. Each method of the pool is shown to
  keep this and to leave what *other* pages show (`SameAt`) as it was; a failed
  `make_room` may take a page back to an older image, or none (`OlderAt`), and fails only
  if the victim's page cannot be written (`RoomIsMade`): with nothing pinned the second
  lap of the sweep always stops. Swap removal, re-pointing and the order of the flush are
  in `VictimIsDropped`, `EvictedIsSound` and `FlushedIsSame`.
* `StoreInv` joins the pool to the tables: each has a set of pages, disjoint from those of
  the others. `Chain` speaks of *every* image kept of a page, in its frame and in its
  file: whichever is read, it names a later page of the same table or none, and its rows
  come before those of later pages. So a page that falls back to an older image cannot
  lead a scan into another table, into a cycle, or to a row twice. `Complete` adds, until
  an image is lost, that each page can be read, names the next one, and that no row is
  missing. Ids of pages ascend along a chain, which bounds the scan.

None of the four is inductive alone: that a chain stays disjoint needs page ids that are
fresh in table, frames and files, and that needs the pool to be sound.

**MaterializeProofs**, for any number of tables, sessions, rows, values and restarts,
whichever groups of the log, pages, segment writes and listings of directories fail, and
whether restarts follow a kill, a close or a power failure:

* `RestartsKeepTheShown` and `CatalogIsWhole`. `RedoIs` says which tables, indexes and
  rows a redo of any records adds. `LogInv` relates what is shown to the log and the
  groups that wait to be written again: a row id stands for one row in all of them,
  which is why the order in which failed groups are repeated does not matter. `TxnInv`
  adds what keeps this so: row ids taken by the log, by those groups and by open
  transactions are all apart and below `next_row_id`. `TailsInv` is about what a power
  failure may leave: each of `tails` is a part of the log and has the table of each of
  its indexes and rows, and shows all that the engine shows unless the log is
  `unproven`. A sync leaves one of them, a failed sync adds the prefixes of the group,
  and a restart goes on from one.
* `MaterialisedIsExact`. `MatInv` says that index and pages are sets of what committed
  rows have, whole unless `missed`; a batch that stops half-way adds a part of its rows
  (`Part`), and all of them are fresh by `LogInv`.
* `ColumnsReadBack`, from the lemmas on the encoders: `RawReads`, `DictReads`, and
  `RleReads`, whose invariant over the values (`RunsOf`) says that the runs so far spread
  to the values so far, or to fewer as soon as one was NULL. This is recursion along an
  interval, by `NumberLemmas`.
* `ReplicaIsCommitted` and `CapturedIsKept`. `RepInv` treats buffer and segments as
  pieces that hold committed rows, none twice unless `rewritten`, and not only rows
  committed now but rows that every one of `tails` has (`Base`), so that a power failure
  takes no row from under the replica. A flush moves a piece (`PiecesMove`), a commit
  appends fresh rows (`ReplicaCaptures`), a new applier drops the buffer
  (`ReplicaDrops`). Segment numbers in use are below `next_segment_id` unless the table
  is `misread`, so nothing else is overwritten (`CountExistingIs`), and a segment gives
  its rows back or is `Lossy` (`SegmentReads`).

**IndexedTableProofs**, for any tables and rows, and leaves and internal nodes of any
size: `TreesAreExact`. A tree keeps its entries (`Keeps`) if its nodes can be given

* a *span*, the set of keys that belong below the node: the root has all keys, the
  children of a node share out its span at the separators, and an entry lies in a leaf
  whose span has its key (`Stocked`, `Linked`);
* a *level*, 0 at the leaves and one more at each parent, the root's being the height;
* and a *chain* of all leaves in the order of their spans, each linked to the next.

Spans, levels and chain are not state of the code; each step shows how to choose the new
ones. Spans are disjoint along a level, so a key descends to the one leaf that may have
it, and equal keys are never in two leaves. An insertion is followed from that leaf up
the recorded way. `LeafOutcome`: the leaf is filled, or cut at a boundary between two
keys (`CutPointFacts`, `LeafSplit`). After a cut the tree is sound but for one right half
that no parent knows, whose span and its sibling's are taken as one (`Joined`);
`SeparatorOutcome` says that a parent either takes it in (`SeparatorAbsorbed`) or is split
itself and leaves the same situation one level higher (`InnerSplit`); `InsertionRises`
and `InsertionReturns` carry this up the way back by `NumberLemmas`, and at the root a new
one ends it (`RootRaised`). Together: `TreeInsertKeeps`. A leaf is longer than `LeafMax`
only while some key has a run of more than half that (`Roomy` or `Heavy`; `RunIsHeavy`).
For reads, `ScanLists` follows the chain, and `FoundExactly` uses that the run of a key
is in one leaf: `KeepsExact`. `IndexesStayExact` then needs the invariant `IInv`: the row
of an open transaction has a place that no index has an entry for, so that it is new in
every index whenever it commits, and the backfill passes over the gaps.

**ServerProofs**, for any number of connections, packets and rows: `ServedIsReopened`
(invariant `DirInv`: what each stage of create and open has put on the disk),
`ReadsAreRouted` (invariant `ThreadInv`: what a thread's flag and `owned` know about
the engine's transaction at each place of its loop, while other threads run) and
`OrphansAreBroken`.

Assumptions: only the named ASSUMEs of the modules (bounds are numbers, sets of faults
are among the named faults, NULL is not a number, rows have a value in each column of
their table, an internal node may have two keys) and the restrictions on `Faults`,
`BigRows`, the calls, `OneAtATime` and `VictimAborts` that the theorems state, and
`[]TwoCompete` in the one about deadlocks.

Model-checked only: liveness (`EveryWaitEnds`, `ThreadsComeBack`), which the prover
does not reach; and the answers to SELECT statements (`IndexAnswersLikeScan`,
`PathsAgree`, `AnswersAreRelational`, `BatchesAreInvisible`), since SqlExpr, Volcano,
BatchOps and QueryEngine are recursive over expressions and streams of batches, so that
what they compute is induction over data.

## 7. Not modelled

* The parser (`parser.rs`): a pure recursive-descent parser without state; its result is
  what QueryEngine takes as a statement. The split of a packet at semicolons, inside
  text literals too, is therefore a hazard without a property.
* Byte layouts: frames, rows, pages and chunks are records and lists. That a torn
  frame or page is recognised is the assumption that checksums detect it. Unsynced
  bytes are lost from the end; their reordering by the operating system is left out.
* The freshness of columnar reads: a table that has segments is read from them, so rows
  committed since the last flush are missing, and aggregates and GROUP BY are not
  dispatched. No text of the repository promises otherwise; Materialize states what
  segments may hold, and QueryEngine covers the row path.
* Code without a caller: `eviction.rs` (ClockSweep, LruK), `apply_wal_batch` and the
  LSN marker of `column_delta.rs`, the Checkpoint record; predicates pushed into the
  column reader.
* CLI, embedding, bench and fixture binaries: thin wrappers that pass statements to the
  engine. Studio frontend and desktop shell: user interface.
