---------------------------- MODULE Materialize ----------------------------
(***************************************************************************)
(* What the engine derives from committed rows: secondary indexes, columnar *)
(* deltas and persistent pages (crates/qmind-sql/src/engine.rs), and the    *)
(* catalogue, all of which open_db computes anew from the log.              *)
(*                                                                          *)
(* Every action is one statement under the database's mutex.  The log is    *)
(* kept as the catalogue and rows that its clean prefix redoes to; Wal and  *)
(* Database look inside it.  Row keys are fresh, so commits do not conflict *)
(* and locks are left out.  A table has at most one index, on its INT       *)
(* column, and it is known by the table's name.                             *)
(***************************************************************************)
EXTENDS ColumnDelta

CONSTANTS
  Sessions,    \* sessions with explicit transactions
  Values,      \* what a row may hold besides NULL, in its INT as in its TEXT column
  LogFaults,   \* how commit_group may fail: a subset of {"write", "sync"}
  PagesFail,   \* insert_row of the page store may fail
  MaxRows,     \* bound: row ids handed out, over all tables
  MaxSegments, \* bound: a flush starts while fewer segment numbers are spent
  MaxTrouble   \* bound: opens of the database, calls of with_columnar, and failures

ASSUME LogFaultsAssumption == LogFaults \subseteq {"write", "sync"}
ASSUME PagesFailAssumption == PagesFail \in BOOLEAN

VARIABLES
  live,     \* Engine.tables and the committed rows of MvccStore
  nextRid,  \* Engine.next_row_id
  txn,      \* Engine.active: session -> buffered rows, for sessions in a transaction
  index,    \* Engine.index_trees: table -> bag of <<key, rid>>
  pages,    \* the rows of the page store, in chain order
  columnar, \* Engine.columnar_dir is set
  log,      \* what the file redoes to: [tables, indexes, rows]
  tails,    \* what it may redo to when the power fails: what is not synced may go
  pending,  \* WalWriter's group after a failure, as a sequence of records
  unproven, \* history: the present process opened a log that was not synced, nor has it been since
  missed,   \* history: since open_db a row was not materialised in full
  rewritten,\* history: a whole segment was written and reported as failed
  captured, \* history: table -> rows that reached a buffer and were not dropped with it
  trouble   \* bounded by MaxTrouble

logVars == <<log, tails, pending, unproven>>
engineVars == <<live, nextRid, txn, index, pages, columnar, logVars>>
vars == <<engineVars, deltaVars, missed, rewritten, captured, trouble>>

\* n events of those that MaxTrouble bounds.
Troubled(n) == trouble + n <= MaxTrouble /\ trouble' = trouble + n

NoRows == [i \in {} |-> 0]
NoTxn == [s \in {} |-> << >>]

\* f, and g where f is not defined.
Over(f, g) == [x \in DOMAIN f \cup DOMAIN g |-> IF x \in DOMAIN f THEN f[x] ELSE g[x]]

----------------------------------------------------------------------------
(* The log.                                                                 *)

NoneAdded == [t \in Tables |-> NoRows]

\* A record, or the records of one transaction, as what it does to the catalogue
\* and to the committed rows.
TableRec(t) == [tables |-> {t}, indexes |-> {}, dropped |-> {}, rows |-> NoneAdded]
IndexRec(t) == [tables |-> {}, indexes |-> {t}, dropped |-> {}, rows |-> NoneAdded]
DropRec(t) == [tables |-> {}, indexes |-> {}, dropped |-> {t}, rows |-> NoneAdded]
RowsRec(rows) == [tables |-> {}, indexes |-> {}, dropped |-> {}, rows |-> rows]

\* One record in open_db's passes: catalogue first, redo_from_records then.
Redone(l, rec) ==
  [tables |-> l.tables \cup rec.tables,
   indexes |-> (l.indexes \cup rec.indexes) \ rec.dropped,
   rows |-> [t \in Tables |-> Over(rec.rows[t], l.rows[t])]]

RedoStates(l, recs) ==
  LET after[n \in 0..Len(recs)] == IF n = 0 THEN l ELSE Redone(after[n - 1], recs[n])
  IN after

Redo(l, recs) == RedoStates(l, recs)[Len(recs)]

\* append and commit_group: a group that failed is written again with the next.
\* A sync makes the whole file safe; without it a power failure leaves some
\* prefix of what was written since the last one.
Group(recs, fault) ==
  LET states == RedoStates(log, pending \o recs) IN
  /\ log' = IF fault = "write" THEN log ELSE Redo(log, pending \o recs)
  /\ tails' = CASE fault = "write" -> tails
                [] fault = "sync" -> tails \cup Range(states)
                [] fault = "none" -> {Redo(log, pending \o recs)}
  /\ pending' = IF fault = "none" THEN << >> ELSE pending \o recs
  /\ unproven' = (unproven /\ fault # "none")

----------------------------------------------------------------------------
(* Materialisation.                                                         *)

Keyed(rows) == {<<rows[i].int, i>> : i \in {j \in DOMAIN rows : rows[j].int # NULL}}

\* The rows of a function from row ids, in row id order.
InOrder(rows) == Listed(rows, DOMAIN rows)

\* The rows of table t in the batch b: in a row, and by row id.
Places(b, t) == {n \in DOMAIN b : b[n].table = t}
RowsOf(b, t) == Listed([n \in DOMAIN b |-> b[n].row], Places(b, t))
ById(b, t) ==
  [i \in {b[n].rid : n \in Places(b, t)} |->
     b[CHOOSE n \in Places(b, t) : b[n].rid = i].row]

\* The rows that are in the indexes and deltas when row stop's page fails.
Indexed(b, stop) == [n \in DOMAIN b \cap 1..stop |-> b[n]]

\* The tail of finish_commit.  Row by row: indexes, delta, page; an error of
\* the page store at row stop returns from the middle of it.
Apply(b, stop) ==
  LET done == Indexed(b, stop)
      paged == SubSeq(b, 1, stop - 1) IN
  /\ index' = [t \in DOMAIN index |-> index[t] (+) SetToBag(Keyed(ById(done, t)))]
  /\ buffer' = [t \in Tables |-> Captured(t, RowsOf(done, t))]
  /\ captured' = [t \in Tables |->
       IF t \in registered THEN captured[t] \cup ToSet(RowsOf(done, t)) ELSE captured[t]]
  /\ pages' = [t \in Tables |-> pages[t] \o RowsOf(paged, t)]
  /\ missed' = (missed \/ stop <= Len(b))
  /\ Troubled(IF stop <= Len(b) THEN 1 ELSE 0)
  /\ UNCHANGED <<registered, nextSegment, segments, misread, columnar, rewritten>>

Derived == <<index, pages, columnar, deltaVars, missed, rewritten, captured>>

Stops(b) == {Len(b) + 1} \cup (IF PagesFail THEN DOMAIN b ELSE {})

\* The redo records of a transaction.
LogGroup(b) == <<RowsRec([t \in Tables |-> ById(b, t)])>>

\* finish_commit: log, publish, materialise.
FinishCommit(b, stop) ==
  /\ b # << >>
  /\ Group(LogGroup(b), "none")
  /\ live' = [live EXCEPT !.rows = [t \in Tables |-> Over(ById(b, t), @[t])]]
  /\ Apply(b, stop)

MutantPublishFirst(b, fault) ==
  /\ b # << >> /\ Troubled(1)
  /\ Group(LogGroup(b), fault)
  /\ live' = [live EXCEPT !.rows = [t \in Tables |-> Over(ById(b, t), @[t])]]
  /\ UNCHANGED Derived

\* finish_commit when the log fails: the rows are gone, but not from the group.
FinishFails(b, fault) ==
  /\ b # << >> /\ Troubled(1)
  /\ Group(LogGroup(b), fault)
  /\ UNCHANGED <<live, Derived>>

----------------------------------------------------------------------------
(* Statements.                                                              *)

Init ==
  /\ DeltaInit
  /\ live = [tables |-> {}, rows |-> [t \in Tables |-> NoRows]]
  /\ nextRid = [t \in Tables |-> 0]
  /\ txn = NoTxn
  /\ index = [t \in {} |-> EmptyBag]
  /\ pages = [t \in Tables |-> << >>]
  /\ columnar = FALSE
  /\ log = [tables |-> {}, indexes |-> {}, rows |-> [t \in Tables |-> NoRows]]
  /\ tails = {log}
  /\ pending = << >>
  /\ unproven = FALSE
  /\ missed = FALSE /\ rewritten = FALSE
  /\ captured = [t \in Tables |-> {}]
  /\ trouble = 0

\* with_columnar: a new applier for the live tables, without their rows; what
\* an applier before it had buffered is dropped.
WithColumnar ==
  /\ Troubled(1)
  /\ columnar' = TRUE
  /\ Registered(live.tables, {})
  /\ captured' = [t \in Tables |-> captured[t] \ ToSet(buffer[t])]
  /\ UNCHANGED <<live, nextRid, txn, index, pages, logVars, missed, rewritten>>

MutantTableUnlogged(t) ==
  /\ t \notin live.tables
  /\ live' = [live EXCEPT !.tables = @ \cup {t}]
  /\ UNCHANGED <<nextRid, txn, logVars, trouble, Derived>>

CreateTable(t) ==
  /\ t \notin live.tables
  /\ Group(<<TableRec(t)>>, "none")
  /\ live' = [live EXCEPT !.tables = @ \cup {t}]
  /\ IF columnar THEN Registered(registered \cup {t}, registered) ELSE UNCHANGED deltaVars
  /\ UNCHANGED <<nextRid, txn, index, pages, columnar, missed, rewritten, captured, trouble>>

MutantIndexFromPages(t) == SetToBag(Keyed([i \in 0..(Len(pages[t]) - 1) |-> pages[t][i + 1]]))

\* create_index's backfill reads the committed rows by row id.
Backfill(t) == SetToBag(Keyed(live.rows[t]))

CreateIndex(t) ==
  /\ t \in live.tables \ DOMAIN index
  /\ Group(<<IndexRec(t)>>, "none")
  /\ index' = Over([u \in {t} |-> Backfill(t)], index)
  /\ UNCHANGED <<live, nextRid, txn, pages, columnar, deltaVars, missed, rewritten, captured, trouble>>

DropIndex(t) ==
  /\ t \in DOMAIN index
  /\ Group(<<DropRec(t)>>, "none")
  /\ index' = [u \in DOMAIN index \ {t} |-> index[u]]
  /\ UNCHANGED <<live, nextRid, txn, pages, columnar, deltaVars, missed, rewritten, captured, trouble>>

\* A DDL statement whose group fails returns before it changes anything else.
DdlFails(fault) ==
  /\ Troubled(1)
  /\ \E t \in Tables :
       \/ t \notin live.tables /\ Group(<<TableRec(t)>>, fault)
       \/ t \in live.tables \ DOMAIN index /\ Group(<<IndexRec(t)>>, fault)
       \/ t \in DOMAIN index /\ Group(<<DropRec(t)>>, fault)
  /\ UNCHANGED <<live, nextRid, txn, Derived>>

Handed == FoldFunction(+, 0, nextRid)

\* Bound: no transaction begins when MaxRows leaves it nothing to insert.
Begin(s) ==
  /\ s \notin DOMAIN txn
  /\ Handed < MaxRows
  /\ txn' = Over([r \in {s} |-> << >>], txn)
  /\ UNCHANGED <<live, nextRid, logVars, trouble, Derived>>

\* The rows of one INSERT, numbered from next_row_id.
Statement(t, vals) ==
  [n \in DOMAIN vals |->
     [table |-> t, rid |-> nextRid[t] + n - 1,
      row |-> [id |-> nextRid[t] + n, int |-> vals[n].int, text |-> vals[n].text]]]

\* Row ids are spent whatever becomes of the statement.
Number(t, vals) ==
  /\ t \in live.tables
  /\ Handed + Len(vals) <= MaxRows
  /\ nextRid' = [nextRid EXCEPT ![t] = @ + Len(vals)]

MutantCaptureEarly(s, t, vals) ==
  /\ s \in DOMAIN txn
  /\ Number(t, vals)
  /\ txn' = [txn EXCEPT ![s] = @ \o Statement(t, vals)]
  /\ buffer' = [buffer EXCEPT ![t] = Captured(t, RowsOf(Statement(t, vals), t))]
  /\ UNCHANGED <<live, logVars, index, pages, columnar, registered, nextSegment, segments,
                 misread, missed, rewritten, captured, trouble>>

InsertInTxn(s, t, vals) ==
  /\ s \in DOMAIN txn
  /\ Number(t, vals)
  /\ txn' = [txn EXCEPT ![s] = @ \o Statement(t, vals)]
  /\ UNCHANGED <<live, logVars, trouble, Derived>>

Ended(s) == [r \in DOMAIN txn \ {s} |-> txn[r]]

\* A transaction without rows does not come to the log.
Commit(s) ==
  /\ s \in DOMAIN txn
  /\ txn' = Ended(s)
  /\ \/ txn[s] = << >> /\ UNCHANGED <<live, logVars, trouble, Derived>>
     \/ \E stop \in Stops(txn[s]) : FinishCommit(txn[s], stop)
     \/ \E fault \in LogFaults : FinishFails(txn[s], fault)
  /\ UNCHANGED nextRid

\* A transaction of its own for the statement.
InsertAutocommit(t, vals) ==
  /\ Number(t, vals)
  /\ \/ \E stop \in Stops(vals) : FinishCommit(Statement(t, vals), stop)
     \/ \E fault \in LogFaults : FinishFails(Statement(t, vals), fault)
  /\ UNCHANGED txn

\* txn_rollback appends an Abort record and ignores what commit_group answers;
\* a group left by an earlier failure is written with it.
Rollback(s) ==
  /\ s \in DOMAIN txn
  /\ txn' = Ended(s)
  /\ \/ Group(<< >>, "none") /\ UNCHANGED trouble
     \/ \E fault \in LogFaults : Group(<< >>, fault) /\ Troubled(1)
  /\ UNCHANGED <<live, nextRid, Derived>>

\* flush_to_columnar.
FlushToColumnar(failed, fault) ==
  /\ columnar
  /\ FoldFunction(+, 0, nextSegment) < MaxSegments
  /\ \E done \in IF failed = {} THEN {registered} ELSE SUBSET (registered \ failed) :
       FlushTables(done, failed, fault)
  /\ rewritten' = (rewritten \/ (failed # {} /\ fault = "sync"))
  /\ Troubled(Cardinality(failed))
  /\ UNCHANGED <<engineVars, missed, captured>>

\* open_db: the largest committed row id, plus one.
RowIdAfter(rows) ==
  IF rows = NoRows THEN 0 ELSE 1 + CHOOSE i \in DOMAIN rows : \A j \in DOMAIN rows : j <= i

\* open_db on the log l.  Columnar is off until with_columnar is called; the
\* segment files are still there.
OpenDb(l) ==
  /\ Troubled(1)
  /\ live' = [tables |-> l.tables, rows |-> l.rows]
  /\ nextRid' = [t \in Tables |-> IF t \in l.tables THEN RowIdAfter(l.rows[t]) ELSE 0]
  /\ index' = [t \in l.indexes |-> SetToBag(Keyed(l.rows[t]))]
  /\ pages' = [t \in Tables |-> IF t \in l.tables THEN InOrder(l.rows[t]) ELSE << >>]
  /\ txn' = NoTxn
  /\ columnar' = FALSE
  /\ Registered({}, {})
  /\ captured' = [t \in Tables |-> captured[t] \ ToSet(buffer[t])]
  /\ pending' = << >>
  /\ unproven' = (tails' # {l})
  /\ missed' = FALSE
  /\ UNCHANGED rewritten

\* The file that open_db finds after a kill, which leaves what was written, or
\* after a power failure, which need not.
Found(l) ==
  /\ log' = l
  /\ \/ l = log /\ UNCHANGED tails
     \/ l \in tails /\ tails' = {l}

\* close calls commit_group, which does nothing without a pending group.
Closed(l) ==
  /\ pending # << >>
  /\ l = Redo(log, pending) /\ log' = l
  /\ \/ tails' = {l}
     \/ "sync" \in LogFaults /\ tails' = tails \cup Range(RedoStates(log, pending))

Reopen == \E l \in {log, Redo(log, pending)} \cup tails : (Found(l) \/ Closed(l)) /\ OpenDb(l)

RowValues == {[int |-> v, text |-> v] : v \in Values \cup {NULL}}

Next ==
  \/ \E t \in Tables :
       \/ CreateTable(t) \/ CreateIndex(t) \/ DropIndex(t)
       \/ \E v, w \in RowValues : InsertAutocommit(t, <<v, w>>)
       \/ \E v \in RowValues, s \in Sessions : InsertInTxn(s, t, <<v>>)
  \/ \E s \in Sessions : Begin(s) \/ Commit(s) \/ Rollback(s)
  \/ \E fault \in LogFaults : DdlFails(fault)
  \/ WithColumnar
  \/ FlushToColumnar({}, "none")
  \/ \E t \in registered, fault \in FileFaults \ {"list"} : buffer[t] # << >> /\ FlushToColumnar({t}, fault)
  \/ Reopen

Spec == Init /\ [][Next]_vars

\* The tables are interchangeable.
Symmetry == Permutations(Tables)
----------------------------------------------------------------------------
(* Properties.                                                              *)

\* What a commit derives from its rows is exact: an index or a page scan never
\* has an entry twice or one without a committed row, and has all of them unless
\* a commit failed half-way through its rows; whether an index was made before,
\* during or after the transactions that wrote them (engine.rs:369-391, 516-530).
MaterialisedIsExact ==
  /\ \A t \in DOMAIN index :
       LET wanted == SetToBag(Keyed(live.rows[t])) IN
       index[t] \sqsubseteq wanted /\ (~ missed => index[t] = wanted)
  /\ \A t \in Tables :
       LET committed == Range(live.rows[t]) IN
       /\ IsInjective(pages[t])
       /\ ToSet(pages[t]) \subseteq committed
       /\ ~ missed => ToSet(pages[t]) = committed

\* The parts of the replica of table t: its segments, with no rows if they cannot
\* be read, and the buffer, as number -1.
Chunks(t) ==
  [i \in DOMAIN segments[t] \cup {-1} |->
     IF i = -1 THEN buffer[t] ELSE ReadSegment(segments[t][i]).rows]

ReplicaRows(t) == UNION {ToSet(Chunks(t)[i]) : i \in DOMAIN Chunks(t)}

\* The columnar replica has no row that was rolled back or never committed, and
\* counts none twice, across flushes, failed flushes and restarts, unless a
\* segment was written in full and reported as failed.
ReplicaIsCommitted ==
  \A t \in Tables :
    LET chunks == Chunks(t) IN
    /\ ReplicaRows(t) \subseteq Range(live.rows[t])
    /\ ~ rewritten =>
         \A i, j \in DOMAIN chunks : \A n \in DOMAIN chunks[i], m \in DOMAIN chunks[j] :
           chunks[i][n] = chunks[j][m] => i = j /\ n = m

\* A segment the code cannot read back: a run-length encoded column with a NULL,
\* whose runs do not make up its count.
Lossy(s) == s # TornSegment /\ s.int.enc = "rle" /\ Spread(s.int.runs) < s.int.count

\* A captured row stays in the buffer or in a segment that nothing overwrites,
\* whatever became of flushes before it, unless a new buffer did not see the last
\* segment of the table (column_delta.rs:339-356) and takes its number again.
CapturedIsKept ==
  \A t \in Tables \ misread :
    captured[t] \subseteq ReplicaRows(t) \/ \E i \in DOMAIN segments[t] : Lossy(segments[t][i])

ReadsBack(c, vals) ==
  IF c.enc = "rle" /\ NULL \in ToSet(vals)
  THEN ~ Decode(c).ok ELSE Decode(c) = [ok |-> TRUE, vals |-> vals]

\* A flushed column decodes to the values it was built from, whichever encoding
\* was chosen, unless it is run-length encoded with a NULL, and then it says so.
ColumnsReadBack ==
  \A t \in Tables :
    /\ ReadsBack(EncodeInt(Column(buffer[t], "id")), Column(buffer[t], "id"))
    /\ ReadsBack(EncodeInt(Column(buffer[t], "int")), Column(buffer[t], "int"))
    /\ ReadsBack(EncodeText(Column(buffer[t], "text")), Column(buffer[t], "text"))

\* A restart finds all that the engine showed, when the process was killed or
\* closed, whatever groups failed and in whatever order those were repeated; and
\* after a power failure as well, unless the process had found rows in an unsynced
\* log and synced nothing since (open_db does not, engine.rs:1837-1900).
RestartsKeepTheShown ==
  \A l \in {log, Redo(log, pending)} \cup (IF unproven THEN {} ELSE tails) :
    /\ live.tables \subseteq l.tables
    /\ \A t \in Tables : \A i \in DOMAIN live.rows[t] :
         i \in DOMAIN l.rows[t] /\ l.rows[t][i] = live.rows[t][i]

\* In whatever a restart finds, the table of every index and of every row is
\* there (no CatalogCorrupt).
CatalogIsWhole ==
  \A l \in {log, Redo(log, pending)} \cup tails :
    /\ l.indexes \subseteq l.tables
    /\ \A t \in Tables : l.rows[t] # NoRows => t \in l.tables
=============================================================================
