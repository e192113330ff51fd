---------------------------- MODULE IndexedTable ----------------------------
(***************************************************************************)
(* Tables with indexes, of crates/qmind-sql/src/engine.rs.  Rows get their *)
(* ids when they are inserted and reach the indexes and pages when they    *)
(* commit, so a transaction that commits late puts its row behind newer    *)
(* ones, and one that rolls back leaves a gap in the ids.                  *)
(***************************************************************************)
EXTENDS BTree, SqlValues

CONSTANTS
  Schema,     \* table -> the names of its columns
  RowsOf,     \* table -> the rows clients insert
  Indexable,  \* the <<table, column>> pairs that may get an index
  Cost,       \* table -> what a row of it takes of the budget
  RowBudget,  \* bounds the rows of all tables
  MaxGaps,    \* bounds the row ids without a row
  MaxIndexes  \* bounds the indexes that exist at a time

VARIABLES
  rows,   \* row ids of a table (from 1) -> row, or Absent
  pages,  \* table -> the ids of its rows, in the order of the pages
  trees,  \* Engine.index_trees, of the <<table, column>> pairs indexed
  held    \* the row the open transaction has buffered, or Nobody

vars == <<rows, pages, trees, held>>

Tables == DOMAIN Schema

\* A row has a value in each column, and a table has columns.
ASSUME RowsFit ==
  /\ DOMAIN RowsOf = Tables
  /\ \A t \in Tables : /\ Len(Schema[t]) \in Nat \ {0} /\ DOMAIN Schema[t] = 1..Len(Schema[t])
                      /\ \A row \in RowsOf[t] : /\ row \in Seq(Seq(Int) \ {<< >>})
                                               /\ Len(row) = Len(Schema[t])
ASSUME IndexesFit ==
  \A x \in Indexable : x[1] \in Tables /\ \E i \in DOMAIN Schema[x[1]] : Schema[x[1]][i] = x[2]

Absent == << >>
Nobody == [table |-> "none"]

Init ==
  /\ rows = [t \in Tables |-> << >>]
  /\ pages = [t \in Tables |-> << >>]
  /\ trees = << >>
  /\ held = Nobody

----------------------------------------------------------------------------
(* Statements that change the tables.                                      *)

Affordable(t) ==
  MapThenSumSet(LAMBDA u : Cost[u] * Len(rows[u]), Tables) + Cost[t] <= RowBudget

\* An entry of an index: none for a NULL.
Indexed(tree, column, t, row, rid) ==
  LET v == row[ColPos(Schema[t], column)]
  IN IF v = Null THEN tree ELSE TreeInsert(tree, IndexKey(v), rid)

\* What finish_commit does with a buffered row once the log is synced.
Materialized(t, row, rid) ==
  /\ trees' = [x \in DOMAIN trees |->
                 IF x[1] = t THEN Indexed(trees[x], x[2], t, row, rid) ELSE trees[x]]
  /\ pages' = [pages EXCEPT ![t] = Append(@, rid)]

\* An autocommit INSERT.
Insert(t, row) ==
  /\ Affordable(t)
  /\ rows' = [rows EXCEPT ![t] = Append(@, row)]
  /\ Materialized(t, row, Len(rows[t]) + 1)
  /\ UNCHANGED held

\* An INSERT inside a transaction takes its row id at once.
Hold(t, row) ==
  /\ Affordable(t)
  /\ held = Nobody
  /\ Cardinality({gap \in Tables \X (1..RowBudget) :
                    gap[2] \in DOMAIN rows[gap[1]] /\ rows[gap[1]][gap[2]] = Absent}) < MaxGaps
  /\ held' = [table |-> t, row |-> row, rid |-> Len(rows[t]) + 1]
  /\ rows' = [rows EXCEPT ![t] = Append(@, Absent)]
  /\ UNCHANGED <<pages, trees>>

CommitHeld ==
  /\ held # Nobody
  /\ rows' = [rows EXCEPT ![held.table][held.rid] = held.row]
  /\ Materialized(held.table, held.row, held.rid)
  /\ held' = Nobody

RollbackHeld ==
  /\ held # Nobody
  /\ held' = Nobody
  /\ UNCHANGED <<rows, pages, trees>>

MutantCountsRows(t, column) ==
  LET present == SelectSeq(rows[t], LAMBDA r : r # Absent)
  IN FoldLeftDomain(LAMBDA tree, rid : Indexed(tree, column, t, present[rid], rid), EmptyTree, present)

\* The backfill of create_index, over the actual row ids.
Backfilled(t, column) ==
  LET done[i \in 0..Len(rows[t])] ==
        IF i = 0 THEN EmptyTree
        ELSE IF rows[t][i] = Absent THEN done[i - 1]
        ELSE Indexed(done[i - 1], column, t, rows[t][i], i)
  IN done[Len(rows[t])]

CreateIndex(t, column) ==
  /\ <<t, column>> \in Indexable \ DOMAIN trees
  /\ Cardinality(DOMAIN trees) < MaxIndexes
  /\ trees' = [x \in DOMAIN trees \cup {<<t, column>>} |->
                 IF x = <<t, column>> THEN Backfilled(t, column) ELSE trees[x]]
  /\ UNCHANGED <<rows, pages, held>>

DropIndex(x) ==
  /\ x \in DOMAIN trees
  /\ trees' = [y \in DOMAIN trees \ {x} |-> trees[y]]
  /\ UNCHANGED <<rows, pages, held>>

Next ==
  \/ \E t \in Tables : \E row \in RowsOf[t] : Insert(t, row) \/ Hold(t, row)
  \/ CommitHeld \/ RollbackHeld
  \/ \E x \in Indexable : CreateIndex(x[1], x[2]) \/ DropIndex(x)

Spec == Init /\ [][Next]_vars
----------------------------------------------------------------------------
(* Properties.                                                             *)

\* What an index must hold: an entry for every committed row whose column is
\* not NULL.
EntryOf(t, c, i) == [key |-> IndexKey(rows[t][i][c]), value |-> i]
Filed(t, c, i) == rows[t][i] # Absent /\ rows[t][i][c] # Null

EntriesOf(x) ==
  LET t == x[1]  c == ColPos(Schema[x[1]], x[2])
  IN {EntryOf(t, c, i) : i \in {j \in DOMAIN rows[t] : Filed(t, c, j)}}

\* The keys clients may look for, whether a row has them or not.
KeysOfColumn(x) ==
  LET c == ColPos(Schema[x[1]], x[2])
  IN {IndexKey(row[c]) : row \in {r \in RowsOf[x[1]] : r[c] # Null}}

\* Every index is a balanced tree that holds exactly the entries of the committed
\* rows, scans as their sorted list from any key on, and finds under each key the
\* ids of the rows that have it, in order, whatever splits it went through and
\* however late rows were committed (btree.rs:139-181).
TreesAreExact ==
  \A x \in DOMAIN trees : Exact(trees[x], EntriesOf(x), KeysOfColumn(x))
============================================================================
