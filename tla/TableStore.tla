----------------------------- MODULE TableStore -----------------------------
(***************************************************************************)
(* Row storage in page chains: table_store.rs and storage_manager.rs of    *)
(* crates/qmind-kernel/src, over the buffer pool.  The storage manager is  *)
(* owned by the engine and called under the database's mutex; every call   *)
(* is one action.  A row is [id, size]; sizes are counted in units of the  *)
(* row area, PageArea of which fit in a page.                              *)
(***************************************************************************)
EXTENDS BufferPool, SequencesExt, TLC

CONSTANTS
  Tables,    \* table names
  Sizes,     \* sizes of encoded rows, length prefix included
  PageArea,  \* ROW_AREA_SIZE less the page's own metadata
  MaxRows,   \* bound: inserts that are tried
  MaxTables, \* bound: tables that are created
  IoFails    \* write_page may fail

ASSUME SizesAssumption == Sizes \subseteq Nat \ {0}
ASSUME PageAreaAssumption == PageArea \in Nat \ {0}
ASSUME IoAssumption == IoFails \in BOOLEAN

VARIABLES
  pool,       \* StorageManager.pool
  metas,      \* StorageManager.tables: name -> [tid, first, last, count]
  nextTable,  \* StorageManager.next_table_id
  nextPage,   \* StorageManager.next_page_id
  tried,      \* history: rows that were offered to insert_row, in all
  kept,       \* history: table id -> rows whose insert_row answered Ok
  lost,       \* history: a page image was lost by a failed eviction
  refused     \* history: a call failed although every file call succeeded

vars == <<pool, metas, nextTable, nextPage, tried, kept, lost, refused>>

Faults ==
  {NoFault} \cup
  (IF IoFails THEN {[page |-> pool.frames[i].page, torn |-> t] : i \in DOMAIN pool.frames, t \in BOOLEAN}
   ELSE {})

----------------------------------------------------------------------------
(* Pages.                                                                  *)

Used(rows) ==
  LET sum[n \in 0..Len(rows)] == IF n = 0 THEN 0 ELSE sum[n - 1] + rows[n].size
  IN sum[Len(rows)]

\* The new image goes through the handle that create_page or pin has answered.
Written(r, image) ==
  IF r.ok THEN [r EXCEPT !.p = Unpin(WritePayload(@, r.fid, image), r.fid, TRUE)] ELSE r

\* alloc_page: the id is spent even if there is no room for the page.
AllocPage(p, id, fault) == Written(CreatePage(p, id, fault), Blank)

LinkPages(p, id, next) == Written(Pin(p, id), [Image(p, id) EXCEPT !.next = next])

\* try_append_to_page answers Ok(fits).
TryAppend(p, id, row) ==
  LET image == Image(p, id)
      pinned(r) ==
        IF ~ r.ok THEN [p |-> r.p, ok |-> FALSE, fits |-> FALSE]
        ELSE IF Used(image.rows) + row.size <= PageArea
        THEN [p |-> Written(r, [image EXCEPT !.rows = Append(@, row)]).p, ok |-> TRUE, fits |-> TRUE]
        ELSE [p |-> Unpin(r.p, r.fid, FALSE), ok |-> TRUE, fits |-> FALSE]
  IN pinned(Pin(p, id))

\* append_row behind a full last page: allocate, link, append.  That the row
\* fits the fresh page is a debug assertion: in a release build a row larger
\* than a page area is counted and answered Ok, and is in no page.
AppendToFresh(p, meta, row, next, fault) ==
  LET stopped(r) == [p |-> r.p, ok |-> FALSE, meta |-> meta, next |-> next + 1]
      appended(r) == [p |-> r.p, ok |-> r.ok, next |-> next + 1,
                      meta |-> [meta EXCEPT !.last = next, !.count = @ + 1]]
      linked(r) == IF r.ok THEN appended(TryAppend(r.p, next, row)) ELSE stopped(r)
      allocated(r) == IF r.ok THEN linked(LinkPages(r.p, meta.last, next)) ELSE stopped(r)
  IN allocated(AllocPage(p, next, fault))

\* append_row with a first page: onto the last page if the row fits there.
AppendToChain(p, meta, row, next, fault) ==
  LET offered(r) ==
        IF ~ r.ok THEN [p |-> r.p, ok |-> FALSE, meta |-> meta, next |-> next]
        ELSE IF r.fits THEN [p |-> r.p, ok |-> TRUE, meta |-> [meta EXCEPT !.count = @ + 1], next |-> next]
        ELSE AppendToFresh(r.p, meta, row, next, fault)
  IN offered(TryAppend(p, meta.last, row))

AppendRow(p, meta, row, next, fault) ==
  LET allocated(r) ==
        IF r.ok THEN AppendToChain(r.p, [meta EXCEPT !.first = next, !.last = next], row, next + 1, fault)
        ELSE [p |-> r.p, ok |-> FALSE, meta |-> meta, next |-> next + 1]
  IN IF meta.first # 0 THEN AppendToChain(p, meta, row, next, fault)
     ELSE allocated(AllocPage(p, next, fault))

MutantReadKeepsPin(s) ==
  LET read(r) == IF ~ r.ok THEN [s EXCEPT !.ok = FALSE]
                 ELSE [p |-> r.p, ok |-> TRUE, at |-> Image(s.p, s.at).next,
                       rows |-> s.rows \o Image(s.p, s.at).rows]
  IN IF s.at = 0 \/ ~ s.ok THEN s ELSE read(Pin(s.p, s.at))

\* read_page_rows, page after page: scan_all, scan_batched and RowIter walk the
\* chain alike.  A cursor that is dropped early stops after its pages.
ScanStep(s) ==
  LET read(r) == IF ~ r.ok THEN [s EXCEPT !.ok = FALSE]
                 ELSE [p |-> Unpin(r.p, r.fid, FALSE), ok |-> TRUE, at |-> Image(s.p, s.at).next,
                       rows |-> s.rows \o Image(s.p, s.at).rows]
  IN IF s.at = 0 \/ ~ s.ok THEN s ELSE read(Pin(s.p, s.at))

\* The states of a scan before its first page and after each of its pages.
ScanStates(p, meta, pages) ==
  LET after[n \in 0..pages] ==
        IF n = 0 THEN [p |-> p, ok |-> TRUE, at |-> meta.first, rows |-> << >>]
        ELSE ScanStep(after[n - 1])
  IN after

Scan(p, meta, pages) == ScanStates(p, meta, pages)[pages]

----------------------------------------------------------------------------
(* The storage manager.                                                    *)

Init ==
  /\ pool = NewPool
  /\ metas = [t \in {} |-> 0]
  /\ nextTable = 1 /\ nextPage = 1
  /\ tried = 0
  /\ kept = << >>
  /\ lost = FALSE /\ refused = FALSE

CreateTable(t) ==
  /\ t \notin DOMAIN metas
  /\ nextTable <= MaxTables
  /\ metas' = [u \in DOMAIN metas \cup {t} |->
                 IF u = t THEN [tid |-> nextTable, first |-> 0, last |-> 0, count |-> 0] ELSE metas[u]]
  /\ nextTable' = nextTable + 1
  /\ kept' = Append(kept, << >>)
  /\ UNCHANGED <<pool, nextPage, tried, lost, refused>>

\* drop_table: the pages stay where they are.
DropTable(t) ==
  /\ t \in DOMAIN metas
  /\ metas' = [u \in DOMAIN metas \ {t} |-> metas[u]]
  /\ UNCHANGED <<pool, nextTable, nextPage, tried, kept, lost, refused>>

\* The metadata is a copy and is written back only after Ok.
WriteBackMeta(t, r) == metas' = IF r.ok THEN [metas EXCEPT ![t] = r.meta] ELSE metas

\* insert_row.  Pages and page ids that a failed call has used stay used.
InsertRow(t, size, fault) ==
  LET row == [id |-> tried + 1, size |-> size] IN
  /\ tried < MaxRows
  /\ \E r \in {AppendRow(pool, metas[t], row, nextPage, fault)} :
       /\ pool' = r.p
       /\ nextPage' = r.next
       /\ WriteBackMeta(t, r)
       /\ kept' = IF r.ok THEN [kept EXCEPT ![metas[t].tid] = Append(@, row)] ELSE kept
       /\ lost' = (lost \/ (~ r.ok /\ fault # NoFault))
       /\ refused' = (refused \/ (~ r.ok /\ fault = NoFault /\ ~ lost))
  /\ tried' = tried + 1
  /\ UNCHANGED nextTable

\* scan_all_rows, scan_batched, scan_rows: what they do to the pool.
ScanRows(t, pages) ==
  /\ \E s \in {Scan(pool, metas[t], pages)} :
       pool' = s.p /\ refused' = (refused \/ (~ s.ok /\ ~ lost))
  /\ UNCHANGED <<metas, nextTable, nextPage, tried, kept, lost>>

Flush(fault) ==
  /\ pool' = FlushAll(pool, fault).p
  /\ UNCHANGED <<metas, nextTable, nextPage, tried, kept, lost, refused>>

\* TableStore::flush pins every page of the chain first, and gives up if one is unreadable.
FlushTable(t, fault) ==
  /\ \E s \in {Scan(pool, metas[t], nextPage)} :
       /\ pool' = IF s.ok THEN FlushAll(s.p, fault).p ELSE s.p
       /\ refused' = (refused \/ (~ s.ok /\ ~ lost))
  /\ UNCHANGED <<metas, nextTable, nextPage, tried, kept, lost>>

Next ==
  \/ \E t \in Tables : CreateTable(t)
  \/ \E t \in DOMAIN metas :
       \/ DropTable(t)
       \/ \E size \in Sizes, fault \in Faults : InsertRow(t, size, fault)
       \/ \E pages \in 1..nextPage : ScanRows(t, pages)
       \/ \E fault \in Faults : FlushTable(t, fault)
  \/ \E fault \in Faults : Flush(fault)

Spec == Init /\ [][Next]_vars

\* The tables are interchangeable.
Symmetry == Permutations(Tables)
----------------------------------------------------------------------------
(* Properties.                                                             *)

\* No call of the page store leaves a pin behind, on an error path either, and
\* none holds a pin while it makes room: so no FrameId is used after eviction
\* has given its slot to another page, and a victim is always found.
HandlesAreSafe ==
  /\ \A i \in DOMAIN pool.frames : Idle(pool.frames[i])
  /\ ~ pool.moved

\* A call fails only if a file call failed: no page is taken for an existing
\* one, none is missing, and the pool is never full of pinned frames.
NeverRefused == ~ refused

Whole(t) == Scan(pool, metas[t], nextPage)

\* The rows of a table that fit a page; table_store.rs:121 takes it that all do.
Placed(t) == {row \in ToSet(kept[metas[t].tid]) : row.size <= PageArea}

\* Rows in the order in which they were inserted, none of them twice: the id of a
\* row is the number of its insert_row.
InOrder(rows) == \A i, j \in DOMAIN rows : i < j => rows[i].id < rows[j].id

\* A scan of a table never shows a row twice, out of order, or one that was
\* refused or belongs to another table, and comes to the end of the chain (no
\* chain of pages is a cycle); and as long as no page image was lost it
\* returns all rows that were inserted Ok, whatever else shared the pool: all but
\* those larger than a page, which are only counted, and do no harm to the others.
ScansAreFaithful ==
  \A t \in DOMAIN metas :
    /\ InOrder(Whole(t).rows)
    /\ ToSet(Whole(t).rows) \subseteq Placed(t)
    /\ Whole(t).ok => Whole(t).at = 0
    /\ ~ lost =>
         /\ Whole(t).ok
         /\ Placed(t) \subseteq ToSet(Whole(t).rows)
         /\ metas[t].count = Len(kept[metas[t].tid])

\* Once nothing is dirty a new pool over the same files reads the same rows.
FlushedIsOnFile ==
  (~ lost /\ \A i \in DOMAIN pool.frames : ~ pool.frames[i].dirty) =>
    \A t \in DOMAIN metas :
      LET rows == Scan([NewPool EXCEPT !.store = pool.store], metas[t], nextPage).rows
      IN InOrder(rows) /\ ToSet(rows) = Placed(t)
=============================================================================
