---------------------------- MODULE ColumnDelta ----------------------------
(***************************************************************************)
(* Columnar replicas: column_delta.rs, columnar.rs and column_reader.rs of *)
(* crates/qmind-kernel/src.  Rows are captured in a buffer per table and   *)
(* flushed, column by column, into numbered segment files; a reader        *)
(* decodes all segments of a table.  Every call runs under the database's  *)
(* mutex.                                                                  *)
(*                                                                         *)
(* A row is [id, int, text]: an INT column of distinct values, an INT and  *)
(* a TEXT column with NULLs.  An encoded column is kept as the lists that  *)
(* the chunk holds (runs, dictionary, indexes, bitmap, values); offsets    *)
(* and lengths are left out.                                               *)
(***************************************************************************)
EXTENDS Integers, Sequences, FiniteSets, SequencesExt

CONSTANTS
  Tables,      \* tables known to the applier
  NULL,
  RleShare,    \* an INT column is run-length encoded if unique <= rows / RleShare
  RleUnique,   \* and unique <= RleUnique
  DictShare,   \* a TEXT column gets a dictionary if unique <= rows / DictShare
  DictUnique,  \* and unique <= DictUnique
  FileFaults   \* what may happen to segment files: a subset of FaultKinds

\* A write leaves no file (open), part of one (torn), or all of it and an error
\* (sync); a listing of the directory misses files (list).
FaultKinds == {"open", "torn", "sync", "list"}

ASSUME FileFaultsAssumption == FileFaults \subseteq FaultKinds
ASSUME NullAssumption == NULL \notin Int
ASSUME SharesAssumption == RleShare \in Nat \ {0} /\ DictShare \in Nat \ {0}

VARIABLES
  registered,  \* DeltaApplier.buffers: the tables it has a buffer for
  buffer,      \* DeltaBuffer.buffer
  nextSegment, \* DeltaBuffer.next_segment_id
  segments,    \* the files of a table's directory: id -> Torn or [rows, int, text]
  misread      \* history: tables whose last segment a new buffer did not see

deltaVars == <<registered, buffer, nextSegment, segments, misread>>

TornSegment == [rows |-> -1, ids |-> << >>, int |-> << >>, text |-> << >>]

\* The n-th number of S in ascending order.
Nth(S, n) == CHOOSE i \in S : Cardinality({j \in S : j < i}) = n - 1

\* What f gives the numbers of S, in their order.
Listed(f, S) == [n \in 1..Cardinality(S) |-> f[Nth(S, n)]]

NonNull(vals) == Listed(vals, {i \in DOMAIN vals : vals[i] # NULL})

----------------------------------------------------------------------------
(* Encodings.                                                              *)

\* push_int_raw, push_text_raw: a bitmap of the NULLs, then the other values.
Raw(vals) ==
  [enc |-> "raw", count |-> Len(vals), nulls |-> {i \in DOMAIN vals : vals[i] = NULL},
   vals |-> NonNull(vals)]

\* decode_raw takes the next stored value for each bit that is clear.
DecodeRaw(c) ==
  [ok |-> TRUE,
   vals |-> [i \in 1..c.count |->
               IF i \in c.nulls THEN NULL ELSE c.vals[Cardinality((1..i) \ c.nulls)]]]

\* The values that are not NULL, in the order of first appearance.
Unique(vals) ==
  Listed(vals, {i \in DOMAIN vals : vals[i] # NULL /\ \A j \in 1..(i - 1) : vals[j] # vals[i]})

MutantNullIndex(vals) ==
  [enc |-> "dict", count |-> Len(vals), dict |-> Unique(vals),
   idx |-> [i \in DOMAIN vals |-> IF vals[i] = NULL THEN Len(Unique(vals)) ELSE
              CHOOSE j \in DOMAIN Unique(vals) : Unique(vals)[j] = vals[i]]]

\* push_text_dict; NULL has index -1 (u32::MAX).
Dict(vals) ==
  [enc |-> "dict", count |-> Len(vals), dict |-> Unique(vals),
   idx |-> [i \in DOMAIN vals |-> IF vals[i] = NULL THEN -1 ELSE
              CHOOSE j \in DOMAIN Unique(vals) : Unique(vals)[j] = vals[i]]]

DecodeDict(c) ==
  [ok |-> \A i \in DOMAIN c.idx : c.idx[i] = -1 \/ c.idx[i] \in DOMAIN c.dict,
   vals |-> [i \in 1..c.count |-> IF c.idx[i] \in DOMAIN c.dict THEN c.dict[c.idx[i]] ELSE NULL]]

\* push_int_rle, value by value: a run ends at another value and at a NULL.
RunStep(s, v) ==
  IF v = NULL THEN [runs |-> s.runs, open |-> FALSE]
  ELSE IF s.open /\ s.runs[Len(s.runs)].val = v
  THEN [runs |-> [s.runs EXCEPT ![Len(s.runs)].len = @ + 1], open |-> TRUE]
  ELSE [runs |-> Append(s.runs, [len |-> 1, val |-> v]), open |-> TRUE]

RunStates(vals) ==
  LET after[n \in 0..Len(vals)] ==
        IF n = 0 THEN [runs |-> << >>, open |-> FALSE] ELSE RunStep(after[n - 1], vals[n])
  IN after

\* NULLs are in no run, and count still has them.
Rle(vals) ==
  [enc |-> "rle", count |-> Len(vals), runs |-> RunStates(vals)[Len(vals)].runs]

\* How many values the first runs have.
RunEnds(runs) ==
  LET ends[n \in 0..Len(runs)] == IF n = 0 THEN 0 ELSE ends[n - 1] + runs[n].len
  IN ends

Spread(runs) == RunEnds(runs)[Len(runs)]

\* decode_rle spreads runs until it has count values, and fails if they run out.
DecodeRle(c) ==
  LET ends == RunEnds(c.runs)
      At(i) == CHOOSE n \in DOMAIN c.runs : ends[n - 1] < i /\ i <= ends[n] IN
  [ok |-> Spread(c.runs) >= c.count,
   vals |-> [i \in 1..Spread(c.runs) |-> c.runs[At(i)].val]]

Decode(c) ==
  CASE c.enc = "raw" -> DecodeRaw(c)
    [] c.enc = "dict" -> DecodeDict(c)
    [] c.enc = "rle" -> DecodeRle(c)

\* flush chooses by the number of distinct values that are not NULL.
Few(vals, share, most) ==
  LET unique == Cardinality(ToSet(NonNull(vals))) IN
  unique <= Len(vals) \div share /\ unique <= most

EncodeInt(vals) == IF Few(vals, RleShare, RleUnique) THEN Rle(vals) ELSE Raw(vals)
EncodeText(vals) == IF Few(vals, DictShare, DictUnique) THEN Dict(vals) ELSE Raw(vals)

Column(rows, field) == [i \in DOMAIN rows |-> rows[i][field]]

\* ColumnSegmentBuilder, fed by flush with the transposed buffer.
BuildSegment(rows) ==
  [rows |-> Len(rows), ids |-> EncodeInt(Column(rows, "id")),
   int |-> EncodeInt(Column(rows, "int")), text |-> EncodeText(Column(rows, "text"))]

----------------------------------------------------------------------------
(* The reader.                                                             *)

\* ColumnSegment::open and decode_column for every column, then the transposition.
ReadSegment(s) ==
  IF s = TornSegment THEN [ok |-> FALSE, rows |-> << >>]
  ELSE LET ids == Decode(s.ids)  ints == Decode(s.int)  texts == Decode(s.text) IN
       IF ids.ok /\ ints.ok /\ texts.ok
       THEN [ok |-> TRUE, rows |-> [i \in 1..s.rows |->
               [id |-> ids.vals[i], int |-> ints.vals[i], text |-> texts.vals[i]]]]
       ELSE [ok |-> FALSE, rows |-> << >>]

\* list_segments sorts the paths, and names are numbered with leading zeros.
SegmentIds(t) == SetToSortSeq(DOMAIN segments[t], <)

\* ColumnarReader::open and read_all_rows: one bad segment fails the whole read.
ReadAllRows(t) ==
  [ok |-> \A i \in DOMAIN segments[t] : ReadSegment(segments[t][i]).ok,
   rows |-> FoldLeft(LAMBDA s, i : s \o ReadSegment(segments[t][i]).rows, << >>, SegmentIds(t))]

----------------------------------------------------------------------------
(* The buffers.                                                            *)

NoFiles == [i \in {} |-> TornSegment]

DeltaInit ==
  /\ registered = {}
  /\ buffer = [t \in Tables |-> << >>]
  /\ nextSegment = [t \in Tables |-> 0]
  /\ segments = [t \in Tables |-> NoFiles]
  /\ misread = {}

\* count_existing_segments, in truth one past the largest number of the files
\* seen; 0 when the directory cannot be read.
CountExisting(seen) ==
  IF seen = {} THEN 0 ELSE 1 + CHOOSE i \in seen : \A j \in seen : j <= i

\* The files of a table that count_existing_segments may see: read_dir and each
\* of its entries may fail, and nothing says so.
Listings(t) ==
  IF "list" \in FileFaults THEN SUBSET DOMAIN segments[t] ELSE {DOMAIN segments[t]}

Numbers == UNION {DOMAIN segments[t] : t \in Tables}

\* register_table for each of ts, by a new applier or by the one that has kept.
Registered(ts, kept) ==
  \E seen \in {f \in [ts \ kept -> SUBSET Numbers] : \A t \in ts \ kept : f[t] \in Listings(t)} :
  /\ registered' = ts \cup kept
  /\ buffer' = [t \in Tables |-> IF t \in kept THEN buffer[t] ELSE << >>]
  /\ nextSegment' = [t \in Tables |->
       IF t \in kept THEN nextSegment[t] ELSE IF t \in ts THEN CountExisting(seen[t]) ELSE 0]
  /\ misread' = misread \cup {t \in ts \ kept :
                              CountExisting(seen[t]) < CountExisting(DOMAIN segments[t])}
  /\ UNCHANGED segments

\* append_row_to: rows of a table without a buffer are not captured.
Captured(t, rows) == IF t \in registered THEN buffer[t] \o rows ELSE buffer[t]

MutantClearFirst(t, fault) ==
  LET i == nextSegment[t] IN
  [buffer |-> << >>, next |-> i + 1,
   files |-> IF fault = "open" THEN segments[t]
             ELSE [j \in DOMAIN segments[t] \cup {i} |->
                     IF j # i THEN segments[t][j]
                     ELSE IF fault = "torn" THEN TornSegment ELSE BuildSegment(buffer[t])]]

\* DeltaBuffer::flush.  The number is spent and the buffer kept if write_to
\* fails, whatever it left in the file.
Flushed(t, fault) ==
  LET i == nextSegment[t]
      image == IF fault = "torn" THEN TornSegment ELSE BuildSegment(buffer[t]) IN
  [buffer |-> IF fault = "none" THEN << >> ELSE buffer[t],
   next |-> i + 1,
   files |-> IF fault = "open" THEN segments[t]
             ELSE [j \in DOMAIN segments[t] \cup {i} |-> IF j = i THEN image ELSE segments[t][j]]]

\* flush_all goes through the tables in some order (a HashMap) and stops at
\* the first error: done are flushed, and failed, if any, is where it stopped.
FlushTables(done, failed, fault) ==
  LET hit == {t \in done \cup failed : buffer[t] # << >>}
      r == [t \in Tables |-> Flushed(t, IF t \in failed THEN fault ELSE "none")] IN
  /\ buffer' = [t \in Tables |-> IF t \in hit THEN r[t].buffer ELSE buffer[t]]
  /\ nextSegment' = [t \in Tables |-> IF t \in hit THEN r[t].next ELSE nextSegment[t]]
  /\ segments' = [t \in Tables |-> IF t \in hit THEN r[t].files ELSE segments[t]]
  /\ UNCHANGED <<registered, misread>>
============================================================================
