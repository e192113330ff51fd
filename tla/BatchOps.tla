------------------------------ MODULE BatchOps ------------------------------
(***************************************************************************)
(* The batch operators of crates/qmind-sql/src/batch_ops.rs and the result *)
(* stream of result_stream.rs.  An operator is a record with its state;    *)
(* Pull is next_batch: what comes out, and the operator afterwards.        *)
(* Batches are sequences of rows: their columnar layout and its adapters   *)
(* (batch.rs) keep rows and their order.                                   *)
(***************************************************************************)
EXTENDS Volcano

CONSTANT BatchRows  \* DEFAULT_BATCH_SIZE

ASSUME BatchBounds == BatchRows \in Nat \ {0}

Vec(rows) == [is |-> "vec", rest |-> rows]
BFilter(input, pred, schema) == [is |-> "filter", input |-> input, pred |-> pred, schema |-> schema]
BProjectIdx(input, idx) == [is |-> "projectIdx", input |-> input, idx |-> idx]
BEvalProject(input, exprs, schema) ==
  [is |-> "evalProject", input |-> input, exprs |-> exprs, schema |-> schema]
BAggregate(input, idx, aggs) ==
  [is |-> "aggregate", input |-> input, idx |-> idx, aggs |-> aggs, ready |-> FALSE, rest |-> << >>]
BSort(input, exprs, desc, schema) ==
  [is |-> "sort", input |-> input, exprs |-> exprs, desc |-> desc, schema |-> schema,
   ready |-> FALSE, rest |-> << >>]
BHashJoin(left, build, lkey, rkey) ==
  [is |-> "join", left |-> left, build |-> build, lkey |-> lkey, rkey |-> rkey, pending |-> << >>]
BLimit(input, n) == [is |-> "limit", input |-> input, remaining |-> n]

\* Ok(Some(batch)), Ok(None) or Err.
Got(batch, op) == [got |-> "batch", batch |-> batch, op |-> op]
Nothing(op) == [got |-> "none", batch |-> << >>, op |-> op]
Fails(op) == [got |-> "error", batch |-> << >>, op |-> op]

\* What an iterator over buffered rows hands out.
Take(op, n) ==
  LET k == IF n < Len(op.rest) THEN n ELSE Len(op.rest)
      after == [op EXCEPT !.rest = SubSeq(@, k + 1, Len(@))]
  IN IF k = 0 THEN Nothing(after) ELSE Got(SubSeq(op.rest, 1, k), after)

\* AggState: fed the values of a bucket, NULLs included, then finished.  A
\* text neither adds up nor replaces the first minimum or maximum.
BatchAggregateOf(a, rows) ==
  IF a.column = 0
  THEN IF a.func = "COUNT" THEN Num(Len(rows)) ELSE Null
  ELSE LET vals == NotNull(Column(rows, a.column))
           ints == Ints(vals)
       IN CASE a.func = "COUNT" -> Num(Len(vals))
            [] a.func = "SUM" -> IF ints = << >> THEN Null ELSE Num(Total(ints))
            [] a.func = "AVG" -> Average(ints)
            [] a.func \in {"MIN", "MAX"} ->
                 IF vals = << >> THEN Null
                 ELSE IF IsInt(vals[1]) THEN Best(ints, a.func = "MIN") ELSE vals[1]

\* BatchAggregate.materialize.
Aggregated(rows, idx, aggs) ==
  LET keys == GroupKeys(rows, idx)
  IN [g \in DOMAIN keys |->
        keys[g] \o [i \in DOMAIN aggs |-> BatchAggregateOf(aggs[i], Bucket(rows, idx, keys[g]))]]

\* One probe row: its matches go behind what is pending, then all of it is
\* turned around.
PushMatches(pending, matched) ==
  IF matched = << >> THEN pending ELSE Reverse(pending \o matched)

Probed(op, batch) ==
  FoldLeft(LAMBDA p, l : LET m == Matches(op.build, op.rkey, l[op.lkey])
                         IN PushMatches(p, [i \in DOMAIN m |-> l \o m[i]]),
           op.pending, batch)

Smaller(a, b) == IF a < b THEN a ELSE b

\* BatchLimit: how many rows of a batch still count.
Admitted(remaining, rows) == Smaller(remaining, rows)

MutantLimitPerBatch(remaining, admitted) == remaining

\* ... and how many are still wanted after them.
StillWanted(remaining, admitted) == remaining - admitted

RECURSIVE Pull(_, _)
RECURSIVE PullAll(_, _)
RECURSIVE PullJoin(_, _, _)

\* A materialising operator reads its whole input in batches of BatchRows.
PullAll(op, rows) ==
  LET after(r) == IF r.got = "batch" THEN PullAll(r.op, rows \o r.batch)
                  ELSE [rows |-> rows, fails |-> r.got = "error"]
  IN after(Pull(op, BatchRows))

\* The loop of BatchHashJoin.next_batch: drain pending, pull a probe batch.
PullJoin(op, n, out) ==
  LET k == Smaller(n - Len(out), Len(op.pending))
      rest == SubSeq(op.pending, 1, Len(op.pending) - k)
      more == out \o Reverse(SubSeq(op.pending, Len(op.pending) - k + 1, Len(op.pending)))
      drained == [op EXCEPT !.pending = rest]
      after(probe) ==
        CASE probe.got = "error" -> Fails(drained)
          [] probe.got = "none" -> IF more = << >> THEN Nothing(drained) ELSE Got(more, drained)
          [] probe.got = "batch" ->
               PullJoin([drained EXCEPT !.left = probe.op, !.pending = Probed(drained, probe.batch)], n, more)
  IN IF Len(more) >= n THEN Got(more, drained) ELSE after(Pull(op.left, BatchRows))

\* What the operators that work batch by batch make of one batch.
Mapped(op, batch) ==
  CASE op.is = "filter" -> Filter(Stream(batch), op.pred, op.schema)
    [] op.is = "projectIdx" -> Project(Stream(batch), op.idx)
    [] op.is = "evalProject" -> ProjectExprs(Stream(batch), op.exprs, op.schema)

\* What the materialising operators make of their whole input.
Gathered(op, all) ==
  CASE op.is = "aggregate" -> IF all.fails THEN Failed ELSE Stream(Aggregated(all.rows, op.idx, op.aggs))
    [] op.is = "sort" -> Sort(all, op.exprs, op.desc, op.schema)

\* next_batch.  A filter skips a batch of which nothing is left.
Pull(op, n) ==
  LET passed(s, next) ==
        IF s.fails THEN Fails(op)
        ELSE IF op.is = "filter" /\ s.rows = << >> THEN Pull(next, n) ELSE Got(s.rows, next)
      fed(in) ==
        CASE in.got = "none" -> Nothing(op)
          [] in.got = "error" -> Fails(op)
          [] in.got = "batch" -> passed(Mapped(op, in.batch), [op EXCEPT !.input = in.op])
      gathered(s) ==
        IF s.fails THEN Fails(op) ELSE Take([op EXCEPT !.ready = TRUE, !.rest = s.rows], n)
      limited(in) ==
        LET k == Admitted(op.remaining, Len(in.batch)) IN
        CASE in.got = "none" -> Nothing(op)
          [] in.got = "error" -> Fails(op)
          [] in.got = "batch" ->
               Got(SubSeq(in.batch, 1, k), [op EXCEPT !.input = in.op, !.remaining = StillWanted(@, k)])
  IN
  CASE op.is = "vec" -> Take(op, n)
    [] op.is \in {"filter", "projectIdx", "evalProject"} -> fed(Pull(op.input, n))
    [] op.is \in {"aggregate", "sort"} ->
         IF op.ready THEN Take(op, n) ELSE gathered(Gathered(op, PullAll(op.input, << >>)))
    [] op.is = "join" -> PullJoin(op, n, << >>)
    [] op.is = "limit" ->
         IF op.remaining = 0 THEN Nothing(op) ELSE limited(Pull(op.input, Smaller(n, op.remaining)))

\* QueryResult.collect_all: an error ends the stream as if it were exhausted.
RECURSIVE CollectAll(_, _)
CollectAll(op, n) ==
  LET after(r) == IF r.got = "batch" THEN r.batch \o CollectAll(r.op, n) ELSE << >>
  IN after(Pull(op, n))
=============================================================================
