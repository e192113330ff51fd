------------------------------ MODULE Volcano ------------------------------
(***************************************************************************)
(* The row-at-a-time operators of crates/qmind-sql/src/executor.rs and the *)
(* aggregates of engine.rs.  An operator is pulled until it answers None   *)
(* or an error, so what it yields is a stream: rows, and whether an error  *)
(* follows them.  Whoever stops pulling early does not see that error.     *)
(***************************************************************************)
EXTENDS SqlExpr

Stream(rows) == [rows |-> rows, fails |-> FALSE]
Failed == [rows |-> << >>, fails |-> TRUE]

\* A row as far as the first position where Bad holds.
UpTo(rows, Bad(_)) ==
  LET before(bad) == IF bad = {} THEN rows ELSE SubSeq(rows, 1, (CHOOSE i \in bad : \A j \in bad : i <= j) - 1)
      upTo(bad) == [rows |-> before(bad), fails |-> bad # {}]
  IN upTo({i \in DOMAIN rows : Bad(rows[i])})

Filter(s, pred, schema) ==
  LET kept(t) == [rows |-> SelectSeq(t.rows, LAMBDA r : IsTrue(Eval(pred, schema, r))),
                  fails |-> t.fails \/ s.fails]
  IN kept(UpTo(s.rows, LAMBDA r : Logic(Eval(pred, schema, r)) = Err))

EvalAll(exprs, schema, row) == [i \in DOMAIN exprs |-> Eval(exprs[i], schema, row)]

\* The projection of run_select, a Scan over its input.
ProjectExprs(s, exprs, schema) ==
  LET projected(t) == [rows |-> [i \in DOMAIN t.rows |-> EvalAll(exprs, schema, t.rows[i])],
                       fails |-> t.fails \/ s.fails]
  IN projected(UpTo(s.rows, LAMBDA r : Err \in Range(EvalAll(exprs, schema, r))))

Pick(row, idx) == [i \in DOMAIN idx |-> row[idx[i]]]

Project(s, idx) == [s EXCEPT !.rows = [i \in DOMAIN s.rows |-> Pick(s.rows[i], idx)]]

\* Limit stops pulling once it has its rows.
Limit(s, n) ==
  IF n <= Len(s.rows) THEN Stream(SubSeq(s.rows, 1, n)) ELSE s

\* sort_key_cmp: does the key list a come strictly before b?
KeyBefore(a, b, desc) ==
  \E i \in DOMAIN a :
    /\ \A j \in 1..(i - 1) : a[j] = b[j]
    /\ IF desc[i] THEN Before(b[i], a[i]) ELSE Before(a[i], b[i])

\* sort_by keeps the order of equal keys.
StableSort(rows, Key(_), desc) ==
  LET earlier(keys, j, i) == KeyBefore(keys[j], keys[i], desc) \/ (keys[j] = keys[i] /\ j < i)
      rank(keys, i) == Cardinality({j \in DOMAIN rows : earlier(keys, j, i)})
      sorted(keys) == [p \in DOMAIN rows |-> rows[CHOOSE i \in DOMAIN rows : rank(keys, i) = p - 1]]
  IN sorted([i \in DOMAIN rows |-> Key(rows[i])])

\* Sort materialises its input: one error, of input or key, and nothing comes.
Sort(s, exprs, desc, schema) ==
  IF s.fails \/ \E i \in DOMAIN s.rows : Err \in Range(EvalAll(exprs, schema, s.rows[i]))
  THEN Failed
  ELSE Stream(StableSort(s.rows, LAMBDA r : EvalAll(exprs, schema, r), desc))

\* The bucket of a probe value in the hash of the build side; NULL keys are
\* neither built nor probed.
Matches(rows, rkey, v) ==
  IF v = Null THEN << >> ELSE SelectSeq(rows, LAMBDA r : r[rkey] = v)

\* pending is reversed after each probe row and popped from its end.
HashJoin(left, right, lkey, rkey) ==
  IF right.fails THEN Failed
  ELSE LET joined(l) == LET m == Matches(right.rows, rkey, l[lkey])
                        IN [i \in DOMAIN m |-> l \o m[i]]
       IN [rows |-> FlattenSeq([i \in DOMAIN left.rows |-> joined(left.rows[i])]),
           fails |-> left.fails]
----------------------------------------------------------------------------
(* Aggregates.  column is a position, or 0 for the star.                   *)

AggNames == {"COUNT", "SUM", "AVG", "MIN", "MAX"}

Agg(func, column) == [func |-> func, column |-> column]

Column(rows, c) == [i \in DOMAIN rows |-> rows[i][c]]
NotNull(values) == SelectSeq(values, LAMBDA v : v # Null)
Ints(values) == SelectSeq(values, LAMBDA v : IsInt(v))
\* i64 addition wraps in a release build; other builds panic.
Wrapped(n) == ((n + IntMax + 1) % (2 * IntMax + 2)) - IntMax - 1
Total(ints) == FoldLeft(LAMBDA sum, v : Wrapped(sum + Number(v)), 0, ints)
Average(ints) == IF ints = << >> THEN Null ELSE Num(Quotient(Total(ints), Len(ints)))

Best(values, wantMin) ==
  CHOOSE v \in Range(values) :
    \A w \in Range(values) : IF wantMin THEN ~ Before(w, v) ELSE ~ Before(v, w)

\* HashAggregate.evaluate of one aggregate over a bucket of rows.  A sum of
\* nothing is 0 here; the star counts as a column of one value, the count.
GroupedAggregate(a, rows) ==
  LET vals == IF a.column = 0 THEN <<Num(Len(rows))>> ELSE NotNull(Column(rows, a.column))
      allInts == Ints(vals) = vals
  IN CASE a.func = "COUNT" -> Num(IF a.column = 0 THEN Len(rows) ELSE Len(vals))
       [] a.func = "SUM" -> IF allInts THEN Num(Total(vals)) ELSE Err
       [] a.func = "AVG" -> IF allInts THEN Average(vals) ELSE Err
       [] a.func \in {"MIN", "MAX"} ->
            IF vals = << >> THEN Null ELSE Best(vals, a.func = "MIN")

\* Aggregate::evaluate, without GROUP BY.  A star in anything but COUNT
\* panics (engine.rs:2437); no query here asks for it.
PlainAggregate(a, rows) ==
  IF a.func = "COUNT" /\ a.column = 0 THEN Num(Len(rows))
  ELSE LET vals == NotNull(Column(rows, a.column)) IN
       CASE a.func = "COUNT" -> Num(Len(vals))
         [] a.func = "SUM" -> IF vals = << >> THEN Null
                              ELSE IF Ints(vals) # << >> THEN Num(Total(Ints(vals))) ELSE Err
         [] a.func = "AVG" -> Average(Ints(vals))
         [] a.func \in {"MIN", "MAX"} ->
              IF vals = << >> THEN Null ELSE Best(vals, a.func = "MIN")

MutantNullGroupsSplit(rows, idx) ==
  LET keys == {Pick(rows[i], idx) : i \in DOMAIN rows}
      real == {k \in keys : Null \notin Range(k)}
      below(a, b) == KeyBefore(a, b, [i \in DOMAIN idx |-> FALSE])
  IN SetToSortSeq(real, below)

\* The keys of the BTreeMap of groups, in its order.
GroupKeys(rows, idx) ==
  LET below(a, b) == KeyBefore(a, b, [i \in DOMAIN idx |-> FALSE])
  IN SetToSortSeq({Pick(rows[i], idx) : i \in DOMAIN rows}, below)

Bucket(rows, idx, key) == SelectSeq(rows, LAMBDA r : Pick(r, idx) = key)

\* HashAggregate: a row per group, its key first, then the aggregates.
HashAggregate(s, idx, aggs) ==
  LET out(k) == k \o [i \in DOMAIN aggs |-> GroupedAggregate(aggs[i], Bucket(s.rows, idx, k))]
      outs(keys) == UpTo([i \in DOMAIN keys |-> out(keys[i])], LAMBDA r : Err \in Range(r))
  IN IF s.fails THEN Failed ELSE outs(GroupKeys(s.rows, idx))
============================================================================
