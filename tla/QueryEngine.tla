---------------------------- MODULE QueryEngine ----------------------------
(***************************************************************************)
(* Queries of crates/qmind-sql/src/engine.rs: SELECT over the row store,   *)
(* by table scan or by index, and stream_query over the pages, of the      *)
(* tables and indexes of IndexedTable.                                     *)
(*                                                                         *)
(* Of a table that has columnar segments SELECT reads those: Materialize.  *)
(***************************************************************************)
EXTENDS IndexedTable, BatchOps

CONSTANT Queries  \* the SELECT statements asked

----------------------------------------------------------------------------
(* SELECT.                                                                 *)

Star == << >>     \* the items of SELECT *
NoLimit == -1

Answer(rs) == [ok |-> TRUE, rows |-> rs]
Refused == [ok |-> FALSE, rows |-> << >>]
Collected(s) == IF s.fails THEN Refused ELSE Answer(s.rows)

Truncated(rs, limit) == IF limit = NoLimit \/ limit >= Len(rs) THEN rs ELSE SubSeq(rs, 1, limit)

Keys(q) == [i \in DOMAIN q.order |-> q.order[i].key]
Descs(q) == [i \in DOMAIN q.order |-> q.order[i].desc]

\* projection_specs.
Exprs(q, schema) == IF q.items = Star THEN [i \in DOMAIN schema |-> Col(schema[i])] ELSE q.items

\* scan_table_rows, outside the transaction that holds a row.
ScanTable(t) == SelectSeq(rows[t], LAMBDA r : r # Absent)

\* run_select: filter, ORDER BY, project, limit.
RunSelect(q, schema, input) ==
  LET sorted(s) == IF q.order = << >> THEN s ELSE Sort(s, Keys(q), Descs(q), schema)
      limited(s) == IF q.limit = NoLimit THEN s ELSE Limit(s, q.limit)
  IN Collected(limited(ProjectExprs(sorted(Filter(input, q.where, schema)), Exprs(q, schema), schema)))

\* The conjuncts an index can serve: column = literal, and not NULL.
Servable(t, e) ==
  /\ e.is = "bin" /\ e.op = "=" /\ e.l.is = "col" /\ e.r.is = "lit"
  /\ <<t, e.l.name>> \in DOMAIN trees
  /\ e.r.value # Null

\* index_lookup: the first conjunct an index serves, if any.
ServedTerm(q) ==
  SelectSeq(Conjuncts(q.where), LAMBDA e : Servable(q.from[1], e))

LookedUp(q, term) ==
  LET t == q.from[1]
      rids == GetAll(trees[<<t, term.l.name>>], IndexKey(term.r.value))
      found == [i \in DOMAIN rids |-> rows[t][rids[i]]]
  IN SelectSeq(found, LAMBDA r : r # Absent)

\* The join columns: each must be a column of exactly one of the two tables.
JoinSides(q) ==
  LET l == Schema[q.from[1]]  r == Schema[q.from[2]]
      isLeft(c) == ColPos(l, c) # 0 /\ ColPos(r, c) = 0
      isRight(c) == ColPos(r, c) # 0 /\ ColPos(l, c) = 0
  IN CASE isLeft(q.on[1]) /\ isRight(q.on[2]) ->
            [ok |-> TRUE, l |-> ColPos(l, q.on[1]), r |-> ColPos(r, q.on[2])]
       [] isRight(q.on[1]) /\ isLeft(q.on[2]) ->
            [ok |-> TRUE, l |-> ColPos(l, q.on[2]), r |-> ColPos(r, q.on[1])]
       [] OTHER -> [ok |-> FALSE]

SelectJoin(q) ==
  LET joined(sides) == HashJoin(Stream(ScanTable(q.from[1])), Stream(ScanTable(q.from[2])), sides.l, sides.r)
  IN IF q.from[1] = q.from[2] \/ ~ JoinSides(q).ok THEN Refused
     ELSE RunSelect(q, Schema[q.from[1]] \o Schema[q.from[2]], joined(JoinSides(q)))

IsAggregate(e) == e.is = "fn" /\ e.name \in AggNames

\* The column of an aggregate's argument: 0 for the star.
AggColumn(e, schema) == IF e.x = Col("*") THEN 0 ELSE ColPos(schema, e.x.name)
Resolves(e, schema) == e.x.is = "col" /\ (e.x = Col("*") \/ ColPos(schema, e.x.name) # 0)
AsAgg(e, schema) == Agg(e.name, AggColumn(e, schema))

\* What a grouped query needs: key columns, aggregates, and for each item its
\* place in a row of keys and aggregates.
GroupPlan(q, schema) ==
  LET idx == [i \in DOMAIN q.group |-> ColPos(schema, q.group[i])]
      aggs == SelectSeq(q.items, IsAggregate)
      place(i) == IF IsAggregate(q.items[i])
                  THEN Len(idx) + Len(SelectSeq(SubSeq(q.items, 1, i), IsAggregate))
                  ELSE ColPos(q.group, q.items[i].name)
  IN [ok |-> /\ q.items # Star
             /\ 0 \notin Range(idx)
             /\ \A i \in DOMAIN q.items :
                  \/ IsAggregate(q.items[i]) /\ Resolves(q.items[i], schema)
                  \/ q.items[i].is = "col" /\ q.items[i].name \in Range(q.group),
      idx |-> idx,
      aggs |-> [i \in DOMAIN aggs |-> AsAgg(aggs[i], schema)],
      reorder |-> [i \in DOMAIN q.items |-> place(i)]]

\* grouped_order_index: ORDER BY names an output column; 0 when there is none.
OrderIndex(q, i) ==
  LET at == {j \in DOMAIN q.items : q.items[j] = q.order[i].key}
  IN IF at = {} THEN 0 ELSE CHOOSE j \in at : \A k \in at : j <= k
OrderResolves(q) == \A i \in DOMAIN q.order : OrderIndex(q, i) # 0
OrderKey(q, row) == [i \in DOMAIN q.order |-> row[OrderIndex(q, i)]]
OrderGroups(q, rs) ==
  IF q.order = << >> THEN rs ELSE StableSort(rs, LAMBDA r : OrderKey(q, r), Descs(q))

SelectGroupBy(q, t) ==
  LET filtered == Filter(Stream(ScanTable(t)), q.where, Schema[t])
      answer(groups) ==
        IF q.order = << >>
        THEN Collected(IF q.limit = NoLimit THEN groups ELSE Limit(groups, q.limit))
        ELSE IF groups.fails THEN Refused
        ELSE Answer(Truncated(OrderGroups(q, groups.rows), q.limit))
      planned(plan) ==
        IF ~ plan.ok \/ ~ OrderResolves(q) THEN Refused
        ELSE answer(Project(HashAggregate(filtered, plan.idx, plan.aggs), plan.reorder))
  IN planned(GroupPlan(q, Schema[t]))

\* try_parse_aggregates: a projection of functions, one of them an aggregate.
\* Scalar functions among them are left out.
IsAggregateQuery(q) ==
  /\ q.items # Star
  /\ \A i \in DOMAIN q.items : q.items[i].is = "fn"
  /\ \E i \in DOMAIN q.items : IsAggregate(q.items[i])

\* select_aggregates: one row; ORDER BY and LIMIT do not apply.
SelectAggregates(q, t) ==
  LET aggs == SelectSeq(q.items, IsAggregate)
      row(rs) == [i \in DOMAIN aggs |-> PlainAggregate(AsAgg(aggs[i], Schema[t]), rs)]
      answer(s) == IF s.fails \/ Err \in Range(row(s.rows)) THEN Refused ELSE Answer(<<row(s.rows)>>)
  IN IF \E i \in DOMAIN aggs : ~ Resolves(aggs[i], Schema[t]) THEN Refused
     ELSE answer(Filter(Stream(ScanTable(t)), q.where, Schema[t]))

\* select.  Inside a transaction the indexes are not used: they lack its rows.
Select(q, inTxn) ==
  LET t == q.from[1]
      residual(term) == [q EXCEPT !.where = RemoveConjunct(@, term)]
      planned(served) ==
        IF inTxn \/ served = << >> THEN RunSelect(q, Schema[t], Stream(ScanTable(t)))
        ELSE RunSelect(residual(served[1]), Schema[t], Stream(LookedUp(q, served[1])))
  IN IF Len(q.from) = 2 THEN SelectJoin(q)
     ELSE IF q.group # << >> THEN SelectGroupBy(q, t)
     ELSE IF IsAggregateQuery(q) THEN SelectAggregates(q, t)
     ELSE planned(ServedTerm(q))
----------------------------------------------------------------------------
(* stream_query: the batches a sink is given, one after the other.         *)

\* The rows of a table as the iterator over its pages finds them.
PageRows(t) == [i \in DOMAIN pages[t] |-> rows[t][pages[t][i]]]

\* ORDER BY of the materialised paths: a key that fails counts as NULL.
SortedRows(q, rs, schema) ==
  LET key(r) == [i \in DOMAIN q.order |->
                   LET v == Eval(q.order[i].key, schema, r) IN IF v = Err THEN Null ELSE v]
  IN IF q.order = << >> THEN rs ELSE StableSort(rs, key, Descs(q))

\* Filter, sort, cut, and only then project.
EmitSorted(q, rs, schema) ==
  LET cut(found) == Truncated(SortedRows(q, found, schema), q.limit)
      emitted(kept) ==
        IF kept.fails THEN Refused
        ELSE Collected(ProjectExprs(Stream(cut(kept.rows)), Exprs(q, schema), schema))
  IN emitted(Filter(Stream(rs), q.where, schema))

StreamJoin(q) ==
  LET build == PullAll(Vec(PageRows(q.from[2])), << >>)
      join(sides) == BHashJoin(Vec(PageRows(q.from[1])), build.rows, sides.l, sides.r)
  IN IF q.from[1] = q.from[2] \/ ~ JoinSides(q).ok THEN Refused
     ELSE EmitSorted(q, PullAll(join(JoinSides(q)), << >>).rows, Schema[q.from[1]] \o Schema[q.from[2]])

\* Without GROUP BY there is a row even for no input.
OneRowAtLeast(q, rs, aggs) ==
  IF rs = << >> /\ q.group = << >>
  THEN <<[i \in DOMAIN aggs |-> IF aggs[i].func = "COUNT" THEN Num(0) ELSE Null]>> ELSE rs

StreamGrouped(q, t) ==
  LET groups(kept, plan) == PullAll(BAggregate(Vec(kept.rows), plan.idx, plan.aggs), << >>)
      out(kept, plan) == OneRowAtLeast(q, Project(groups(kept, plan), plan.reorder).rows, plan.aggs)
      answer(kept, plan) ==
        IF ~ plan.ok \/ kept.fails \/ ~ OrderResolves(q) THEN Refused
        ELSE Answer(Truncated(OrderGroups(q, out(kept, plan)), q.limit))
  IN answer(Filter(Stream(PageRows(t)), q.where, Schema[t]), GroupPlan(q, Schema[t]))

MutantLimitForgotten(limit, n) == limit

LimitAfter(limit, n) == IF limit = NoLimit THEN NoLimit ELSE limit - n

\* The streaming loop: batches of at most limit raw rows, filtered inline.
RECURSIVE StreamFrom(_, _, _, _)
StreamFrom(q, schema, rest, limit) ==
  LET take == Smaller(IF limit = NoLimit THEN BatchRows ELSE Smaller(limit, BatchRows), Len(rest))
      kept == Filter(Stream(SubSeq(rest, 1, take)), q.where, schema)
      more(batch) == StreamFrom(q, schema, SubSeq(rest, take + 1, Len(rest)), LimitAfter(limit, Len(batch)))
      sent(batch) == [more(batch) EXCEPT !.rows = batch \o @]
      emitted(out) == IF out.fails THEN Failed ELSE sent(Truncated(out.rows, limit))
  IN IF take = 0 THEN Stream(<< >>) ELSE emitted(ProjectExprs(kept, Exprs(q, schema), schema))

StreamQuery(q) ==
  LET t == q.from[1] IN
  IF Len(q.from) = 2 THEN StreamJoin(q)
  ELSE IF q.group # << >> \/ \E i \in DOMAIN q.items : IsAggregate(q.items[i]) THEN StreamGrouped(q, t)
  ELSE IF q.order = << >> THEN Collected(StreamFrom(q, Schema[t], PageRows(t), q.limit))
  ELSE EmitSorted(q, PageRows(t), Schema[t])
----------------------------------------------------------------------------
(* Properties.                                                             *)

\* A SELECT gives the rows, in the order, of a table scan when an index serves
\* one of its conjuncts.  Only an error of the scan may be missing: it came from
\* a row the index does not visit (engine.rs:754-820).
IndexAnswersLikeScan ==
  \A q \in Queries : ServedTerm(q) # << >> =>
    \A answer \in {[scan \in BOOLEAN |-> Select(q, scan)]} :
      \A scanned \in {answer[TRUE]} : scanned.ok => answer[FALSE] = scanned

SameBag(a, b) ==
  /\ Len(a) = Len(b)
  /\ \A r \in Range(a) \cup Range(b) :
       Len(SelectSeq(a, LAMBDA s : s = r)) = Len(SelectSeq(b, LAMBDA s : s = r))

Contained(a, b) ==
  \A r \in Range(a) : Len(SelectSeq(a, LAMBDA s : s = r)) <= Len(SelectSeq(b, LAMBDA s : s = r))

Unlimited(q) == [q EXCEPT !.limit = NoLimit]

\* A SUM of no values is NULL, but 0 in a group of the row executor
\* (executor.rs:326-334, batch_ops.rs:341-347).
GroupSums(q) ==
  IF q.group = << >> THEN {}
  ELSE {j \in DOMAIN q.items : q.items[j].is = "fn" /\ q.items[j].name = "SUM"}

\* The statement that counts what q adds up in groups.
Counted(q) ==
  [Unlimited(q) EXCEPT !.items =
     [j \in DOMAIN @ |-> IF j \in GroupSums(q) THEN Fn("COUNT", @[j].x) ELSE @[j]]]

\* The rows rs of the row executor as the batches give them, with the values counted.
AsBatches(q, rs, counted) ==
  IF GroupSums(q) = {} THEN rs
  ELSE [i \in DOMAIN rs |-> [j \in DOMAIN rs[i] |->
          IF j \notin GroupSums(q) \/ counted[i][j] # Num(0) THEN rs[i][j]
          ELSE IF rs[i][j] = Num(0) THEN Null ELSE Err]]

\* What reads no index is compared while there is none: the tables of a state
\* with indexes are those of one without.
NoIndex == DOMAIN trees = {}

\* What the row executor answers, the batches answer too, with the same bag of
\* rows; under a LIMIT with as many rows, all of them rows of the whole answer,
\* which need not be the same ones, because pages are in the order of commits.
\* ADR-006:36 (same input, same results) and ADR-017:42 promise it without the
\* exception made here, the SUM of no values in a group.  Not compared are what
\* the row executor refuses, a SUM of texts among it, and the MIN and MAX of
\* texts, of which batches keep the first (batch_ops.rs:304-333).
PathsAgree ==
  NoIndex => \A q \in Queries :
    \A answer \in {[p \in {q, Unlimited(q), Counted(q)} |-> Select(p, TRUE)]} :
    \A whole \in {answer[Unlimited(q)]} :
      whole.ok =>
        \A streamed \in {StreamQuery(q)} :
          /\ streamed.ok
          /\ Len(streamed.rows) = Len((IF q.limit = NoLimit THEN whole ELSE answer[q]).rows)
          /\ Contained(streamed.rows, AsBatches(q, whole.rows, answer[Counted(q)].rows))

OrderSchema(q) == IF Len(q.from) = 2 THEN Schema[q.from[1]] \o Schema[q.from[2]] ELSE Schema[q.from[1]]

\* ORDER BY with LIMIT gives the first rows of the whole sorted answer: keys
\* never descend, NULLs are the largest, and rows of one key keep the order of
\* the unsorted answer (executor.rs:149-151).
OrderedAnswers ==
  \A q \in Queries :
    (q.items = Star /\ q.order # << >>) =>
    \A answer \in {[p \in {q, [Unlimited(q) EXCEPT !.order = << >>]} |-> Select(p, FALSE)]} :
    \A a \in {answer[q]}, plain \in {answer[[Unlimited(q) EXCEPT !.order = << >>]]} :
      LET key(r) == EvalAll(Keys(q), OrderSchema(q), r)
          keysOf(rs) == {key(rs[i]) : i \in DOMAIN rs}
          below == UNION {{k2 \in keysOf(plain.rows) : KeyBefore(k2, k, Descs(q))} : k \in keysOf(a.rows)}
          ofKey(rs, k) == SelectSeq(rs, LAMBDA r : key(r) = k)
      IN a.ok =>
           /\ Len(a.rows) = Len(Truncated(plain.rows, q.limit))
           /\ \A i \in 1..(Len(a.rows) - 1) : ~ KeyBefore(key(a.rows[i + 1]), key(a.rows[i]), Descs(q))
           /\ \A i \in 1..(Len(a.rows) - 1) :
                Keys(q) = <<Col(Schema[q.from[1]][1])>> /\ key(a.rows[i]) = <<Null>> /\ ~ Descs(q)[1]
                  => key(a.rows[i + 1]) = <<Null>>
           /\ below \subseteq keysOf(a.rows)
           /\ \A k \in keysOf(a.rows) : IsPrefix(ofKey(a.rows, k), ofKey(plain.rows, k))

\* Grouping loses no row and counts none twice: the counts of the groups add up
\* to the count of the table, their sums to its sum (which may have wrapped), NULL
\* keys are one group, and no key comes twice.  (A SUM of texts is refused.)
GroupsPartition ==
  \A t \in Tables : \A c \in DOMAIN Schema[t] :
    LET first == Col(Schema[t][1])
        q == [from |-> <<t>>, where |-> NoPredicate, group |-> <<Schema[t][c]>>,
              items |-> <<Col(Schema[t][c]), Fn("COUNT", Col("*")), Fn("COUNT", first), Fn("SUM", first)>>,
              order |-> << >>, limit |-> NoLimit]
        sum(rs, i) == FoldLeft(LAMBDA n, r : n + Number(r[i]), 0, rs)
        all == [q EXCEPT !.group = << >>, !.items = Tail(@)]
    IN
    \A answer \in {[p \in {q, all} |-> Select(p, FALSE)]} :
    \A grouped \in {answer[q]}, whole \in {answer[all]} :
       grouped.ok =>
         /\ Len(grouped.rows) = Cardinality({r[c] : r \in Range(ScanTable(t))})
         /\ \A i, j \in DOMAIN grouped.rows : i < j => Before(grouped.rows[i][1], grouped.rows[j][1])
         /\ sum(grouped.rows, 2) = Number(whole.rows[1][1])
         /\ sum(grouped.rows, 3) = Number(whole.rows[1][2])
         /\ Wrapped(sum(grouped.rows, 4)) = IF whole.rows[1][3] = Null THEN 0 ELSE Number(whole.rows[1][3])

\* A join is the product of its tables where the join columns are equal and not
\* NULL; only the row-at-a-time executor also keeps the order of that product.
JoinIsProduct ==
  \A q \in Queries :
    (Len(q.from) = 2 /\ JoinSides(q).ok) =>
      LET all == [q EXCEPT !.items = Star, !.where = NoPredicate, !.order = << >>, !.limit = NoLimit]
          l == ScanTable(q.from[1])
          r == ScanTable(q.from[2])
          sides == JoinSides(q)
          meets(i, j) == l[i][sides.l] = r[j][sides.r] /\ l[i][sides.l] # Null
          product == FlattenSeq([i \in DOMAIN l |->
                       FlattenSeq([j \in DOMAIN r |-> IF meets(i, j) THEN <<l[i] \o r[j]>> ELSE << >>])])
      IN /\ Select(all, FALSE).rows = product
         /\ SameBag(StreamQuery(all).rows, product)

\* Kleene's truth of a predicate, 2 for TRUE and 1 for UNKNOWN: BETWEEN is two
\* comparisons, IN a disjunction of equalities.
RECURSIVE Truth(_, _, _)
Truth(e, schema, row) ==
  LET truth(x) == Truth(x, schema, row)
      min(a, b) == IF a < b THEN a ELSE b
      max(a, b) == IF a < b THEN b ELSE a
      compare(x, op, y) ==
        LET a == Eval(x, schema, row)  b == Eval(y, schema, row) IN
        IF a = Null \/ b = Null \/ IsInt(a) # IsInt(b) THEN 1
        ELSE IF \/ op = "=" /\ a = b
                \/ op = "!=" /\ a # b
                \/ op \in {"<", "<="} /\ (Before(a, b) \/ (op = "<=" /\ a = b))
                \/ op \in {">", ">="} /\ (Before(b, a) \/ (op = ">=" /\ a = b))
             THEN 2 ELSE 0
  IN CASE e.is = "not" -> 2 - truth(e.x)
       [] e.is = "bin" /\ e.op = "AND" -> min(truth(e.l), truth(e.r))
       [] e.is = "bin" /\ e.op = "OR" -> max(truth(e.l), truth(e.r))
       [] e.is = "between" -> min(compare(e.x, ">=", e.lo), compare(e.x, "<=", e.hi))
       [] e.is = "in" -> FoldLeft(LAMBDA t, y : max(t, compare(e.x, "=", y)), 0, e.list)
       [] e.is = "bin" /\ e.op \in Comparisons -> compare(e.l, e.op, e.r)
       [] OTHER -> LET v == Logic(Eval(e, schema, row)) IN IF v = Null THEN 1 ELSE 2 * Number(v)

\* WHERE keeps a row exactly when its predicate is TRUE in three-valued logic,
\* UNKNOWN being as good as FALSE (engine.rs:1982-1991).
WhereIsThreeValued ==
  \A q \in Queries :
    (Len(q.from) = 1) =>
      \A r \in Range(ScanTable(q.from[1])) :
        LET v == Logic(Eval(q.where, Schema[q.from[1]], r))
        IN v # Err => (IsTrue(v) <=> Truth(q.where, Schema[q.from[1]], r) = 2)

\* A SELECT answers what the relational definitions above say.
AnswersAreRelational ==
  NoIndex => WhereIsThreeValued /\ JoinIsProduct /\ GroupsPartition /\ OrderedAnswers

\* The statements, as far as a tree of operators depends on them.
Pipelines == {q \in Queries : Len(q.from) = 1 /\ q.group = << >> /\ q.limit # NoLimit}
Joins == {[q EXCEPT !.where = NoPredicate, !.items = Star, !.order = << >>, !.limit = NoLimit] :
            q \in {p \in Queries : Len(p.from) = 2}}
Groupings == {[q EXCEPT !.order = << >>, !.limit = NoLimit] : q \in {p \in Queries : p.group # << >>}}

\* A table twice over: more rows than a batch holds.
Doubled(t) == ScanTable(t) \o ScanTable(t)

\* Filter, sort, project and limit over one table, for the consumer's batches of n.
PipelineInvisible(q, n) ==
  LET schema == Schema[q.from[1]]
      source == Doubled(q.from[1])
      sorted == BSort(BFilter(Vec(source), q.where, schema), Keys(q), Descs(q), schema)
      batches == BLimit(BEvalProject(sorted, Exprs(q, schema), schema), q.limit)
      filtered == BLimit(BFilter(BProjectIdx(Vec(source), [i \in DOMAIN schema |-> i]), q.where, schema), q.limit)
      kept == Filter(Stream(source), q.where, schema)
      whole == ProjectExprs(Sort(kept, Keys(q), Descs(q), schema), Exprs(q, schema), schema)
  IN /\ ~ whole.fails => CollectAll(batches, n) = Limit(whole, q.limit).rows
     /\ ~ kept.fails => CollectAll(filtered, n) = Limit(kept, q.limit).rows

\* A join whose matches do not fit a batch.  Only the bag of its rows is kept:
\* what is pending is turned around with every probe row (batch_ops.rs:631).
JoinInvisible(q, n) ==
  LET sides == JoinSides(q)
      left == Doubled(q.from[1])
      right == Doubled(q.from[2])
      batches == BHashJoin(Vec(left), right, sides.l, sides.r)
      whole == HashJoin(Stream(left), Stream(right), sides.l, sides.r).rows
      cut == CollectAll(BLimit(batches, BatchRows + 1), n)
  IN /\ SameBag(CollectAll(batches, n), whole)
     /\ Len(cut) = Smaller(BatchRows + 1, Len(whole)) /\ Contained(cut, whole)

\* Groups; a sum of no values is 0 in one and NULL in the other.
GroupsInvisible(q, n) ==
  LET plan == GroupPlan(q, Schema[q.from[1]])
      kept == Filter(Stream(Doubled(q.from[1])), q.where, Schema[q.from[1]])
      whole == HashAggregate(kept, plan.idx, plan.aggs)
      batches == CollectAll(BAggregate(Vec(kept.rows), plan.idx, plan.aggs), n)
      noValues(i, j) ==
        LET at == plan.aggs[j - Len(plan.idx)] IN
        /\ j > Len(plan.idx)
        /\ at.func = "SUM"
        /\ NotNull(Column(Bucket(kept.rows, plan.idx, SubSeq(whole.rows[i], 1, Len(plan.idx))), at.column)) = << >>
  IN (plan.ok /\ ~ kept.fails /\ ~ whole.fails) =>
       /\ Len(batches) = Len(whole.rows)
       /\ \A i \in DOMAIN batches : \A j \in DOMAIN batches[i] :
            batches[i][j] = IF noValues(i, j) THEN Null ELSE whole.rows[i][j]

\* However small the batches, and wherever one ends within the rows or within
\* the matches of a probe row, these trees of batch operators yield what the row
\* operators yield (batch_ops.rs:1-14).
BatchesAreInvisible ==
  NoIndex => \A n \in 1..(BatchRows + 1) :
    /\ \A q \in Pipelines : PipelineInvisible(q, n)
    /\ \A q \in Joins : JoinSides(q).ok => JoinInvisible(q, n)
    /\ \A q \in Groupings : GroupsInvisible(q, n)
============================================================================
