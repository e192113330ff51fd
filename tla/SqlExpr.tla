------------------------------ MODULE SqlExpr ------------------------------
(***************************************************************************)
(* Expressions and three-valued logic of crates/qmind-sql: the evaluator   *)
(* of engine.rs.                                                           *)
(***************************************************************************)
EXTENDS SqlValues

CONSTANT IntMax  \* i64::MAX; the smallest integer is -IntMax - 1

Err == <<9>>     \* an evaluation that answered an error

Fits(n) == n \in (-IntMax - 1)..IntMax
Checked(n) == IF Fits(n) THEN Num(n) ELSE Err
Bool(b) == Num(IF b THEN 1 ELSE 0)

----------------------------------------------------------------------------
(* Three-valued logic: TRUE and FALSE are Num(1) and Num(0), UNKNOWN Null. *)

\* to_logic, kept as a value: a text is an error.
Logic(v) == IF v = Err \/ IsText(v) THEN Err
            ELSE IF v = Null THEN Null ELSE Bool(Number(v) # 0)

And3(a, b) == IF Bool(FALSE) \in {a, b} THEN Bool(FALSE)
              ELSE IF Null \in {a, b} THEN Null ELSE Bool(TRUE)

Or3(a, b) == IF Bool(TRUE) \in {a, b} THEN Bool(TRUE)
             ELSE IF Null \in {a, b} THEN Null ELSE Bool(FALSE)

Not3(v) == IF v = Null THEN Null ELSE Bool(v = Bool(FALSE))

\* is_true: UNKNOWN does not select a row.
IsTrue(v) == Logic(v) = Bool(TRUE)
----------------------------------------------------------------------------
(* Expressions.                                                            *)

Col(name) == [is |-> "col", name |-> name]
Lit(v) == [is |-> "lit", value |-> v]
Neg(x) == [is |-> "neg", x |-> x]
Not(x) == [is |-> "not", x |-> x]
Between(x, lo, hi) == [is |-> "between", x |-> x, lo |-> lo, hi |-> hi]
InList(x, list) == [is |-> "in", x |-> x, list |-> list]
Fn(name, x) == [is |-> "fn", name |-> name, x |-> x]
Bin(l, op, r) == [is |-> "bin", op |-> op, l |-> l, r |-> r]

Comparisons == {"=", "!=", "<", "<=", ">", ">="}
Arithmetic == {"+", "-", "*", "/", "%"}

CompareOp(op, a, b) ==
  IF ~ Comparable(a, b) THEN Null
  ELSE Bool(CASE op = "=" -> a = b
              [] op = "!=" -> a # b
              [] op = "<" -> Before(a, b)
              [] op = "<=" -> ~ Before(b, a)
              [] op = ">" -> Before(b, a)
              [] op = ">=" -> ~ Before(a, b))

\* Rust divides towards zero, TLA+ downwards.
Quotient(x, y) ==
  LET abs(n) == IF n < 0 THEN -n ELSE n
      q == abs(x) \div abs(y)
  IN IF (x < 0) = (y < 0) THEN q ELSE -q

ArithmeticOp(op, a, b) ==
  IF Null \in {a, b} THEN Null
  ELSE IF ~ (IsInt(a) /\ IsInt(b)) \/ (op \in {"/", "%"} /\ Number(b) = 0) THEN Err
  ELSE LET x == Number(a)  y == Number(b) IN
       CASE op = "+" -> Checked(x + y)
         [] op = "-" -> Checked(x - y)
         [] op = "*" -> Checked(x * y)
         [] op = "/" -> Checked(Quotient(x, y))
         \* checked_rem overflows where the quotient does
         [] op = "%" -> IF Fits(Quotient(x, y)) THEN Num(x - y * Quotient(x, y)) ELSE Err

AnyChar == 100  \* _
AnyRun == 101   \* %

\* The helper of like_matches, as the table of what suffix of the text
\* matches what suffix of the pattern.
LikeMatches(s, p) ==
  LET match[i \in 1..(Len(s) + 1), j \in 1..(Len(p) + 1)] ==
        IF j > Len(p) THEN i > Len(s)
        ELSE IF p[j] = AnyChar THEN i <= Len(s) /\ match[i + 1, j + 1]
        ELSE IF p[j] = AnyRun THEN match[i, j + 1] \/ (i <= Len(s) /\ match[i + 1, j])
        ELSE i <= Len(s) /\ s[i] = p[j] /\ match[i + 1, j + 1]
  IN match[1, 1]

LikeOp(a, b) ==
  IF IsText(a) /\ IsText(b) THEN Bool(LikeMatches(Chars(a), Chars(b)))
  ELSE IF Null \in {a, b} THEN Null ELSE Err

\* A capital letter is its small one plus ten.
Upper(s) == [i \in DOMAIN s |-> IF s[i] \in 1..9 THEN s[i] + 10 ELSE s[i]]
Lower(s) == [i \in DOMAIN s |-> IF s[i] \in 11..19 THEN s[i] - 10 ELSE s[i]]

\* eval_scalar.  The names of aggregates are no scalar functions.
ScalarFn(name, v) ==
  IF name \notin {"UPPER", "LOWER", "LENGTH"} THEN Err
  ELSE IF v = Null THEN Null
  ELSE IF ~ IsText(v) THEN Err
  ELSE CASE name = "UPPER" -> Text(Upper(Chars(v)))
         [] name = "LOWER" -> Text(Lower(Chars(v)))
         [] name = "LENGTH" -> Num(Len(Chars(v)))

\* A NULL in the list before the match leaves the match found.
InOp(v, items) ==
  IF \E i \in DOMAIN items : items[i] = Err /\ \A j \in 1..(i - 1) : items[j] # v \/ v = Null
  THEN Err
  ELSE IF v # Null /\ v \in Range(items) THEN Bool(TRUE)
  ELSE IF Null \in Range(items) THEN Null ELSE Bool(FALSE)

BetweenOp(v, lo, hi) ==
  IF Comparable(v, lo) /\ Comparable(v, hi)
  THEN Bool(~ Before(v, lo) /\ ~ Before(hi, v)) ELSE Null

\* eval_expr and eval_binary.  Both operands are always evaluated: AND and OR
\* do not hide an error of their right side.
RECURSIVE Eval(_, _, _)
Eval(e, schema, row) ==
  LET ev(x) == Eval(x, schema, row) IN
  CASE e.is = "col" -> IF ColPos(schema, e.name) = 0 THEN Err ELSE row[ColPos(schema, e.name)]
    [] e.is = "lit" -> e.value
    [] e.is = "neg" -> LET v == ev(e.x) IN
         IF v = Null THEN Null ELSE IF v # Err /\ IsInt(v) THEN Checked(-Number(v)) ELSE Err
    [] e.is = "not" -> LET v == Logic(ev(e.x)) IN IF v = Err THEN Err ELSE Not3(v)
    [] e.is = "between" ->
         LET v == ev(e.x)  lo == ev(e.lo)  hi == ev(e.hi)
         IN IF Err \in {v, lo, hi} THEN Err ELSE BetweenOp(v, lo, hi)
    [] e.is = "in" ->
         LET v == ev(e.x) IN
         IF v = Err THEN Err ELSE InOp(v, [i \in DOMAIN e.list |-> ev(e.list[i])])
    [] e.is = "fn" -> LET v == ev(e.x) IN IF v = Err THEN Err ELSE ScalarFn(e.name, v)
    [] e.is = "bin" /\ e.op \in {"AND", "OR"} ->
         LET a == Logic(ev(e.l))  b == Logic(ev(e.r))
         IN IF Err \in {a, b} THEN Err ELSE IF e.op = "AND" THEN And3(a, b) ELSE Or3(a, b)
    [] e.is = "bin" /\ e.op \notin {"AND", "OR"} ->
         LET a == ev(e.l)  b == ev(e.r)
         IN IF Err \in {a, b} THEN Err
            ELSE IF e.op = "LIKE" THEN LikeOp(a, b)
            ELSE IF e.op \in Comparisons THEN CompareOp(e.op, a, b)
            ELSE ArithmeticOp(e.op, a, b)

----------------------------------------------------------------------------
(* The planner's view of a predicate.                                      *)

IsAnd(e) == e.is = "bin" /\ e.op = "AND"

\* conjuncts: the terms of the top-level ANDs, left to right.
RECURSIVE Conjuncts(_)
Conjuncts(e) == IF IsAnd(e) THEN Conjuncts(e.l) \o Conjuncts(e.r) ELSE <<e>>

NoPredicate == Lit(Num(1))   \* a WHERE clause that is absent

\* remove_conjunct: every term equal to this one goes.
RECURSIVE RemoveConjunct(_, _)
RemoveConjunct(e, term) ==
  IF IsAnd(e)
  THEN LET l == RemoveConjunct(e.l, term)  r == RemoveConjunct(e.r, term)
       IN IF l = NoPredicate THEN r ELSE IF r = NoPredicate THEN l ELSE Bin(l, "AND", r)
  ELSE IF e = term THEN NoPredicate ELSE e
============================================================================
