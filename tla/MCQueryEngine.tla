--------------------------- MODULE MCQueryEngine ---------------------------
(***************************************************************************)
(* A small instance: a table t of an integer and a text, a table u of one  *)
(* text, and statements that use every form of predicate, ORDER BY, LIMIT, *)
(* GROUP BY, aggregate and join of the dialect.                            *)
(***************************************************************************)
EXTENDS QueryEngine

x == Text(<<1>>)
yx == Text(<<2, 1>>)

MCSchema == [t |-> <<"a", "b">>, u |-> <<"c">>]
MCRowsOf == [t |-> {<<Num(0), x>>, <<Num(1), x>>, <<Num(1), yx>>, <<Null, yx>>, <<Num(1), Null>>},
             u |-> {<<x>>, <<yx>>, <<Text(<<2>>)>>, <<Text(<<3, 1>>)>>}]
MCIndexable == {<<"t", "a">>, <<"u", "c">>}
MCCost == [t |-> 2, u |-> 1]

a == Col("a")
b == Col("b")
zero == Lit(Num(0))
one == Lit(Num(1))
aIs1 == Bin(a, "=", one)
bIsX == Bin(b, "=", Lit(x))
inverse == Bin(Bin(one, "/", a), "=", one)

Predicates == {
  aIs1, Bin(aIs1, "AND", bIsX), Bin(bIsX, "AND", aIs1), Bin(aIs1, "AND", aIs1),
  Bin(Bin(a, "=", zero), "OR", Bin(b, "LIKE", Lit(Text(<<AnyRun, 1>>)))),
  Bin(Not(Bin(b, "LIKE", Lit(Text(<<AnyChar>>)))), "AND", aIs1),
  Between(a, zero, Lit(Null)), Between(a, one, one),
  InList(a, <<Lit(Null), one>>), Not(InList(a, <<Lit(Null), one>>)),
  Not(aIs1), Bin(a, "=", Lit(Null)), Bin(b, "=", one), Bin(a, "<", Bin(a, "+", a)), Bin(a, ">", Bin(a, "-", one)),
  Bin(aIs1, "AND", inverse), Bin(inverse, "OR", aIs1), Bin(aIs1, "AND", b),
  Bin(Fn("LENGTH", b), ">=", Neg(Lit(Num(-1)))), Bin(Fn("UPPER", b), "=", Lit(Text(<<11>>)))}

Ask == [from |-> <<"t">>, on |-> << >>, where |-> NoPredicate, group |-> << >>, items |-> Star,
        order |-> << >>, limit |-> NoLimit]
By(e, d) == [key |-> e, desc |-> d]
Count == Fn("COUNT", Col("*"))

Plain == {[Ask EXCEPT !.where = p] : p \in Predicates}

Ordered ==
  {[Ask EXCEPT !.order = o, !.limit = n] :
     o \in {<<By(a, FALSE)>>, <<By(a, TRUE)>>, <<By(b, FALSE), By(a, TRUE)>>}, n \in {NoLimit, 1, 2}}
  \cup {[Ask EXCEPT !.where = aIs1, !.order = <<By(b, FALSE)>>, !.limit = 1],
        [Ask EXCEPT !.items = <<b>>, !.order = <<By(Bin(one, "/", a), FALSE)>>]}

Limited ==
  {[Ask EXCEPT !.where = p, !.limit = n] : p \in {aIs1, bIsX, inverse}, n \in {0, 1, 2}}
  \cup {[Ask EXCEPT !.items = <<Bin(one, "/", a), b>>, !.limit = 1]}

Aggregated1 ==
  {[Ask EXCEPT !.where = p,
               !.items = <<Count, Fn("COUNT", b), Fn("SUM", a), Fn("AVG", a), Fn("MIN", a), Fn("MAX", a)>>] :
     p \in {NoPredicate, Not(aIs1), Bin(one, "=", zero)}}

Grouped ==
  {[Ask EXCEPT !.group = <<"b">>, !.items = <<Count, b, Fn("SUM", a), Fn("AVG", a)>>, !.order = o, !.limit = n] :
     o \in {<< >>, <<By(Count, TRUE), By(b, FALSE)>>}, n \in {NoLimit, 1}}
  \cup {[Ask EXCEPT !.group = <<"b", "a">>, !.items = <<a, b, Fn("MAX", a)>>, !.where = bIsX],
        [Ask EXCEPT !.group = <<"b">>, !.items = <<a>>]}

Joined ==
  {[Ask EXCEPT !.from = <<"t", "u">>, !.on = on, !.where = p, !.order = o, !.limit = n] :
     on \in {<<"b", "c">>}, p \in {NoPredicate, bIsX}, o \in {<< >>, <<By(b, TRUE)>>}, n \in {NoLimit, 1}}
  \cup {[Ask EXCEPT !.from = <<"u", "t">>, !.on = <<"b", "c">>, !.items = <<a, Col("c")>>],
        [Ask EXCEPT !.from = <<"t", "u">>, !.on = <<"a", "b">>]}

Keyed ==
  {[Ask EXCEPT !.from = <<"u">>, !.where = p] :
     p \in {Bin(Col("c"), "=", Lit(yx)), Bin(Bin(Col("c"), ">", Lit(x)), "AND", Bin(Col("c"), "=", Lit(x)))}}

MCQueries == Keyed \cup Plain \cup Ordered \cup Limited \cup Aggregated1 \cup Grouped \cup Joined
============================================================================
