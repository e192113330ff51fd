-------------------------- MODULE MaterializeProofs --------------------------
(***************************************************************************)
(* Theorems about what the engine derives from committed rows, for any     *)
(* number of sessions, tables, rows and restarts, whatever groups of the   *)
(* log and pages fail.  LogInv relates what the engine shows to the log    *)
(* and to the groups that wait to be written again; NumberInv and TxnInv   *)
(* keep the row ids of what was logged, or is yet to be, apart.            *)
(***************************************************************************)
EXTENDS Materialize, NumberLemmas, FiniteSetTheorems, SequenceTheorems, TLAPS

----------------------------------------------------------------------------
(* Redo, record by record.                                                 *)

Cells == Values \cup {NULL}
Rows == [id : Nat, int : Cells, text : Cells]

\* The rows of a table, by row id.
Tabs == UNION {[D -> Rows] : D \in SUBSET Nat}

Shown == [tables : SUBSET Tables, rows : [Tables -> Tabs]]
Logs == [tables : SUBSET Tables, indexes : SUBSET Tables, rows : [Tables -> Tabs]]
Recs ==
  [tables : SUBSET Tables, indexes : SUBSET Tables, dropped : SUBSET Tables,
   rows : [Tables -> Tabs]]

LEMMA TabIs ==
  ASSUME NEW f
  PROVE  /\ f \in Tabs => /\ DOMAIN f \subseteq Nat /\ \A i \in DOMAIN f : f[i] \in Rows
                          /\ f = [i \in DOMAIN f |-> f[i]]
         /\ \A D \in SUBSET Nat : f \in [D -> Rows] => f \in Tabs
BY DEF Tabs

\* Rows of f, and those of g that f has no row for.
LEMMA TabsJoin ==
  ASSUME NEW f \in Tabs, NEW g \in Tabs
  PROVE  /\ Over(f, g) \in Tabs
         /\ DOMAIN Over(f, g) = DOMAIN f \cup DOMAIN g
         /\ \A i \in DOMAIN f : Over(f, g)[i] = f[i]
         /\ \A i \in DOMAIN g \ DOMAIN f : Over(f, g)[i] = g[i]
<1>1. /\ DOMAIN f \subseteq Nat /\ \A i \in DOMAIN f : f[i] \in Rows
      /\ DOMAIN g \subseteq Nat /\ \A i \in DOMAIN g : g[i] \in Rows
  BY TabIs
<1>2. Over(f, g) \in [DOMAIN f \cup DOMAIN g -> Rows]
  BY <1>1 DEF Over
<1>3. DOMAIN f \cup DOMAIN g \in SUBSET Nat
  BY <1>1
<1> QED  BY <1>2, <1>3, TabIs DEF Over

\* What a record does.
LEMMA RedoneIs ==
  ASSUME NEW l \in Logs, NEW r \in Recs
  PROVE  /\ Redone(l, r) \in Logs
         /\ Redone(l, r).tables = l.tables \cup r.tables
         /\ Redone(l, r).indexes \subseteq l.indexes \cup r.indexes
         /\ \A t \in Tables :
              /\ DOMAIN Redone(l, r).rows[t] = DOMAIN l.rows[t] \cup DOMAIN r.rows[t]
              /\ \A i \in DOMAIN Redone(l, r).rows[t] :
                   Redone(l, r).rows[t][i] =
                     IF i \in DOMAIN r.rows[t] THEN r.rows[t][i] ELSE l.rows[t][i]
<1> DEFINE k == Redone(l, r)
<1>1. /\ l.tables \in SUBSET Tables /\ l.indexes \in SUBSET Tables
      /\ l.rows \in [Tables -> Tabs] /\ r.rows \in [Tables -> Tabs]
      /\ r.tables \in SUBSET Tables /\ r.indexes \in SUBSET Tables
  BY DEF Logs, Recs
<1>2. /\ k.tables = l.tables \cup r.tables
      /\ k.indexes = (l.indexes \cup r.indexes) \ r.dropped
      /\ k.rows = [t \in Tables |-> Over(r.rows[t], l.rows[t])]
      /\ k = [tables |-> k.tables, indexes |-> k.indexes, rows |-> k.rows]
  BY DEF Redone
<1> HIDE DEF k
<1>3. ASSUME NEW t \in Tables
      PROVE  /\ k.rows[t] = Over(r.rows[t], l.rows[t])
             /\ k.rows[t] \in Tabs
             /\ DOMAIN k.rows[t] = DOMAIN l.rows[t] \cup DOMAIN r.rows[t]
             /\ \A i \in DOMAIN r.rows[t] : k.rows[t][i] = r.rows[t][i]
             /\ \A i \in DOMAIN l.rows[t] \ DOMAIN r.rows[t] : k.rows[t][i] = l.rows[t][i]
  <2>1. r.rows[t] \in Tabs /\ l.rows[t] \in Tabs
    BY <1>1
  <2>2. k.rows[t] = Over(r.rows[t], l.rows[t])
    BY <1>2
  <2> DEFINE f == r.rows[t]  g == l.rows[t]
  <2> HIDE DEF f, g
  <2>3. f \in Tabs /\ g \in Tabs /\ k.rows[t] = Over(f, g)
    BY <2>1, <2>2 DEF f, g
  <2>4. /\ Over(f, g) \in Tabs
        /\ DOMAIN Over(f, g) = DOMAIN f \cup DOMAIN g
        /\ \A i \in DOMAIN f : Over(f, g)[i] = f[i]
        /\ \A i \in DOMAIN g \ DOMAIN f : Over(f, g)[i] = g[i]
    BY <2>3, TabsJoin
  <2>5. /\ k.rows[t] \in Tabs
        /\ DOMAIN k.rows[t] = DOMAIN g \cup DOMAIN f
        /\ \A i \in DOMAIN f : k.rows[t][i] = f[i]
        /\ \A i \in DOMAIN g \ DOMAIN f : k.rows[t][i] = g[i]
    BY <2>3, <2>4
  <2> QED  BY <2>2, <2>5 DEF f, g
<1>4. k.rows \in [Tables -> Tabs]
  <2>1. k.rows = [t \in Tables |-> k.rows[t]]
    BY <1>2
  <2> QED  BY <2>1, <1>3
<1>5. k \in Logs
  BY <1>1, <1>2, <1>4 DEF Logs
<1> QED  BY <1>2, <1>3, <1>5 DEF k

\* The states of redo exist, and each follows from the one before.
LEMMA RedoStateSteps ==
  ASSUME NEW l \in Logs, NEW p \in Seq(Recs)
  PROVE  /\ DOMAIN RedoStates(l, p) = 0..Len(p)
         /\ RedoStates(l, p)[0] = l
         /\ \A n \in 1..Len(p) :
              RedoStates(l, p)[n] = Redone(RedoStates(l, p)[n - 1], p[n])
<1> DEFINE N == Len(p)
<1>1. N \in Nat /\ \A n \in 1..N : p[n] \in Recs
  OBVIOUS
<1> DEFINE step == [n \in 1..N |-> [k \in Logs |-> Redone(k, p[n])]]
<1>2. step \in [1..N -> [Logs -> Logs]]
  <2>1. \A n \in 1..N : [k \in Logs |-> Redone(k, p[n])] \in [Logs -> Logs]
    BY <1>1, RedoneIs
  <2> QED  BY <2>1
<1>3. \A n \in 1..N : \A k \in Logs : step[n][k] = Redone(k, p[n])
  OBVIOUS
<1> HIDE DEF step, N
<1>4. PICK f \in [0..N -> Logs] : Follows(f, N, l, step)
  BY <1>1, <1>2, RecursionTo
<1>5. \A n \in 1..N : f[n] = Redone(f[n - 1], p[n])
  <2> TAKE n \in 1..N
  <2>1. n - 1 \in 0..N
    BY <1>1
  <2>2. f[n - 1] \in Logs
    BY <2>1
  <2> QED  BY <1>3, <1>4, <2>2 DEF Follows
<1>6. f = [n \in 0..N |-> IF n = 0 THEN l ELSE Redone(f[n - 1], p[n])]
  <2>1. \A n \in 0..N : f[n] = IF n = 0 THEN l ELSE Redone(f[n - 1], p[n])
    BY <1>1, <1>4, <1>5 DEF Follows
  <2> QED  BY <2>1
<1> DEFINE g == RedoStates(l, p)
<1>7. g = [n \in 0..N |-> IF n = 0 THEN l ELSE Redone(g[n - 1], p[n])]
  BY <1>6 DEF RedoStates, N
<1> HIDE DEF g
<1>8. DOMAIN g = 0..N /\ g[0] = l /\ \A n \in 1..N : g[n] = Redone(g[n - 1], p[n])
  BY <1>1, <1>7
<1> QED  BY <1>8 DEF g, N

\* The batch recs gives table t the row r under id i.
Adds(recs, t, i, r) ==
  \E n \in DOMAIN recs : i \in DOMAIN recs[n].rows[t] /\ r = recs[n].rows[t][i]

\* What redo makes of the log l and the records p: k has every table and row id
\* of both, and nothing that is in neither.
RedoOf(l, p, k) ==
  /\ k \in Logs
  /\ l.tables \subseteq k.tables
  /\ \A n \in DOMAIN p : p[n].tables \subseteq k.tables
  /\ \A u \in k.indexes : u \in l.indexes \/ \E n \in DOMAIN p : u \in p[n].indexes
  /\ \A t \in Tables :
       /\ DOMAIN l.rows[t] \subseteq DOMAIN k.rows[t]
       /\ \A n \in DOMAIN p : DOMAIN p[n].rows[t] \subseteq DOMAIN k.rows[t]
       /\ \A i \in DOMAIN k.rows[t] :
            \/ i \in DOMAIN l.rows[t] /\ k.rows[t][i] = l.rows[t][i]
            \/ Adds(p, t, i, k.rows[t][i])

\* The same of the first n records.
RedoUpto(l, p, n, k) ==
  /\ k \in Logs
  /\ l.tables \subseteq k.tables
  /\ \A m \in 1..n : p[m].tables \subseteq k.tables
  /\ \A u \in k.indexes : u \in l.indexes \/ \E m \in 1..n : u \in p[m].indexes
  /\ \A t \in Tables :
       /\ DOMAIN l.rows[t] \subseteq DOMAIN k.rows[t]
       /\ \A m \in 1..n : DOMAIN p[m].rows[t] \subseteq DOMAIN k.rows[t]
       /\ \A i \in DOMAIN k.rows[t] :
            \/ i \in DOMAIN l.rows[t] /\ k.rows[t][i] = l.rows[t][i]
            \/ \E m \in 1..n : i \in DOMAIN p[m].rows[t] /\ k.rows[t][i] = p[m].rows[t][i]

LEMMA RedoStatesAre ==
  ASSUME NEW l \in Logs, NEW p \in Seq(Recs)
  PROVE  /\ DOMAIN RedoStates(l, p) = 0..Len(p)
         /\ \A n \in 0..Len(p) : RedoUpto(l, p, n, RedoStates(l, p)[n])
<1> DEFINE N == Len(p)
           g == RedoStates(l, p)
           Upto(n) == RedoUpto(l, p, n, g[n])
           Good == {n \in 0..N : Upto(n)}
<1>1. N \in Nat /\ DOMAIN p = 1..N /\ \A n \in 1..N : p[n] \in Recs
  OBVIOUS
<1>2. g[0] = l /\ \A n \in 1..N : g[n] = Redone(g[n - 1], p[n])
  BY RedoStateSteps
<1> HIDE DEF g, N
<1>3. 0 \in Good
  BY <1>1, <1>2 DEF RedoUpto
<1>4. ASSUME NEW n \in 0..(N - 1), n \in Good PROVE n + 1 \in Good
  <2>1. n + 1 \in 1..N /\ (n + 1) - 1 = n /\ n + 1 \in 0..N /\ n \in Nat
    BY <1>1
  <2> DEFINE a == g[n]  r == p[n + 1]  b == g[n + 1]
  <2>2. b = Redone(a, r) /\ r \in Recs /\ a \in Logs
    BY <1>1, <1>2, <1>4, <2>1 DEF RedoUpto
  <2> HIDE DEF a, r, b
  <2>3. /\ b \in Logs /\ b.tables = a.tables \cup r.tables
        /\ b.indexes \subseteq a.indexes \cup r.indexes
        /\ \A t \in Tables :
             /\ DOMAIN b.rows[t] = DOMAIN a.rows[t] \cup DOMAIN r.rows[t]
             /\ \A i \in DOMAIN b.rows[t] :
                  b.rows[t][i] = IF i \in DOMAIN r.rows[t] THEN r.rows[t][i] ELSE a.rows[t][i]
    BY <2>2, RedoneIs
  <2>4. \A m \in 1..(n + 1) : m \in 1..n \/ m = n + 1
    BY <2>1
  <2>5. 1..n \subseteq 1..(n + 1) /\ n + 1 \in 1..(n + 1)
    BY <2>1
  <2>6. Upto(n)
    BY <1>4
  <2>7. /\ l.tables \subseteq b.tables
        /\ \A m \in 1..(n + 1) : p[m].tables \subseteq b.tables
        /\ \A u \in b.indexes : u \in l.indexes \/ \E m \in 1..(n + 1) : u \in p[m].indexes
    BY <2>3, <2>4, <2>5, <2>6 DEF a, r, RedoUpto
  <2>8. ASSUME NEW t \in Tables
        PROVE  /\ DOMAIN l.rows[t] \subseteq DOMAIN b.rows[t]
               /\ \A m \in 1..(n + 1) : DOMAIN p[m].rows[t] \subseteq DOMAIN b.rows[t]
               /\ \A i \in DOMAIN b.rows[t] :
                    \/ i \in DOMAIN l.rows[t] /\ b.rows[t][i] = l.rows[t][i]
                    \/ \E m \in 1..(n + 1) : i \in DOMAIN p[m].rows[t] /\ b.rows[t][i] = p[m].rows[t][i]
    <3>1. /\ DOMAIN b.rows[t] = DOMAIN a.rows[t] \cup DOMAIN r.rows[t]
          /\ \A i \in DOMAIN b.rows[t] :
               b.rows[t][i] = IF i \in DOMAIN r.rows[t] THEN r.rows[t][i] ELSE a.rows[t][i]
      BY <2>3
    <3>2. /\ DOMAIN l.rows[t] \subseteq DOMAIN a.rows[t]
          /\ \A m \in 1..n : DOMAIN p[m].rows[t] \subseteq DOMAIN a.rows[t]
          /\ \A i \in DOMAIN a.rows[t] :
               \/ i \in DOMAIN l.rows[t] /\ a.rows[t][i] = l.rows[t][i]
               \/ \E m \in 1..n : i \in DOMAIN p[m].rows[t] /\ a.rows[t][i] = p[m].rows[t][i]
      BY <2>6 DEF a, RedoUpto
    <3>3. r = p[n + 1]
      BY DEF r
    <3>4. \A m \in 1..(n + 1) : DOMAIN p[m].rows[t] \subseteq DOMAIN b.rows[t]
      BY <2>4, <3>1, <3>2, <3>3
    <3>5. ASSUME NEW i \in DOMAIN b.rows[t]
          PROVE  \/ i \in DOMAIN l.rows[t] /\ b.rows[t][i] = l.rows[t][i]
                 \/ \E m \in 1..(n + 1) : i \in DOMAIN p[m].rows[t] /\ b.rows[t][i] = p[m].rows[t][i]
      <4>1. CASE i \in DOMAIN r.rows[t]
        BY <2>5, <3>1, <3>3, <4>1
      <4>2. CASE i \notin DOMAIN r.rows[t]
        BY <2>5, <3>1, <3>2, <4>2
      <4> QED  BY <4>1, <4>2
    <3> QED  BY <3>1, <3>2, <3>4, <3>5
  <2>9. Upto(n + 1)
    BY <2>3, <2>7, <2>8 DEF b, RedoUpto
  <2> QED  BY <2>1, <2>9
<1>5. \A n \in 0..N : n \in Good
  <2> HIDE DEF Good
  <2> QED  BY <1>1, <1>3, <1>4, InductionTo
<1>6. DOMAIN g = 0..N
  BY RedoStateSteps DEF g, N
<1> QED  BY <1>5, <1>6 DEF g, N

LEMMA RedoIs ==
  ASSUME NEW l \in Logs, NEW p \in Seq(Recs)
  PROVE  RedoOf(l, p, Redo(l, p))
<1>1. Len(p) \in Nat /\ DOMAIN p = 1..Len(p) /\ Len(p) \in 0..Len(p)
  OBVIOUS
<1>2. RedoUpto(l, p, Len(p), Redo(l, p))
  BY <1>1, RedoStatesAre DEF Redo
<1> QED  BY <1>1, <1>2 DEF RedoOf, RedoUpto, Adds

\* c has the elements of a and those of b.
JoinOf(a, b, c) ==
  /\ \A n \in DOMAIN c : (\E m \in DOMAIN a : c[n] = a[m]) \/ (\E m \in DOMAIN b : c[n] = b[m])
  /\ \A m \in DOMAIN a : \E n \in DOMAIN c : c[n] = a[m]
  /\ \A m \in DOMAIN b : \E n \in DOMAIN c : c[n] = b[m]

LEMMA ConcatIs ==
  ASSUME NEW S, NEW a \in Seq(S), NEW b \in Seq(S)
  PROVE  a \o b \in Seq(S) /\ JoinOf(a, b, a \o b)
<1> DEFINE c == a \o b
<1>1. /\ Len(a) \in Nat /\ Len(b) \in Nat /\ c \in Seq(S) /\ Len(c) = Len(a) + Len(b)
      /\ DOMAIN a = 1..Len(a) /\ DOMAIN b = 1..Len(b) /\ DOMAIN c = 1..Len(c)
      /\ \A n \in 1..Len(c) : c[n] = IF n <= Len(a) THEN a[n] ELSE b[n - Len(a)]
  OBVIOUS
<1> HIDE DEF c
<1>2. \A m \in 1..Len(b) : m + Len(a) \in 1..Len(c) /\ c[m + Len(a)] = b[m]
  <2> TAKE m \in 1..Len(b)
  <2>1. m + Len(a) \in 1..Len(c) /\ ~ (m + Len(a) <= Len(a)) /\ (m + Len(a)) - Len(a) = m
    BY <1>1
  <2> QED  BY <1>1, <2>1
<1>3. \A m \in 1..Len(a) : m \in 1..Len(c) /\ c[m] = a[m]
  BY <1>1
<1>4. \A n \in 1..Len(c) : n \in 1..Len(a) \/ (n - Len(a) \in 1..Len(b) /\ c[n] = b[n - Len(a)])
  BY <1>1
<1>5. \A n \in DOMAIN c : (\E m \in DOMAIN a : c[n] = a[m]) \/ (\E m \in DOMAIN b : c[n] = b[m])
  BY <1>1, <1>3, <1>4
<1> QED  BY <1>1, <1>2, <1>3, <1>5 DEF c, JoinOf

----------------------------------------------------------------------------
(* The log and what the engine shows.                                      *)

\* The log has the row, or a group that waits to be written again.
Held(t, i, r) ==
  \/ i \in DOMAIN log.rows[t] /\ r = log.rows[t][i]
  \/ Adds(pending, t, i, r)

LogShape == live \in Shown /\ log \in Logs /\ pending \in Seq(Recs)

\* What is shown is logged, whatever the catalogue and rows of the log and of the
\* waiting groups refer to exists, and no row id stands for two rows.
LogInv ==
  /\ LogShape
  /\ live.tables \subseteq log.tables /\ log.indexes \subseteq log.tables
  /\ \A n \in DOMAIN pending : pending[n].indexes \subseteq log.tables
  /\ \A t \in Tables : \A i, r : Held(t, i, r) => t \in log.tables /\ r.id = i + 1
  /\ \A t \in Tables : \A i, q, r : Held(t, i, q) /\ Held(t, i, r) => q = r
  /\ \A t \in Tables : \A i \in DOMAIN live.rows[t] :
       i \in DOMAIN log.rows[t] /\ live.rows[t][i] = log.rows[t][i]

\* Records that may be appended: at most one, about tables that are shown, with
\* row ids that are not taken.
NewRecs(recs) ==
  /\ recs \in Seq(Recs) /\ Len(recs) <= 1
  /\ \A n \in DOMAIN recs :
       /\ recs[n].indexes \subseteq live.tables
       /\ \A t \in Tables : \A i \in DOMAIN recs[n].rows[t] :
            /\ t \in live.tables
            /\ recs[n].rows[t][i].id = i + 1
            /\ \A r : ~ Held(t, i, r)

Faults == {"none", "write", "sync"}

\* What a group does to the log, whether it fails or not.
LEMMA GroupIs ==
  ASSUME LogShape, NEW recs \in Seq(Recs), NEW fault \in Faults, Group(recs, fault)
  PROVE  /\ log' \in Logs /\ pending' \in Seq(Recs)
         /\ log.tables \subseteq log'.tables
         /\ fault # "write" => \A n \in DOMAIN recs : recs[n].tables \subseteq log'.tables
         /\ \A u \in log'.indexes : \/ u \in log.indexes
                                    \/ \E n \in DOMAIN pending : u \in pending[n].indexes
                                    \/ \E n \in DOMAIN recs : u \in recs[n].indexes
         /\ \A n \in DOMAIN pending' : \/ \E m \in DOMAIN pending : pending'[n] = pending[m]
                                       \/ \E m \in DOMAIN recs : pending'[n] = recs[m]
         /\ \A t \in Tables :
              /\ DOMAIN log.rows[t] \subseteq DOMAIN log'.rows[t]
              /\ fault # "write" =>
                   \A n \in DOMAIN recs : DOMAIN recs[n].rows[t] \subseteq DOMAIN log'.rows[t]
              /\ \A i, r : Held(t, i, r)' => Held(t, i, r) \/ Adds(recs, t, i, r)
<1> DEFINE p == pending \o recs
<1>1. /\ p \in Seq(Recs)
      /\ \A n \in DOMAIN p : (\E m \in DOMAIN pending : p[n] = pending[m])
                             \/ (\E m \in DOMAIN recs : p[n] = recs[m])
      /\ \A m \in DOMAIN recs : \E n \in DOMAIN p : p[n] = recs[m]
  <2>1. pending \in Seq(Recs) /\ recs \in Seq(Recs)
    BY DEF LogShape
  <2>2. p \in Seq(Recs) /\ JoinOf(pending, recs, p)
    BY <2>1, ConcatIs
  <2> QED  BY <2>2 DEF JoinOf
<1>2. /\ log' = IF fault = "write" THEN log ELSE Redo(log, p)
      /\ pending' = IF fault = "none" THEN << >> ELSE p
  BY DEF Group
<1> HIDE DEF p
<1>3. RedoOf(log, p, Redo(log, p))
  BY <1>1, RedoIs DEF LogShape
<1>4. \A t \in Tables : \A i, r : Adds(p, t, i, r) => Adds(pending, t, i, r) \/ Adds(recs, t, i, r)
  BY <1>1 DEF Adds
<1>5. /\ pending' \in Seq(Recs)
      /\ \A n \in DOMAIN pending' : \/ \E m \in DOMAIN pending : pending'[n] = pending[m]
                                    \/ \E m \in DOMAIN recs : pending'[n] = recs[m]
      /\ \A t \in Tables : \A i, r : Adds(pending', t, i, r) => Adds(p, t, i, r)
  BY <1>1, <1>2 DEF Adds
<1>6. CASE fault = "write"
  <2>1. log' = log
    BY <1>2, <1>6
  <2>2. \A t \in Tables : \A i, r : Held(t, i, r)' => Held(t, i, r) \/ Adds(recs, t, i, r)
    BY <1>4, <1>5, <2>1 DEF Held
  <2> QED  BY <1>5, <1>6, <2>1, <2>2 DEF LogShape
<1>7. CASE fault # "write"
  <2>1. log' = Redo(log, p)
    BY <1>2, <1>7
  <2>2. RedoOf(log, p, log')
    BY <1>3, <2>1
  <2>3. \A t \in Tables : \A i, r : Held(t, i, r)' => Held(t, i, r) \/ Adds(recs, t, i, r)
    BY <1>4, <1>5, <2>2 DEF Held, RedoOf
  <2>4. /\ log' \in Logs /\ log.tables \subseteq log'.tables
        /\ \A n \in DOMAIN recs : recs[n].tables \subseteq log'.tables
        /\ \A t \in Tables :
             /\ DOMAIN log.rows[t] \subseteq DOMAIN log'.rows[t]
             /\ \A n \in DOMAIN recs : DOMAIN recs[n].rows[t] \subseteq DOMAIN log'.rows[t]
    BY <1>1, <2>2 DEF RedoOf
  <2>5. \A u \in log'.indexes : \/ u \in log.indexes
                                \/ \E n \in DOMAIN pending : u \in pending[n].indexes
                                \/ \E n \in DOMAIN recs : u \in recs[n].indexes
    BY <1>1, <2>2 DEF RedoOf
  <2> QED  BY <1>5, <2>3, <2>4, <2>5
<1> QED  BY <1>6, <1>7

\* A group of new records keeps the log and what is shown in agreement: a group
\* that failed is not shown, one that did not is, and repeating those that
\* failed before changes nothing that is shown.
LEMMA GroupStep ==
  ASSUME LogInv, NEW recs, NewRecs(recs), NEW fault \in Faults, Group(recs, fault),
         live' \in Shown,
         \A x \in live'.tables :
            x \in live.tables \/ (fault = "none" /\ \E n \in DOMAIN recs : x \in recs[n].tables),
         \A t \in Tables : \A i \in DOMAIN live'.rows[t] :
            \/ i \in DOMAIN live.rows[t] /\ live'.rows[t][i] = live.rows[t][i]
            \/ fault = "none" /\ Adds(recs, t, i, live'.rows[t][i])
  PROVE  LogInv'
<1>0. recs \in Seq(Recs) /\ LogShape
  BY DEF NewRecs, LogInv
<1>1. LogShape'
  BY <1>0, GroupIs DEF LogShape
<1>2. /\ log.tables \subseteq log'.tables
      /\ fault # "write" => \A n \in DOMAIN recs : recs[n].tables \subseteq log'.tables
      /\ \A u \in log'.indexes : \/ u \in log.indexes
                                 \/ \E n \in DOMAIN pending : u \in pending[n].indexes
                                 \/ \E n \in DOMAIN recs : u \in recs[n].indexes
      /\ \A n \in DOMAIN pending' : \/ \E m \in DOMAIN pending : pending'[n] = pending[m]
                                    \/ \E m \in DOMAIN recs : pending'[n] = recs[m]
  BY <1>0, GroupIs
<1>3. \A t \in Tables :
        /\ DOMAIN log.rows[t] \subseteq DOMAIN log'.rows[t]
        /\ fault # "write" =>
             \A n \in DOMAIN recs : DOMAIN recs[n].rows[t] \subseteq DOMAIN log'.rows[t]
        /\ \A i, r : Held(t, i, r)' => Held(t, i, r) \/ Adds(recs, t, i, r)
  BY <1>0, GroupIs
<1>4. live'.tables \subseteq log'.tables /\ log'.indexes \subseteq log'.tables
      /\ \A n \in DOMAIN pending' : pending'[n].indexes \subseteq log'.tables
  BY <1>2 DEF LogInv, NewRecs
<1>5. \A t \in Tables : \A i, r : Adds(recs, t, i, r) =>
         t \in live.tables /\ r.id = i + 1 /\ \A q : ~ Held(t, i, q)
  BY DEF Adds, NewRecs
<1>6. \A t \in Tables : \A i, q, r : Adds(recs, t, i, q) /\ Adds(recs, t, i, r) => q = r
  <2>1. \A n, m \in DOMAIN recs : n = m
    BY DEF NewRecs
  <2> QED  BY <2>1 DEF Adds
<1>7. \A t \in Tables : \A i, r : Held(t, i, r)' => t \in log'.tables /\ r.id = i + 1
  BY <1>2, <1>3, <1>5 DEF LogInv
<1>8. \A t \in Tables : \A i, q, r : Held(t, i, q)' /\ Held(t, i, r)' => q = r
  BY <1>3, <1>5, <1>6 DEF LogInv
<1>9. ASSUME NEW t \in Tables, NEW i \in DOMAIN live'.rows[t]
      PROVE  i \in DOMAIN log'.rows[t] /\ live'.rows[t][i] = log'.rows[t][i]
  <2>0. PICK v, w : v = live'.rows[t][i] /\ w = log'.rows[t][i]
    OBVIOUS
  <2>1. /\ i \in DOMAIN log'.rows[t]
        /\ Held(t, i, v) \/ Adds(recs, t, i, v)
    BY <1>3, <2>0 DEF LogInv, Held, Adds
  <2>2. Held(t, i, w)'
    BY <2>0, <2>1 DEF Held
  <2>3. Held(t, i, w) \/ Adds(recs, t, i, w)
    BY <1>3, <2>2
  <2>4. v = w
    BY <1>5, <1>6, <2>1, <2>3 DEF LogInv
  <2> QED  BY <2>0, <2>1, <2>4
<1> QED  BY <1>1, <1>4, <1>7, <1>8, <1>9 DEF LogInv

\* l has what the engine shows; has nothing that the log has not; has the table of
\* every index and row in it.
Shows(l) ==
  /\ live.tables \subseteq l.tables
  /\ \A t \in Tables : \A i \in DOMAIN live.rows[t] :
       i \in DOMAIN l.rows[t] /\ l.rows[t][i] = live.rows[t][i]
RowsIn(l, k) ==
  \A t \in Tables : \A i \in DOMAIN l.rows[t] : i \in DOMAIN k.rows[t] /\ l.rows[t][i] = k.rows[t][i]
Whole(l) ==
  /\ l.indexes \subseteq l.tables
  /\ \A t \in Tables : \A i \in DOMAIN l.rows[t] : t \in l.tables

\* What a power failure may leave is a part of the log, and the engine shows more
\* only if it opened an unsynced log.
TailsInv ==
  /\ unproven \in BOOLEAN /\ tails \subseteq Logs
  /\ \A l \in tails : RowsIn(l, log) /\ Whole(l)
  /\ ~ unproven => \A l \in tails : Shows(l)

\* The states that the file goes through while a group is written.
LEMMA StatesAre ==
  ASSUME LogInv, NEW recs, NewRecs(recs), NEW k \in Range(RedoStates(log, pending \o recs))
  PROVE  /\ k \in Logs /\ Whole(k) /\ Shows(k)
         /\ RowsIn(k, Redo(log, pending \o recs)) /\ RowsIn(log, Redo(log, pending \o recs))
<1> DEFINE p == pending \o recs
           all == Redo(log, p)
<1>1. /\ p \in Seq(Recs) /\ log \in Logs
      /\ \A n \in DOMAIN p : (\E m \in DOMAIN pending : p[n] = pending[m])
                             \/ (\E m \in DOMAIN recs : p[n] = recs[m])
  <2>1. pending \in Seq(Recs) /\ recs \in Seq(Recs) /\ log \in Logs
    BY DEF LogInv, LogShape, NewRecs
  <2>2. p \in Seq(Recs) /\ JoinOf(pending, recs, p)
    BY <2>1, ConcatIs
  <2> QED  BY <2>1, <2>2 DEF JoinOf
<1> HIDE DEF p
<1>2. PICK n \in 0..Len(p) : k = RedoStates(log, p)[n]
  BY <1>1, RedoStatesAre DEF Range, p
<1>3. RedoUpto(log, p, n, k) /\ 1..n \subseteq DOMAIN p
  BY <1>1, <1>2, RedoStatesAre
<1>4. RedoOf(log, p, all)
  BY <1>1, RedoIs
<1> HIDE DEF all
\* Whoever has a row under an id has the same.
<1>5. /\ \A t \in Tables : \A i, r : Adds(p, t, i, r) => Held(t, i, r) \/ Adds(recs, t, i, r)
      /\ \A m \in DOMAIN p : p[m].indexes \subseteq log.tables
  BY <1>1 DEF Adds, Held, LogInv, NewRecs
<1>6. \A t \in Tables : \A i, r : Adds(recs, t, i, r) => t \in live.tables /\ \A q : ~ Held(t, i, q)
  BY DEF Adds, NewRecs
<1>7. \A t \in Tables : \A i, q, r : Adds(recs, t, i, q) /\ Adds(recs, t, i, r) => q = r
  <2>1. \A a, b \in DOMAIN recs : a = b
    BY DEF NewRecs
  <2> QED  BY <2>1 DEF Adds
<1>8. ASSUME NEW t \in Tables, NEW i, NEW q, NEW r,
             Held(t, i, q) \/ Adds(recs, t, i, q), Held(t, i, r) \/ Adds(recs, t, i, r)
      PROVE  q = r
  <2>1. Held(t, i, q) /\ Held(t, i, r) => q = r
    BY DEF LogInv
  <2> QED  BY <1>6, <1>7, <1>8, <2>1
<1>9. ASSUME NEW t \in Tables, NEW i, NEW r
      PROVE  /\ i \in DOMAIN k.rows[t] /\ r = k.rows[t][i] => Held(t, i, r) \/ Adds(recs, t, i, r)
             /\ i \in DOMAIN all.rows[t] /\ r = all.rows[t][i] => Held(t, i, r) \/ Adds(recs, t, i, r)
             /\ i \in DOMAIN log.rows[t] /\ r = log.rows[t][i] => Held(t, i, r)
  <2>1. i \in DOMAIN log.rows[t] /\ r = log.rows[t][i] => Held(t, i, r)
    BY DEF Held
  <2>2. (\E m \in 1..n : i \in DOMAIN p[m].rows[t] /\ r = p[m].rows[t][i]) => Adds(p, t, i, r)
    BY <1>3 DEF Adds
  <2> QED  BY <1>3, <1>4, <1>5, <2>1, <2>2 DEF RedoUpto, RedoOf
<1>10. \A t \in Tables : DOMAIN k.rows[t] \subseteq DOMAIN all.rows[t]
  BY <1>3, <1>4 DEF RedoUpto, RedoOf
<1>11. RowsIn(k, all) /\ RowsIn(log, all)
  <2>1. \A t \in Tables : DOMAIN log.rows[t] \subseteq DOMAIN all.rows[t]
    BY <1>4 DEF RedoOf
  <2>2. ASSUME NEW t \in Tables, NEW l \in {k, log}, NEW i \in DOMAIN l.rows[t]
        PROVE  i \in DOMAIN all.rows[t] /\ l.rows[t][i] = all.rows[t][i]
    <3>1. i \in DOMAIN all.rows[t]
      BY <1>10, <2>1, <2>2
    <3>2. PICK v, w : v = l.rows[t][i] /\ w = all.rows[t][i]
      OBVIOUS
    <3>3. Held(t, i, w) \/ Adds(recs, t, i, w)
      BY <1>9, <3>1, <3>2
    <3>4. ASSUME l = k PROVE Held(t, i, v) \/ Adds(recs, t, i, v)
      <4>1. i \in DOMAIN k.rows[t] /\ v = k.rows[t][i]
        BY <2>2, <3>2, <3>4
      <4> QED  BY <1>9, <4>1
    <3>5. ASSUME l = log PROVE Held(t, i, v) \/ Adds(recs, t, i, v)
      <4>1. i \in DOMAIN log.rows[t] /\ v = log.rows[t][i]
        BY <2>2, <3>2, <3>5
      <4> QED  BY <1>9, <4>1
    <3>6. Held(t, i, v) \/ Adds(recs, t, i, v)
      BY <3>4, <3>5
    <3>7. v = w
      BY <1>8, <3>3, <3>6
    <3> QED  BY <3>1, <3>2, <3>7
  <2> QED  BY <2>2 DEF RowsIn
<1>12. k \in Logs /\ log.tables \subseteq k.tables
  BY <1>3 DEF RedoUpto
<1>13. Whole(k)
  <2>1. \A u \in k.indexes : u \in log.tables
    BY <1>3, <1>5 DEF RedoUpto, LogInv
  <2>2. ASSUME NEW t \in Tables, NEW i \in DOMAIN k.rows[t] PROVE t \in log.tables
    <3>1. PICK r : r = k.rows[t][i]
      OBVIOUS
    <3>2. Held(t, i, r) \/ Adds(recs, t, i, r)
      BY <1>9, <3>1
    <3>3. Held(t, i, r) => t \in log.tables
      BY DEF LogInv
    <3>4. Adds(recs, t, i, r) => t \in log.tables
      BY <1>6 DEF LogInv
    <3> QED  BY <3>2, <3>3, <3>4
  <2> QED  BY <1>12, <2>1, <2>2 DEF Whole
<1>14. Shows(k)
  <2> SUFFICES ASSUME NEW t \in Tables, NEW i \in DOMAIN live.rows[t]
               PROVE  i \in DOMAIN k.rows[t] /\ k.rows[t][i] = live.rows[t][i]
    BY <1>12 DEF Shows, LogInv
  <2>1. i \in DOMAIN log.rows[t] /\ live.rows[t][i] = log.rows[t][i]
    BY DEF LogInv
  <2>2. i \in DOMAIN k.rows[t]
    BY <1>3, <2>1 DEF RedoUpto
  <2>3. PICK v, w : v = k.rows[t][i] /\ w = log.rows[t][i]
    OBVIOUS
  <2>4. (Held(t, i, v) \/ Adds(recs, t, i, v)) /\ Held(t, i, w)
    BY <1>9, <2>1, <2>2, <2>3
  <2> QED  BY <1>8, <2>1, <2>2, <2>3, <2>4
<1> QED  BY <1>11, <1>12, <1>13, <1>14 DEF all, p

----------------------------------------------------------------------------
(* Batches of rows, and row ids.                                           *)

Entries == [table : Tables, rid : Nat, row : Rows]

SameKey(x, y) == x.table = y.table /\ x.rid = y.rid

Distinct(b) == \A n, m \in DOMAIN b : SameKey(b[n], b[m]) => n = m

\* A row that may be committed: of a table that is shown, under a row id that is
\* not taken.
Free(x) ==
  /\ x.table \in live.tables /\ x.row.id = x.rid + 1
  /\ \A r : ~ Held(x.table, x.rid, r)

NewBatch(b) == b \in Seq(Entries) /\ Distinct(b) /\ \A n \in DOMAIN b : Free(b[n])

\* The batch has a row of table t with id i.
Keys(b, t, i) == \E n \in DOMAIN b : b[n].table = t /\ b[n].rid = i

\* The rows of a batch by row id.
LEMMA ByIdIs ==
  ASSUME NEW b \in Seq(Entries), Distinct(b), NEW t \in Tables
  PROVE  /\ ById(b, t) \in Tabs
         /\ \A i : i \in DOMAIN ById(b, t) <=> Keys(b, t, i)
         /\ \A n \in DOMAIN b : b[n].table = t => ById(b, t)[b[n].rid] = b[n].row
<1> DEFINE f == ById(b, t)
           D == {b[n].rid : n \in Places(b, t)}
           At(i) == CHOOSE n \in Places(b, t) : b[n].rid = i
<1>1. f = [i \in D |-> b[At(i)].row]
  BY DEF ById
<1>2. \A n \in DOMAIN b : b[n] \in Entries
  OBVIOUS
<1>3. \A n \in Places(b, t) : n \in DOMAIN b /\ b[n].table = t /\ b[n].rid \in Nat /\ b[n].row \in Rows
  BY <1>2 DEF Places, Entries
<1>4. \A i \in D : At(i) \in Places(b, t) /\ b[At(i)].rid = i
  OBVIOUS
<1>5. D \in SUBSET Nat /\ DOMAIN f = D
  BY <1>1, <1>3
<1>6. f \in [D -> Rows]
  BY <1>1, <1>3, <1>4
<1>7. \A i : i \in D <=> Keys(b, t, i)
  BY DEF Keys, Places
<1>8. ASSUME NEW n \in DOMAIN b, b[n].table = t PROVE f[b[n].rid] = b[n].row
  <2>1. n \in Places(b, t) /\ b[n].rid \in D
    BY <1>8 DEF Places
  <2>2. /\ At(b[n].rid) \in DOMAIN b /\ b[At(b[n].rid)].table = t
        /\ b[At(b[n].rid)].rid = b[n].rid
    BY <1>3, <1>4, <2>1
  <2>3. At(b[n].rid) = n
    BY <1>8, <2>2 DEF Distinct, SameKey
  <2> HIDE DEF At, D
  <2> QED  BY <1>1, <2>1, <2>3
<1>9. f \in Tabs
  BY <1>5, <1>6, TabIs
<1> QED  BY <1>5, <1>7, <1>8, <1>9

\* The records of a batch.
LEMMA BatchRecs ==
  ASSUME LogInv, NEW b, NewBatch(b)
  PROVE  /\ NewRecs(LogGroup(b))
         /\ \A n \in DOMAIN LogGroup(b) : LogGroup(b)[n].tables = {}
         /\ \A t \in Tables : \A i, r :
              Adds(LogGroup(b), t, i, r) <=> i \in DOMAIN ById(b, t) /\ r = ById(b, t)[i]
<1> DEFINE rows == [t \in Tables |-> ById(b, t)]
           rec == RowsRec(rows)
<1>1. b \in Seq(Entries) /\ Distinct(b) /\ \A n \in DOMAIN b : Free(b[n])
  BY DEF NewBatch
<1>2. rows \in [Tables -> Tabs]
  BY <1>1, ByIdIs
<1>3. \A t \in Tables : rows[t] = ById(b, t)
  OBVIOUS
<1> HIDE DEF rows
<1>4. rec.tables = {} /\ rec.indexes = {} /\ rec.rows = rows /\ rec \in Recs
  BY <1>2 DEF RowsRec, Recs
<1>5. LogGroup(b) = <<rec>>
  BY DEF LogGroup, rows
<1> HIDE DEF rec
<1>6. /\ LogGroup(b) \in Seq(Recs) /\ Len(LogGroup(b)) = 1 /\ DOMAIN LogGroup(b) = {1}
      /\ LogGroup(b)[1] = rec
  BY <1>4, <1>5
<1>7. ASSUME NEW t \in Tables, NEW i \in DOMAIN rows[t]
      PROVE  t \in live.tables /\ rows[t][i].id = i + 1 /\ \A r : ~ Held(t, i, r)
  <2>1. i \in DOMAIN ById(b, t) /\ rows[t][i] = ById(b, t)[i]
    BY <1>3, <1>7
  <2>2. Keys(b, t, i)
    BY <1>1, <2>1, ByIdIs
  <2>3. PICK n \in DOMAIN b : b[n].table = t /\ b[n].rid = i
    BY <2>2 DEF Keys
  <2>4. ById(b, t)[i] = b[n].row
    BY <1>1, <2>3, ByIdIs
  <2> QED  BY <1>1, <2>1, <2>3, <2>4 DEF Free
<1>8. NewRecs(LogGroup(b))
  BY <1>4, <1>6, <1>7 DEF NewRecs
<1>9. \A t \in Tables : \A i, r :
        Adds(LogGroup(b), t, i, r) <=> i \in DOMAIN ById(b, t) /\ r = ById(b, t)[i]
  BY <1>3, <1>4, <1>6 DEF Adds
<1> QED  BY <1>4, <1>6, <1>8, <1>9

\* A commit, whether it fails or not.
LEMMA CommitStep ==
  ASSUME LogInv, NEW b, NewBatch(b),
         \/ \E stop \in Nat : FinishCommit(b, stop)
         \/ \E fault \in LogFaults : FinishFails(b, fault)
  PROVE  /\ LogInv'
         /\ live'.tables = live.tables
         /\ \A t \in Tables : \A i, r : Held(t, i, r)' => Held(t, i, r) \/ Keys(b, t, i)
<1>1. NewRecs(LogGroup(b)) /\ LogGroup(b) \in Seq(Recs) /\ LogShape
  BY BatchRecs DEF NewRecs, LogInv
<1>2. \A t \in Tables : \A i, r :
        Adds(LogGroup(b), t, i, r) <=> i \in DOMAIN ById(b, t) /\ r = ById(b, t)[i]
  BY BatchRecs
<1>3. b \in Seq(Entries) /\ Distinct(b)
  BY DEF NewBatch
<1>4. \A t \in Tables : \A i, r : Adds(LogGroup(b), t, i, r) => Keys(b, t, i)
  BY <1>2, <1>3, ByIdIs
<1>5. ASSUME NEW stop \in Nat, FinishCommit(b, stop)
      PROVE  LogInv' /\ live'.tables = live.tables
             /\ \A t \in Tables : \A i, r : Held(t, i, r)' => Held(t, i, r) \/ Keys(b, t, i)
  <2>1. Group(LogGroup(b), "none") /\ "none" \in Faults
    BY <1>5 DEF FinishCommit, Faults
  <2>2. /\ live' = [live EXCEPT !.rows = [t \in Tables |-> Over(ById(b, t), @[t])]]
        /\ live \in Shown
    BY <1>1, <1>5 DEF FinishCommit, LogShape
  <2>3. /\ live.tables \in SUBSET Tables /\ live.rows \in [Tables -> Tabs]
        /\ live'.tables = live.tables
        /\ live'.rows = [t \in Tables |-> Over(ById(b, t), live.rows[t])]
        /\ live' = [tables |-> live'.tables, rows |-> live'.rows]
    BY <2>2 DEF Shown
  <2>4. ASSUME NEW t \in Tables
        PROVE  /\ Over(ById(b, t), live.rows[t]) \in Tabs
               /\ \A i \in DOMAIN Over(ById(b, t), live.rows[t]) :
                    \/ i \in DOMAIN live.rows[t] /\ Over(ById(b, t), live.rows[t])[i] = live.rows[t][i]
                    \/ i \in DOMAIN ById(b, t) /\ Over(ById(b, t), live.rows[t])[i] = ById(b, t)[i]
    <3> DEFINE f == ById(b, t)  g == live.rows[t]  h == Over(f, g)
    <3>1. f \in Tabs /\ g \in Tabs
      BY <1>3, <2>3, ByIdIs
    <3> HIDE DEF f, g
    <3>2. /\ h \in Tabs /\ DOMAIN h = DOMAIN f \cup DOMAIN g
          /\ \A i \in DOMAIN f : h[i] = f[i]
          /\ \A i \in DOMAIN g \ DOMAIN f : h[i] = g[i]
      BY <3>1, TabsJoin
    <3> HIDE DEF h
    <3>3. \A i \in DOMAIN h : (i \in DOMAIN g /\ h[i] = g[i]) \/ (i \in DOMAIN f /\ h[i] = f[i])
      BY <3>2
    <3> QED  BY <3>2, <3>3 DEF f, g, h
  <2>5. live' \in Shown
    BY <2>3, <2>4 DEF Shown
  <2>6. ASSUME NEW t \in Tables, NEW i \in DOMAIN live'.rows[t]
        PROVE  \/ i \in DOMAIN live.rows[t] /\ live'.rows[t][i] = live.rows[t][i]
               \/ Adds(LogGroup(b), t, i, live'.rows[t][i])
    <3>1. live'.rows[t] = Over(ById(b, t), live.rows[t])
      BY <2>3
    <3> QED  BY <1>2, <2>4, <2>6, <3>1
  <2>7. LogInv'
    BY <1>1, <2>1, <2>3, <2>5, <2>6, GroupStep
  <2>8. \A t \in Tables : \A i, r : Held(t, i, r)' => Held(t, i, r) \/ Adds(LogGroup(b), t, i, r)
    BY <1>1, <2>1, GroupIs
  <2> QED  BY <1>4, <2>3, <2>7, <2>8
<1>6. ASSUME NEW fault \in LogFaults, FinishFails(b, fault)
      PROVE  LogInv' /\ live'.tables = live.tables
             /\ \A t \in Tables : \A i, r : Held(t, i, r)' => Held(t, i, r) \/ Keys(b, t, i)
  <2>1. Group(LogGroup(b), fault) /\ fault \in Faults /\ live' = live /\ live \in Shown
    BY <1>1, <1>6, LogFaultsAssumption DEF FinishFails, Faults, LogShape
  <2>2. LogInv'
    BY <1>1, <2>1, GroupStep
  <2>3. \A t \in Tables : \A i, r : Held(t, i, r)' => Held(t, i, r) \/ Adds(LogGroup(b), t, i, r)
    BY <1>1, <2>1, GroupIs
  <2> QED  BY <1>4, <2>1, <2>2, <2>3
<1> QED  BY <1>5, <1>6

----------------------------------------------------------------------------
(* Transactions.                                                           *)

Bufs == UNION {[D -> Seq(Entries)] : D \in SUBSET Sessions}

\* Row ids that are taken have been handed out, those of buffered rows as well,
\* and nobody else has those.
TxnInv ==
  /\ nextRid \in [Tables -> Nat] /\ txn \in Bufs
  /\ \A t \in Tables : \A i, r : Held(t, i, r) => i < nextRid[t]
  /\ \A s \in DOMAIN txn : \A n \in DOMAIN txn[s] :
       Free(txn[s][n]) /\ txn[s][n].rid < nextRid[txn[s][n].table]
  /\ \A s, u \in DOMAIN txn : \A n \in DOMAIN txn[s], m \in DOMAIN txn[u] :
       SameKey(txn[s][n], txn[u][m]) => s = u /\ n = m

LEMMA BufsIs ==
  ASSUME NEW f
  PROVE  /\ f \in Bufs => /\ DOMAIN f \subseteq Sessions /\ \A s \in DOMAIN f : f[s] \in Seq(Entries)
         /\ \A D \in SUBSET Sessions : f \in [D -> Seq(Entries)] => f \in Bufs
BY DEF Bufs

\* What is held has a row id and a table.
LEMMA HeldIsTyped ==
  ASSUME LogInv, NEW t \in Tables, NEW i, NEW r, Held(t, i, r)
  PROVE  i \in Nat /\ r \in Rows
<1>1. log.rows[t] \in Tabs /\ \A n \in DOMAIN pending : pending[n].rows[t] \in Tabs
  <2>1. log.rows \in [Tables -> Tabs]
    BY DEF LogInv, LogShape, Logs
  <2>2. \A n \in DOMAIN pending : pending[n] \in Recs
    BY DEF LogInv, LogShape
  <2> QED  BY <2>1, <2>2 DEF Recs
<1> QED  BY <1>1, TabIs DEF Held, Adds

\* The transactions that go on are not disturbed by a step that takes no row id
\* of theirs.
LEMMA TxnFrame ==
  ASSUME LogInv, TxnInv, nextRid' \in [Tables -> Nat],
         \A t \in Tables : nextRid[t] <= nextRid'[t],
         live.tables \subseteq live'.tables,
         txn' \in Bufs,
         \A s \in DOMAIN txn' : txn'[s] = << >> \/ (s \in DOMAIN txn /\ txn'[s] = txn[s]),
         \A t \in Tables : \A i, r : Held(t, i, r)' =>
            /\ Held(t, i, r) \/ i < nextRid'[t]
            /\ Held(t, i, r) \/ \A s \in DOMAIN txn' : ~ Keys(txn'[s], t, i)
  PROVE  TxnInv'
<1>1. \A s \in DOMAIN txn' : txn'[s] \in Seq(Entries)
  BY BufsIs
<1>2. \A s \in DOMAIN txn' : \A n \in DOMAIN txn'[s] :
        s \in DOMAIN txn /\ txn'[s] = txn[s] /\ n \in DOMAIN txn[s] /\ txn'[s][n] \in Entries
  BY <1>1
<1>3. \A t \in Tables : \A i, r : Held(t, i, r)' => i < nextRid'[t]
  <2> SUFFICES ASSUME NEW t \in Tables, NEW i, NEW r, Held(t, i, r)', Held(t, i, r)
               PROVE  i < nextRid'[t]
    OBVIOUS
  <2>1. i \in Nat /\ i < nextRid[t]
    BY HeldIsTyped DEF TxnInv
  <2>2. nextRid[t] \in Nat /\ nextRid'[t] \in Nat
    BY DEF TxnInv
  <2> QED  BY <2>1, <2>2
<1>4. ASSUME NEW s \in DOMAIN txn', NEW n \in DOMAIN txn'[s]
      PROVE  Free(txn[s][n])' /\ txn'[s][n].rid < nextRid'[txn'[s][n].table]
  <2>1. PICK x \in Entries : x = txn'[s][n]
    BY <1>2
  <2>2. x.table \in Tables /\ x.rid \in Nat
    BY DEF Entries
  <2>3. Free(x) /\ x.rid < nextRid[x.table]
    BY <1>2, <2>1 DEF TxnInv
  <2>4. Keys(txn'[s], x.table, x.rid)
    BY <2>1 DEF Keys
  <2>5. \A r : ~ Held(x.table, x.rid, r)'
    BY <2>2, <2>3, <2>4 DEF Free
  <2>6. nextRid[x.table] \in Nat /\ nextRid'[x.table] \in Nat /\ nextRid[x.table] <= nextRid'[x.table]
    BY <2>2 DEF TxnInv
  <2>7. x.table \in live'.tables /\ x.row.id = x.rid + 1 /\ x.rid < nextRid'[x.table]
    BY <2>2, <2>3, <2>6 DEF Free
  <2> QED  BY <2>1, <2>5, <2>7 DEF Free
<1>5. \A s, u \in DOMAIN txn' : \A n \in DOMAIN txn'[s], m \in DOMAIN txn'[u] :
        SameKey(txn'[s][n], txn'[u][m]) => s = u /\ n = m
  BY <1>2 DEF TxnInv
<1> QED  BY <1>3, <1>4, <1>5 DEF TxnInv

\* A step that appends nothing to the log or to the waiting group, and starts at
\* most an empty transaction.
LEMMA QuietStep ==
  ASSUME LogInv, TxnInv, UNCHANGED nextRid,
         live.tables \subseteq live'.tables,
         txn' \in Bufs,
         \A s \in DOMAIN txn' : txn'[s] = << >> \/ (s \in DOMAIN txn /\ txn'[s] = txn[s]),
         \A t \in Tables : \A i, r : Held(t, i, r)' => Held(t, i, r)
  PROVE  TxnInv'
<1>1. nextRid' \in [Tables -> Nat] /\ \A t \in Tables : nextRid[t] \in Nat /\ nextRid[t] <= nextRid'[t]
  BY DEF TxnInv
<1> QED  BY <1>1, TxnFrame

\* The rows that INSERT numbers.
LEMMA StatementIs ==
  ASSUME TxnInv, NEW t \in Tables, NEW vals \in Seq(RowValues)
  PROVE  /\ Statement(t, vals) \in Seq(Entries) /\ Len(Statement(t, vals)) = Len(vals)
         /\ \A n \in DOMAIN Statement(t, vals) :
              /\ Statement(t, vals)[n].table = t
              /\ nextRid[t] <= Statement(t, vals)[n].rid
              /\ Statement(t, vals)[n].rid < nextRid[t] + Len(vals)
              /\ Statement(t, vals)[n].row.id = Statement(t, vals)[n].rid + 1
         /\ Distinct(Statement(t, vals))
<1> DEFINE b == Statement(t, vals)
           base == nextRid[t]
           L == Len(vals)
<1>1. base \in Nat /\ L \in Nat /\ DOMAIN vals = 1..L /\ \A n \in 1..L : vals[n] \in RowValues
  BY DEF TxnInv
<1>2. b = [n \in 1..L |->
             [table |-> t, rid |-> base + n - 1,
              row |-> [id |-> base + n, int |-> vals[n].int, text |-> vals[n].text]]]
  BY <1>1 DEF Statement
<1> HIDE DEF b, base, L
<1>3. ASSUME NEW n \in 1..L
      PROVE  /\ b[n] \in Entries /\ b[n].table = t /\ b[n].rid = base + n - 1
             /\ b[n].row.id = base + n
  <2>1. vals[n].int \in Cells /\ vals[n].text \in Cells
    BY <1>1 DEF RowValues, Cells
  <2>2. base + n - 1 \in Nat /\ base + n \in Nat
    BY <1>1
  <2>3. [id |-> base + n, int |-> vals[n].int, text |-> vals[n].text] \in Rows
    BY <2>1, <2>2 DEF Rows
  <2> QED  BY <1>2, <2>2, <2>3 DEF Entries
<1>4. b \in Seq(Entries) /\ Len(b) = L /\ DOMAIN b = 1..L
  BY <1>1, <1>2, <1>3
<1>5. \A n \in 1..L : base <= b[n].rid /\ b[n].rid < base + L /\ b[n].row.id = b[n].rid + 1
  <2> TAKE n \in 1..L
  <2>1. b[n].rid = base + n - 1 /\ b[n].row.id = base + n
    BY <1>3
  <2> QED  BY <1>1, <2>1
<1>6. Distinct(b)
  <2> SUFFICES ASSUME NEW n \in 1..L, NEW m \in 1..L, b[n].rid = b[m].rid PROVE n = m
    BY <1>4 DEF Distinct, SameKey
  <2>1. b[n].rid = base + n - 1 /\ b[m].rid = base + m - 1
    BY <1>3
  <2>2. base \in Nat /\ L \in Nat
    BY <1>1
  <2>3. n \in Int /\ m \in Int /\ base \in Int
    BY <2>2
  <2>4. base + n - 1 = base + m - 1
    BY <2>1, Zenon
  <2> QED  BY <2>3, <2>4
<1> QED  BY <1>3, <1>4, <1>5, <1>6 DEF b, base, L

\* The row ids from next_row_id on are not taken.
LEMMA StatementIsNew ==
  ASSUME LogInv, TxnInv, NEW t \in live.tables, NEW vals \in Seq(RowValues)
  PROVE  NewBatch(Statement(t, vals))
<1>1. t \in Tables
  BY DEF LogInv, LogShape, Shown
<1> DEFINE b == Statement(t, vals)
<1>2. /\ b \in Seq(Entries) /\ Distinct(b)
      /\ \A n \in DOMAIN b : b[n].table = t /\ nextRid[t] <= b[n].rid /\ b[n].row.id = b[n].rid + 1
  BY <1>1, StatementIs
<1> HIDE DEF b
<1>3. ASSUME NEW n \in DOMAIN b PROVE Free(b[n])
  <2>0. b[n] \in Entries
    BY <1>2
  <2>1. b[n].rid \in Nat /\ nextRid[t] \in Nat
    BY <1>1, <2>0 DEF Entries, TxnInv
  <2>2. ~ (b[n].rid < nextRid[t])
    BY <1>2, <2>1
  <2> QED  BY <1>1, <1>2, <2>2 DEF Free, TxnInv
<1>4. NewBatch(b)
  BY <1>2, <1>3 DEF NewBatch
<1> QED  BY <1>4 DEF b

\* What a transaction buffers may be committed.
LEMMA BufferedIsNew ==
  ASSUME LogInv, TxnInv, NEW s \in DOMAIN txn
  PROVE  NewBatch(txn[s]) /\ s \in Sessions
<1>1. txn[s] \in Seq(Entries) /\ s \in Sessions
  BY BufsIs DEF TxnInv
<1> QED  BY <1>1 DEF TxnInv, NewBatch, Distinct

\* The row ids after the largest one.
LEMMA RowIdAfterIs ==
  ASSUME NEW rows \in Tabs, NEW N \in Nat, \A i \in DOMAIN rows : i < N
  PROVE  RowIdAfter(rows) \in Nat /\ \A i \in DOMAIN rows : i < RowIdAfter(rows)
<1>1. DOMAIN rows \subseteq Nat
  BY TabIs
<1>2. CASE rows = NoRows
  BY <1>2 DEF RowIdAfter, NoRows
<1>3. CASE rows # NoRows
  <2>1. DOMAIN rows # {}
    <3>1. rows = [i \in DOMAIN rows |-> rows[i]]
      BY TabIs
    <3> QED  BY <1>3, <3>1 DEF NoRows
  <2> DEFINE D == {N - i : i \in DOMAIN rows}
  <2>2. D \in SUBSET Nat /\ D # {}
    <3>1. \A i \in DOMAIN rows : N - i \in Nat
      BY <1>1
    <3> QED  BY <2>1, <3>1
  <2>3. PICK d \in D : \A y \in D : ~ (y < d)
    BY <2>2, LeastNumber
  <2>4. PICK i \in DOMAIN rows : d = N - i
    BY <2>3
  <2>5. \A j \in DOMAIN rows : j <= i
    <3> TAKE j \in DOMAIN rows
    <3>1. N - j \in D /\ i \in Nat /\ j \in Nat
      BY <1>1
    <3>2. ~ (N - j < N - i)
      BY <2>3, <2>4, <3>1
    <3> HIDE DEF D
    <3> QED  BY <3>1, <3>2
  <2> DEFINE top == CHOOSE k \in DOMAIN rows : \A j \in DOMAIN rows : j <= k
  <2>6. top \in DOMAIN rows /\ \A j \in DOMAIN rows : j <= top
    BY <2>5
  <2>7. RowIdAfter(rows) = 1 + top
    BY <1>3 DEF RowIdAfter
  <2> HIDE DEF top
  <2> QED  BY <1>1, <2>6, <2>7
<1> QED  BY <1>2, <1>3

----------------------------------------------------------------------------
(* The statements keep the log and what is shown in agreement.             *)

\* The records recs have no rows.
Rowless(recs) == \A t \in Tables : \A i, r : ~ Adds(recs, t, i, r)

\* What the records of DDL statements are.
LEMMA DdlRecs ==
  ASSUME LogInv, NEW t \in Tables, NEW recs
  PROVE  /\ recs = <<TableRec(t)>> =>
               /\ NewRecs(recs) /\ Rowless(recs)
               /\ 1 \in DOMAIN recs /\ t \in recs[1].tables
         /\ recs = <<IndexRec(t)>> /\ t \in live.tables => NewRecs(recs) /\ Rowless(recs)
         /\ recs = <<DropRec(t)>> => NewRecs(recs) /\ Rowless(recs)
<1>1. NoneAdded \in [Tables -> Tabs] /\ \A u \in Tables : DOMAIN NoneAdded[u] = {}
  <2>1. NoRows \in [{} -> Rows] /\ DOMAIN NoRows = {}
    BY DEF NoRows
  <2>2. NoRows \in Tabs
    BY <2>1, TabIs
  <2> QED  BY <2>1, <2>2 DEF NoneAdded
<1>2. ASSUME NEW rec, rec \in {TableRec(t), IndexRec(t), DropRec(t)},
             rec.indexes \subseteq live.tables, recs = <<rec>>
      PROVE  NewRecs(recs) /\ Rowless(recs)
  <2>1. rec \in Recs /\ rec.rows = NoneAdded
    BY <1>1, <1>2 DEF TableRec, IndexRec, DropRec, Recs
  <2>2. recs \in Seq(Recs) /\ DOMAIN recs = {1} /\ recs[1] = rec
    BY <1>2, <2>1
  <2>3. \A u \in Tables : DOMAIN rec.rows[u] = {}
    BY <1>1, <2>1
  <2>4. NewRecs(recs)
    BY <1>2, <2>2, <2>3 DEF NewRecs
  <2>5. Rowless(recs)
    BY <2>2, <2>3 DEF Adds, Rowless
  <2> QED  BY <2>4, <2>5
<1>3. CASE recs = <<TableRec(t)>>
  <2>1. PICK rec : rec = TableRec(t)
    OBVIOUS
  <2>2. rec.indexes = {} /\ rec.tables = {t}
    BY <2>1 DEF TableRec
  <2>3. recs = <<rec>>
    BY <1>3, <2>1
  <2>4. NewRecs(recs) /\ Rowless(recs)
    BY <1>2, <2>1, <2>2, <2>3
  <2>5. 1 \in DOMAIN recs /\ t \in recs[1].tables
    BY <2>2, <2>3
  <2>6. recs # <<DropRec(t)>> /\ recs # <<IndexRec(t)>>
    BY <1>3 DEF TableRec, DropRec, IndexRec
  <2> QED  BY <2>4, <2>5
<1>4. CASE recs = <<IndexRec(t)>> /\ t \in live.tables
  <2>1. PICK rec : rec = IndexRec(t)
    OBVIOUS
  <2>2. rec.indexes = {t}
    BY <2>1 DEF IndexRec
  <2>3. recs = <<rec>>
    BY <1>4, <2>1
  <2>4. NewRecs(recs) /\ Rowless(recs)
    BY <1>2, <1>4, <2>1, <2>2, <2>3
  <2>5. recs # <<TableRec(t)>>
    BY <1>4 DEF TableRec, IndexRec
  <2> QED  BY <2>4, <2>5
<1>5. CASE recs = <<DropRec(t)>>
  <2>1. PICK rec : rec = DropRec(t)
    OBVIOUS
  <2>2. rec.indexes = {}
    BY <2>1 DEF DropRec
  <2>3. recs = <<rec>>
    BY <1>5, <2>1
  <2>4. NewRecs(recs) /\ Rowless(recs)
    BY <1>2, <2>1, <2>2, <2>3
  <2>5. recs # <<TableRec(t)>>
    BY <1>5 DEF TableRec, DropRec
  <2> QED  BY <2>4, <2>5
<1> QED  BY <1>3, <1>4, <1>5

\* The catalogue grows by a table that the group made.
Grown(recs, fault) ==
  \/ UNCHANGED live
  \/ /\ fault = "none"
     /\ \E t \in Tables : /\ \E n \in DOMAIN recs : t \in recs[n].tables
                         /\ live' = [live EXCEPT !.tables = live.tables \cup {t}]

\* A DDL statement, or one that appends nothing.
LEMMA DdlStep ==
  ASSUME LogInv, NEW fault \in Faults, NEW recs,
         NewRecs(recs), Rowless(recs), Group(recs, fault), Grown(recs, fault)
  PROVE  /\ LogInv'
         /\ live.tables \subseteq live'.tables
         /\ \A u \in Tables : \A i, r : Held(u, i, r)' => Held(u, i, r)
<1>1. \A u \in Tables : \A i, r : ~ Adds(recs, u, i, r)
  BY DEF Rowless
<1>2. recs \in Seq(Recs) /\ LogShape /\ live \in Shown
  BY DEF NewRecs, LogInv, LogShape
<1>3. /\ live' \in Shown /\ live'.rows = live.rows /\ live.tables \subseteq live'.tables
      /\ \A x \in live'.tables :
           x \in live.tables \/ (fault = "none" /\ \E n \in DOMAIN recs : x \in recs[n].tables)
  <2>1. CASE UNCHANGED live
    BY <1>2, <2>1
  <2>2. ASSUME NEW t \in Tables, live' = [live EXCEPT !.tables = live.tables \cup {t}]
        PROVE  /\ live' \in Shown /\ live'.rows = live.rows
               /\ live'.tables = live.tables \cup {t}
    BY <1>2, <2>2 DEF Shown
  <2> QED  BY <2>1, <2>2 DEF Grown
<1>4. \A u \in Tables : \A i \in DOMAIN live'.rows[u] :
        i \in DOMAIN live.rows[u] /\ live'.rows[u][i] = live.rows[u][i]
  BY <1>3
<1>5. LogInv'
  BY <1>1, <1>3, <1>4, GroupStep
<1>6. \A u \in Tables : \A i, r : Held(u, i, r)' => Held(u, i, r)
  BY <1>1, <1>2, GroupIs
<1> QED  BY <1>3, <1>5, <1>6

\* What a restart may find: the log, with the waiting group or without it, or what
\* a power failure leaves of it.
LEMMA OpenedIs ==
  ASSUME LogInv, TailsInv, NEW l \in {log, Redo(log, pending)} \cup tails
  PROVE  /\ l \in Logs /\ Whole(l)
         /\ \A t \in Tables : \A i \in DOMAIN l.rows[t] : Held(t, i, l.rows[t][i])
<1>1. log \in Logs /\ pending \in Seq(Recs)
  BY DEF LogInv, LogShape
<1>2. CASE l = log
  <2>1. \A t \in Tables : \A i \in DOMAIN l.rows[t] : Held(t, i, l.rows[t][i])
    BY <1>2 DEF Held
  <2> QED  BY <1>1, <1>2, <2>1 DEF Whole, LogInv
<1>3. CASE l = Redo(log, pending)
  <2>1. RedoOf(log, pending, l)
    BY <1>1, <1>3, RedoIs
  <2>2. /\ l \in Logs /\ log.tables \subseteq l.tables
        /\ \A u \in l.indexes : u \in log.indexes \/ \E n \in DOMAIN pending : u \in pending[n].indexes
        /\ \A t \in Tables : \A i \in DOMAIN l.rows[t] : Held(t, i, l.rows[t][i])
    BY <2>1 DEF RedoOf, Held
  <2>3. \A u \in l.indexes : u \in log.tables
    BY <2>2 DEF LogInv
  <2>4. \A t \in Tables : \A i, r : Held(t, i, r) => t \in log.tables
    BY DEF LogInv
  <2>5. \A t \in Tables : \A i \in DOMAIN l.rows[t] : t \in l.tables
    BY <2>2, <2>4
  <2>6. l.indexes \subseteq l.tables
    BY <2>2, <2>3
  <2> QED  BY <2>2, <2>5, <2>6 DEF Whole
<1>4. CASE l \in tails
  <2>1. l \in Logs /\ RowsIn(l, log) /\ Whole(l)
    BY <1>4 DEF TailsInv
  <2>2. \A t \in Tables : \A i \in DOMAIN l.rows[t] : Held(t, i, l.rows[t][i])
    BY <2>1 DEF RowsIn, Held
  <2> QED  BY <2>1, <2>2
<1> QED  BY <1>2, <1>3, <1>4

\* open_db makes what it shows from the log that it finds.
LEMMA OpenStep ==
  ASSUME LogInv, TxnInv, TailsInv,
         NEW l \in {log, Redo(log, pending)} \cup tails, log' = l, OpenDb(l)
  PROVE  LogInv' /\ TxnInv'
<1>1. /\ log' = l /\ live' = [tables |-> l.tables, rows |-> l.rows] /\ pending' = << >>
      /\ nextRid' = [t \in Tables |-> IF t \in l.tables THEN RowIdAfter(l.rows[t]) ELSE 0]
      /\ txn' = NoTxn
  BY DEF OpenDb
<1>3. /\ l \in Logs /\ Whole(l)
      /\ \A t \in Tables : \A i \in DOMAIN l.rows[t] : Held(t, i, l.rows[t][i])
  BY OpenedIs
<1>4. /\ l.tables \in SUBSET Tables /\ l.rows \in [Tables -> Tabs]
      /\ l.indexes \subseteq l.tables
  BY <1>3 DEF Logs, Whole
<1>5. /\ live'.tables = l.tables /\ live'.rows = l.rows /\ live' \in Shown
      /\ log' \in Logs /\ pending' \in Seq(Recs)
  BY <1>1, <1>3, <1>4 DEF Shown
<1>6. \A t \in Tables : \A i, r : Held(t, i, r)' => i \in DOMAIN l.rows[t] /\ r = l.rows[t][i]
  BY <1>1 DEF Held, Adds
<1>7. \A t \in Tables : \A i \in DOMAIN l.rows[t] : t \in l.tables /\ l.rows[t][i].id = i + 1
  <2>1. \A t \in Tables : \A i \in DOMAIN l.rows[t] : l.rows[t][i].id = i + 1
    BY <1>3 DEF LogInv
  <2> QED  BY <1>3, <2>1 DEF Whole
<1>8. LogInv'
  BY <1>1, <1>3, <1>4, <1>5, <1>6, <1>7 DEF LogInv, LogShape
<1>9. ASSUME NEW t \in Tables
      PROVE  nextRid'[t] \in Nat /\ \A i \in DOMAIN l.rows[t] : i < nextRid'[t]
  <2>1. l.rows[t] \in Tabs /\ nextRid[t] \in Nat /\ \A i \in DOMAIN l.rows[t] : i < nextRid[t]
    BY <1>3, <1>4 DEF TxnInv
  <2>2. RowIdAfter(l.rows[t]) \in Nat /\ \A i \in DOMAIN l.rows[t] : i < RowIdAfter(l.rows[t])
    BY <2>1, RowIdAfterIs
  <2> QED  BY <1>1, <1>7, <2>2
<1>10. nextRid' \in [Tables -> Nat]
  BY <1>1, <1>9
<1>11. txn' \in Bufs /\ DOMAIN txn' = {}
  <2>1. txn' \in [{} -> Seq(Entries)] /\ DOMAIN txn' = {}
    BY <1>1 DEF NoTxn
  <2> QED  BY <2>1, BufsIs
<1>12. TxnInv'
  BY <1>6, <1>9, <1>10, <1>11 DEF TxnInv
<1> QED  BY <1>8, <1>12

\* What open_db finds in the file.
LEMMA ReopenIs ==
  ASSUME Reopen
  PROVE  \E l \in {log, Redo(log, pending)} \cup tails :
           /\ log' = l /\ OpenDb(l)
           /\ \/ l = log /\ tails' = tails
              \/ l \in tails /\ tails' = {l}
              \/ l = Redo(log, pending) /\ tails' = {l}
              \/ l = Redo(log, pending) /\ tails' = tails \cup Range(RedoStates(log, pending))
BY DEF Reopen, Found, Closed

\* Nothing of this component but the derived state changes.
LEMMA DerivedStep ==
  ASSUME LogInv, TxnInv, UNCHANGED <<live, log, pending, nextRid>>, txn' \in Bufs,
         \A s \in DOMAIN txn' : txn'[s] = << >> \/ (s \in DOMAIN txn /\ txn'[s] = txn[s])
  PROVE  LogInv' /\ TxnInv'
<1>1. \A t \in Tables : \A i, r : Held(t, i, r)' <=> Held(t, i, r)
  BY DEF Held
<1>2. LogInv'
  BY <1>1 DEF LogInv, LogShape
<1> QED  BY <1>1, <1>2, QuietStep

LEMMA BeginStep ==
  ASSUME LogInv, TxnInv, NEW s \in Sessions, Begin(s)
  PROVE  LogInv' /\ TxnInv'
<1>1. /\ s \notin DOMAIN txn /\ txn' = Over([r \in {s} |-> << >>], txn)
      /\ UNCHANGED <<live, log, pending, nextRid>>
  BY DEF Begin, logVars
<1>2. DOMAIN txn \subseteq Sessions /\ \A r \in DOMAIN txn : txn[r] \in Seq(Entries)
  BY BufsIs DEF TxnInv
<1>3. /\ DOMAIN txn' = {s} \cup DOMAIN txn
      /\ txn' = [r \in {s} \cup DOMAIN txn |-> IF r = s THEN << >> ELSE txn[r]]
  BY <1>1 DEF Over
<1>4. \A r \in DOMAIN txn' : txn'[r] = << >> \/ (r \in DOMAIN txn /\ txn'[r] = txn[r])
  BY <1>3
<1>5. << >> \in Seq(Entries)
  OBVIOUS
<1>6. txn' \in [{s} \cup DOMAIN txn -> Seq(Entries)] /\ {s} \cup DOMAIN txn \in SUBSET Sessions
  BY <1>2, <1>3, <1>5
<1>7. txn' \in Bufs
  BY <1>6, BufsIs
<1> QED  BY <1>1, <1>4, <1>7, DerivedStep

\* A transaction ends: the others go on.
LEMMA EndedIs ==
  ASSUME TxnInv, NEW s
  PROVE  /\ Ended(s) \in Bufs /\ DOMAIN Ended(s) = DOMAIN txn \ {s}
         /\ \A r \in DOMAIN Ended(s) : r \in DOMAIN txn /\ Ended(s)[r] = txn[r]
<1>1. DOMAIN txn \subseteq Sessions /\ \A r \in DOMAIN txn : txn[r] \in Seq(Entries)
  BY BufsIs DEF TxnInv
<1>2. Ended(s) = [r \in DOMAIN txn \ {s} |-> txn[r]]
  BY DEF Ended
<1>3. Ended(s) \in [DOMAIN txn \ {s} -> Seq(Entries)] /\ DOMAIN txn \ {s} \in SUBSET Sessions
  BY <1>1, <1>2
<1> QED  BY <1>2, <1>3, BufsIs

LEMMA StopsAre ==
  ASSUME NEW b, NEW S, b \in Seq(S)
  PROVE  Stops(b) \subseteq Nat
BY DEF Stops

LEMMA CommitTxnStep ==
  ASSUME LogInv, TxnInv, NEW s \in Sessions, Commit(s)
  PROVE  LogInv' /\ TxnInv'
<1>1. s \in DOMAIN txn /\ txn' = Ended(s) /\ UNCHANGED nextRid
  BY DEF Commit
<1>2. NewBatch(txn[s]) /\ txn[s] \in Seq(Entries)
  BY <1>1, BufferedIsNew DEF NewBatch
<1>3. \/ UNCHANGED <<live, log, pending>>
      \/ \E stop \in Nat : FinishCommit(txn[s], stop)
      \/ \E fault \in LogFaults : FinishFails(txn[s], fault)
  BY <1>2, StopsAre DEF Commit, logVars
<1>4. /\ LogInv' /\ live'.tables = live.tables
      /\ \A t \in Tables : \A i, r : Held(t, i, r)' => Held(t, i, r) \/ Keys(txn[s], t, i)
  <2>1. CASE UNCHANGED <<live, log, pending>>
    <3>1. \A t \in Tables : \A i, r : Held(t, i, r)' <=> Held(t, i, r)
      BY <2>1 DEF Held
    <3>2. LogInv'
      BY <2>1, <3>1 DEF LogInv, LogShape
    <3> QED  BY <2>1, <3>1, <3>2
  <2> QED  BY <1>2, <1>3, <2>1, CommitStep
<1>5. /\ txn' \in Bufs
      /\ \A u \in DOMAIN txn' : u # s /\ u \in DOMAIN txn /\ txn'[u] = txn[u]
  BY <1>1, EndedIs
<1>6. ASSUME NEW t \in Tables, NEW i, Keys(txn[s], t, i)
      PROVE  i < nextRid[t] /\ \A u \in DOMAIN txn' : ~ Keys(txn'[u], t, i)
  BY <1>1, <1>5, <1>6 DEF Keys, TxnInv, SameKey
<1>7. nextRid' \in [Tables -> Nat] /\ \A t \in Tables : nextRid'[t] = nextRid[t] /\ nextRid[t] <= nextRid'[t]
  BY <1>1 DEF TxnInv
<1>8. \A t \in Tables : \A i, r : Held(t, i, r)' =>
         /\ Held(t, i, r) \/ i < nextRid'[t]
         /\ Held(t, i, r) \/ \A u \in DOMAIN txn' : ~ Keys(txn'[u], t, i)
  BY <1>4, <1>6, <1>7
<1> QED  BY <1>4, <1>5, <1>7, <1>8, TxnFrame

\* Row ids handed to a statement are later than those handed out before.
LEMMA NumberIs ==
  ASSUME LogInv, TxnInv, NEW t \in Tables, NEW vals \in Seq(RowValues), Number(t, vals)
  PROVE  /\ t \in live.tables /\ nextRid' \in [Tables -> Nat]
         /\ nextRid'[t] = nextRid[t] + Len(vals)
         /\ \A u \in Tables : nextRid[u] \in Nat /\ nextRid[u] <= nextRid'[u]
         /\ \A u \in Tables : \A i : Keys(Statement(t, vals), u, i) =>
              u = t /\ i < nextRid'[u] /\ \A s \in DOMAIN txn : ~ Keys(txn[s], u, i)
<1> DEFINE b == Statement(t, vals)
           L == Len(vals)
<1>1. t \in live.tables /\ nextRid' = [nextRid EXCEPT ![t] = @ + L] /\ L \in Nat
  BY DEF Number
<1>2. nextRid \in [Tables -> Nat]
  BY DEF TxnInv
<1>3. /\ b \in Seq(Entries)
      /\ \A n \in DOMAIN b : b[n].table = t /\ nextRid[t] <= b[n].rid /\ b[n].rid < nextRid[t] + L
  BY StatementIs
<1> HIDE DEF b, L
<1>4. /\ nextRid' \in [Tables -> Nat] /\ nextRid'[t] = nextRid[t] + L
      /\ \A u \in Tables : nextRid[u] \in Nat /\ nextRid[u] <= nextRid'[u]
  BY <1>1, <1>2
<1>5. ASSUME NEW u \in Tables, NEW i, Keys(b, u, i)
      PROVE  u = t /\ i < nextRid'[u] /\ \A s \in DOMAIN txn : ~ Keys(txn[s], u, i)
  <2>1. PICK n \in DOMAIN b : b[n].table = u /\ b[n].rid = i
    BY <1>5 DEF Keys
  <2>2. b[n] \in Entries
    BY <1>3
  <2>3. u = t /\ nextRid[t] <= i /\ i < nextRid'[t] /\ i \in Nat
    BY <1>3, <1>4, <2>1, <2>2 DEF Entries
  <2>4. ~ (i < nextRid[t])
    BY <1>4, <2>3
  <2> QED  BY <2>3, <2>4 DEF TxnInv, Keys
<1> QED  BY <1>1, <1>4, <1>5 DEF b, L

LEMMA AutocommitStep ==
  ASSUME LogInv, TxnInv, NEW t \in Tables, NEW vals \in Seq(RowValues), InsertAutocommit(t, vals)
  PROVE  LogInv' /\ TxnInv'
<1> DEFINE b == Statement(t, vals)
<1>1. Number(t, vals) /\ txn' = txn
  BY DEF InsertAutocommit
<1>2. /\ t \in live.tables /\ nextRid' \in [Tables -> Nat]
      /\ \A u \in Tables : nextRid[u] \in Nat /\ nextRid[u] <= nextRid'[u]
      /\ \A u \in Tables : \A i : Keys(b, u, i) =>
           u = t /\ i < nextRid'[u] /\ \A s \in DOMAIN txn : ~ Keys(txn[s], u, i)
  BY <1>1, NumberIs
<1>3. NewBatch(b)
  BY <1>2, StatementIsNew
<1>4. \/ \E stop \in Nat : FinishCommit(b, stop)
      \/ \E fault \in LogFaults : FinishFails(b, fault)
  BY StopsAre DEF InsertAutocommit
<1> HIDE DEF b
<1>5. /\ LogInv' /\ live'.tables = live.tables
      /\ \A u \in Tables : \A i, r : Held(u, i, r)' => Held(u, i, r) \/ Keys(b, u, i)
  BY <1>3, <1>4, CommitStep
<1>6. txn' \in Bufs
  BY <1>1 DEF TxnInv
<1>7. \A u \in Tables : \A i, r : Held(u, i, r)' =>
         /\ Held(u, i, r) \/ i < nextRid'[u]
         /\ Held(u, i, r) \/ \A s \in DOMAIN txn' : ~ Keys(txn'[s], u, i)
  BY <1>1, <1>2, <1>5
<1> QED  BY <1>1, <1>2, <1>5, <1>6, <1>7, TxnFrame

LEMMA InsertStep ==
  ASSUME LogInv, TxnInv, NEW s \in Sessions, NEW t \in Tables, NEW vals \in Seq(RowValues),
         InsertInTxn(s, t, vals)
  PROVE  LogInv' /\ TxnInv'
<1> DEFINE b == Statement(t, vals)
           old == txn[s]
           new == old \o b
<1>1. /\ s \in DOMAIN txn /\ Number(t, vals) /\ UNCHANGED <<live, log, pending>>
      /\ txn' = [txn EXCEPT ![s] = new]
  BY DEF InsertInTxn, logVars
<1>2. /\ t \in live.tables /\ nextRid' \in [Tables -> Nat]
      /\ \A u \in Tables : nextRid[u] \in Nat /\ nextRid[u] <= nextRid'[u]
      /\ \A u \in Tables : \A i : Keys(b, u, i) =>
           u = t /\ i < nextRid'[u] /\ \A r \in DOMAIN txn : ~ Keys(txn[r], u, i)
  BY <1>1, NumberIs
<1>3. NewBatch(b)
  BY <1>2, StatementIsNew
<1>4. /\ b \in Seq(Entries) /\ old \in Seq(Entries)
      /\ \A r \in DOMAIN txn : txn[r] \in Seq(Entries)
      /\ DOMAIN txn \subseteq Sessions
  BY <1>1, <1>3, BufsIs DEF NewBatch, TxnInv
<1>5. /\ new \in Seq(Entries)
      /\ DOMAIN new = 1..Len(new) /\ DOMAIN old = 1..Len(old) /\ DOMAIN b = 1..Len(b)
      /\ Len(old) \in Nat /\ Len(b) \in Nat /\ Len(new) = Len(old) + Len(b)
      /\ \A n \in 1..Len(new) : new[n] = IF n <= Len(old) THEN old[n] ELSE b[n - Len(old)]
  BY <1>4
<1> HIDE DEF b, new
<1>6. /\ DOMAIN txn' = DOMAIN txn /\ txn'[s] = new
      /\ \A r \in DOMAIN txn : r # s => txn'[r] = txn[r]
  BY <1>1
<1>7. txn' \in Bufs
  <2>1. txn' \in [DOMAIN txn -> Seq(Entries)]
    BY <1>1, <1>4, <1>5
  <2> QED  BY <1>4, <2>1, BufsIs
<1>8. \A u \in Tables : \A i, r : Held(u, i, r)' <=> Held(u, i, r)
  BY <1>1 DEF Held
<1>9. LogInv'
  BY <1>1, <1>8 DEF LogInv, LogShape
<1>10. \A n \in DOMAIN new :
         \/ n \in DOMAIN old /\ new[n] = old[n]
         \/ n - Len(old) \in DOMAIN b /\ new[n] = b[n - Len(old)]
  <2> TAKE n \in DOMAIN new
  <2>1. CASE n <= Len(old)
    BY <1>5, <2>1
  <2>2. CASE ~ (n <= Len(old))
    <3>1. n - Len(old) \in 1..Len(b)
      BY <1>5, <2>2
    <3> QED  BY <1>5, <2>2, <3>1
  <2> QED  BY <2>1, <2>2
<1>11. \A x \in Entries : Free(x) => Free(x)'
  <2>1. \A x \in Entries : x.table \in Tables
    BY DEF Entries
  <2> QED  BY <1>1, <1>8, <2>1 DEF Free
<1>12. ASSUME NEW r \in DOMAIN txn, NEW n \in DOMAIN txn[r], NEW x, x = txn[r][n]
       PROVE  Free(x)' /\ x.rid < nextRid'[x.table]
  <2>1. x \in Entries /\ Free(x) /\ x.rid < nextRid[x.table]
    BY <1>4, <1>12 DEF TxnInv
  <2>2. x.table \in Tables /\ x.rid \in Nat
    BY <2>1 DEF Entries
  <2>3. x.rid < nextRid'[x.table]
    BY <1>2, <2>1, <2>2
  <2> QED  BY <1>11, <2>1, <2>3
<1>13. ASSUME NEW n \in DOMAIN b, NEW x, x = b[n]
       PROVE  /\ Free(x)' /\ x.rid < nextRid'[x.table]
              /\ \A r \in DOMAIN txn : \A m \in DOMAIN txn[r] : ~ SameKey(x, txn[r][m])
  <2>1. x \in Entries /\ Free(x)
    BY <1>3, <1>4, <1>13 DEF NewBatch
  <2>2. x.table \in Tables /\ Keys(b, x.table, x.rid)
    BY <1>13, <2>1 DEF Entries, Keys
  <2>3. x.rid < nextRid'[x.table] /\ \A r \in DOMAIN txn : ~ Keys(txn[r], x.table, x.rid)
    BY <1>2, <2>2
  <2>4. \A r \in DOMAIN txn : \A m \in DOMAIN txn[r] : ~ SameKey(x, txn[r][m])
    BY <2>3 DEF Keys, SameKey
  <2> QED  BY <1>11, <2>1, <2>3, <2>4
<1>14. \A r \in DOMAIN txn : \A n \in DOMAIN txn'[r] :
         \/ n \in DOMAIN txn[r] /\ txn'[r][n] = txn[r][n]
         \/ r = s /\ n - Len(old) \in DOMAIN b /\ txn'[r][n] = b[n - Len(old)]
  BY <1>6, <1>10
<1>15. ASSUME NEW r \in DOMAIN txn', NEW n \in DOMAIN txn'[r]
       PROVE  Free(txn[r][n])'
              /\ txn'[r][n].rid < nextRid'[txn'[r][n].table]
  <2>1. PICK x : x = txn'[r][n]
    OBVIOUS
  <2>2. Free(x)' /\ x.rid < nextRid'[x.table]
    BY <1>6, <1>12, <1>13, <1>14, <2>1
  <2> QED  BY <2>1, <2>2
<1>16. ASSUME NEW r \in DOMAIN txn', NEW u \in DOMAIN txn',
              NEW n \in DOMAIN txn'[r], NEW m \in DOMAIN txn'[u],
              SameKey(txn'[r][n], txn'[u][m])
       PROVE  r = u /\ n = m
  <2>1. SameKey(txn'[u][m], txn'[r][n])
    BY <1>16 DEF SameKey
  <2>2. CASE n \in DOMAIN txn[r] /\ txn'[r][n] = txn[r][n]
             /\ m \in DOMAIN txn[u] /\ txn'[u][m] = txn[u][m]
    BY <1>6, <1>16, <2>2 DEF TxnInv
  <2>3. CASE /\ r = s /\ n - Len(old) \in DOMAIN b /\ txn'[r][n] = b[n - Len(old)]
             /\ u = s /\ m - Len(old) \in DOMAIN b /\ txn'[u][m] = b[m - Len(old)]
    <3>1. n - Len(old) = m - Len(old)
      BY <1>3, <1>16, <2>3 DEF NewBatch, Distinct
    <3>2. n \in Int /\ m \in Int /\ Len(old) \in Int
      BY <1>5, <1>6, <2>3
    <3> QED  BY <2>3, <3>1, <3>2
  <2> QED  BY <1>6, <1>13, <1>14, <1>16, <2>1, <2>2, <2>3
<1>17. \A u \in Tables : \A i, r : Held(u, i, r)' => i < nextRid'[u]
  <2> SUFFICES ASSUME NEW u \in Tables, NEW i, NEW r, Held(u, i, r) PROVE i < nextRid'[u]
    BY <1>8
  <2>1. i \in Nat /\ i < nextRid[u]
    BY HeldIsTyped DEF TxnInv
  <2> QED  BY <1>2, <2>1
<1> QED  BY <1>2, <1>7, <1>9, <1>15, <1>16, <1>17 DEF TxnInv

\* A statement that only adds to the log, and lets transactions go on or end.
LEMMA DdlTxnStep ==
  ASSUME LogInv, TxnInv, NEW fault \in Faults, NEW recs,
         NewRecs(recs), Rowless(recs), Group(recs, fault), Grown(recs, fault),
         UNCHANGED nextRid, txn' = txn \/ \E s \in Sessions : txn' = Ended(s)
  PROVE  LogInv' /\ TxnInv'
<1>1. /\ LogInv' /\ live.tables \subseteq live'.tables
      /\ \A u \in Tables : \A i, r : Held(u, i, r)' => Held(u, i, r)
  BY DdlStep
<1>2. /\ txn' \in Bufs
      /\ \A s \in DOMAIN txn' : s \in DOMAIN txn /\ txn'[s] = txn[s]
  BY EndedIs DEF TxnInv
<1> QED  BY <1>1, <1>2, QuietStep

\* Rollback writes a group that failed before once more.
LEMMA RollbackStep ==
  ASSUME LogInv, TxnInv, NEW s \in Sessions, Rollback(s)
  PROVE  LogInv' /\ TxnInv'
<1>1. PICK fault \in LogFaults \cup {"none"} : Group(<< >>, fault)
  BY DEF Rollback
<1>2. fault \in Faults /\ txn' = Ended(s) /\ UNCHANGED <<live, nextRid>>
  BY <1>1, LogFaultsAssumption DEF Rollback, Faults
<1>3. PICK recs : recs = << >>
  OBVIOUS
<1>4. NewRecs(recs) /\ Rowless(recs)
  BY <1>3 DEF NewRecs, Adds, Rowless
<1>5. Group(recs, fault) /\ Grown(recs, fault)
  BY <1>1, <1>2, <1>3 DEF Grown
<1> QED  BY <1>2, <1>4, <1>5, DdlTxnStep

\* Every statement, restart and flush keeps both.
LEMMA LogStep == LogInv /\ TxnInv /\ TailsInv /\ [Next]_vars => LogInv' /\ TxnInv'
<1> SUFFICES ASSUME LogInv, TxnInv, TailsInv, [Next]_vars PROVE LogInv' /\ TxnInv'
  OBVIOUS
<1>0. "none" \in Faults /\ LogFaults \subseteq Faults
  BY LogFaultsAssumption DEF Faults
<1>1. ASSUME NEW t \in Tables, CreateTable(t) PROVE LogInv' /\ TxnInv'
  <2>1. PICK recs : recs = <<TableRec(t)>>
    OBVIOUS
  <2>2. /\ Group(recs, "none") /\ UNCHANGED <<nextRid, txn>>
        /\ live' = [live EXCEPT !.tables = live.tables \cup {t}]
    BY <1>1, <2>1 DEF CreateTable
  <2>3. NewRecs(recs) /\ Rowless(recs) /\ \E n \in DOMAIN recs : t \in recs[n].tables
    BY <2>1, DdlRecs
  <2>4. Grown(recs, "none")
    BY <2>2, <2>3 DEF Grown
  <2> QED  BY <1>0, <2>2, <2>3, <2>4, DdlTxnStep
<1>2. ASSUME NEW t \in Tables, CreateIndex(t) PROVE LogInv' /\ TxnInv'
  <2>1. PICK recs : recs = <<IndexRec(t)>>
    OBVIOUS
  <2>2. t \in live.tables /\ Group(recs, "none") /\ UNCHANGED <<live, nextRid, txn>>
    BY <1>2, <2>1 DEF CreateIndex
  <2>3. NewRecs(recs) /\ Rowless(recs) /\ Grown(recs, "none")
    BY <2>1, <2>2, DdlRecs DEF Grown
  <2> QED  BY <1>0, <2>2, <2>3, DdlTxnStep
<1>3. ASSUME NEW t \in Tables, DropIndex(t) PROVE LogInv' /\ TxnInv'
  <2>1. PICK recs : recs = <<DropRec(t)>>
    OBVIOUS
  <2>2. Group(recs, "none") /\ UNCHANGED <<live, nextRid, txn>>
    BY <1>3, <2>1 DEF DropIndex
  <2>3. NewRecs(recs) /\ Rowless(recs) /\ Grown(recs, "none")
    BY <2>1, <2>2, DdlRecs DEF Grown
  <2> QED  BY <1>0, <2>2, <2>3, DdlTxnStep
<1>4. ASSUME NEW fault \in LogFaults, DdlFails(fault) PROVE LogInv' /\ TxnInv'
  <2>1. UNCHANGED <<live, nextRid, txn>> /\ fault \in Faults
    BY <1>0, <1>4 DEF DdlFails
  <2>2. PICK t \in Tables : \/ Group(<<TableRec(t)>>, fault)
                            \/ t \in live.tables /\ Group(<<IndexRec(t)>>, fault)
                            \/ Group(<<DropRec(t)>>, fault)
    BY <1>4 DEF DdlFails
  <2>3. PICK recs : /\ Group(recs, fault)
                    /\ \/ recs = <<TableRec(t)>>
                       \/ recs = <<IndexRec(t)>> /\ t \in live.tables
                       \/ recs = <<DropRec(t)>>
    BY <2>2
  <2>4. NewRecs(recs) /\ Rowless(recs) /\ Grown(recs, fault)
    BY <2>1, <2>3, DdlRecs DEF Grown
  <2> QED  BY <2>1, <2>3, <2>4, DdlTxnStep
<1>5. ASSUME NEW t \in Tables, NEW v \in RowValues, NEW w \in RowValues, InsertAutocommit(t, <<v, w>>)
      PROVE  LogInv' /\ TxnInv'
  <2>1. <<v, w>> \in Seq(RowValues)
    OBVIOUS
  <2> QED  BY <1>5, <2>1, AutocommitStep
<1>6. ASSUME NEW t \in Tables, NEW v \in RowValues, NEW s \in Sessions, InsertInTxn(s, t, <<v>>)
      PROVE  LogInv' /\ TxnInv'
  <2>1. <<v>> \in Seq(RowValues)
    OBVIOUS
  <2> QED  BY <1>6, <2>1, InsertStep
<1>7. ASSUME NEW s \in Sessions, Begin(s) \/ Commit(s) \/ Rollback(s)
      PROVE  LogInv' /\ TxnInv'
  BY <1>7, BeginStep, CommitTxnStep, RollbackStep
<1>8. ASSUME UNCHANGED <<live, log, pending, nextRid, txn>>
      PROVE  LogInv' /\ TxnInv'
  <2>1. txn' \in Bufs /\ \A s \in DOMAIN txn' : s \in DOMAIN txn /\ txn'[s] = txn[s]
    BY <1>8 DEF TxnInv
  <2> QED  BY <1>8, <2>1, DerivedStep
<1>9. ASSUME Reopen PROVE LogInv' /\ TxnInv'
  BY <1>9, ReopenIs, OpenStep
<1>10. WithColumnar => UNCHANGED <<live, log, pending, nextRid, txn>>
  BY DEF WithColumnar, logVars
<1>11. ASSUME NEW failed, NEW fault, FlushToColumnar(failed, fault)
       PROVE  UNCHANGED <<live, log, pending, nextRid, txn>>
  <2>1. UNCHANGED <<engineVars, missed, captured>>
    BY <1>11, Zenon DEF FlushToColumnar
  <2> QED  BY <2>1 DEF engineVars, logVars
<1>12. UNCHANGED vars => UNCHANGED <<live, log, pending, nextRid, txn>>
  BY DEF vars, engineVars, logVars
<1> QED
  BY <1>1, <1>2, <1>3, <1>4, <1>5, <1>6, <1>7, <1>8, <1>9, <1>10, <1>11, <1>12 DEF Next

LEMMA LogStart == Init => LogInv /\ TxnInv
<1> SUFFICES ASSUME Init PROVE LogInv /\ TxnInv
  OBVIOUS
<1>1. NoRows \in Tabs /\ DOMAIN NoRows = {}
  <2>1. NoRows \in [{} -> Rows] /\ DOMAIN NoRows = {}
    BY DEF NoRows
  <2> QED  BY <2>1, TabIs
<1>2. /\ live = [tables |-> {}, rows |-> [t \in Tables |-> NoRows]]
      /\ log = [tables |-> {}, indexes |-> {}, rows |-> [t \in Tables |-> NoRows]]
      /\ pending = << >> /\ nextRid = [t \in Tables |-> 0] /\ txn = NoTxn
  BY DEF Init
<1>3. LogShape
  BY <1>1, <1>2 DEF LogShape, Shown, Logs
<1>4. \A t \in Tables : /\ DOMAIN live.rows[t] = {}
                        /\ \A i, r : ~ Held(t, i, r)
  BY <1>1, <1>2 DEF Held, Adds
<1>5. LogInv
  BY <1>2, <1>3, <1>4 DEF LogInv
<1>6. txn \in Bufs /\ DOMAIN txn = {}
  <2>1. txn \in [{} -> Seq(Entries)] /\ DOMAIN txn = {}
    BY <1>2 DEF NoTxn
  <2> QED  BY <2>1, BufsIs
<1> QED  BY <1>2, <1>4, <1>5, <1>6 DEF TxnInv

----------------------------------------------------------------------------
(* What a power failure leaves.                                            *)

\* The rows of table t: committed, or what a power failure may leave of them.
Base(t) == {live.rows[t]} \cup {l.rows[t] : l \in tails}

\* A step takes nothing away that each of them has.
Grew ==
  \A t \in Tables : \A rows \in Base(t)' : \E old \in Base(t) : Range(old) \subseteq Range(rows)

Extends(f, g) == \A i \in DOMAIN f : i \in DOMAIN g /\ g[i] = f[i]

LEMMA ExtendsIs ==
  ASSUME NEW f, NEW g, Extends(f, g)
  PROVE  Range(f) \subseteq Range(g)
BY DEF Extends, Range

\* Whatever shows what the engine shows has the rows that it has.
LEMMA ShowsIs ==
  ASSUME NEW l, Shows(l), NEW t \in Tables
  PROVE  Range(live.rows[t]) \subseteq Range(l.rows[t])
<1>1. Extends(live.rows[t], l.rows[t])
  BY DEF Shows, Extends
<1> QED  BY <1>1, ExtendsIs

LEMMA TailsSame ==
  ASSUME TailsInv, UNCHANGED <<live, log, tails, unproven>>
  PROVE  TailsInv' /\ Grew
<1>1. TailsInv'
  BY DEF TailsInv, RowsIn, Whole, Shows
<1>2. \A t \in Tables : Base(t)' = Base(t)
  BY DEF Base
<1> QED  BY <1>1, <1>2 DEF Grew

\* A group, with what it shows.
LEMMA TailsGroup ==
  ASSUME LogInv, TailsInv, LogInv', NEW recs, NewRecs(recs), NEW fault \in Faults,
         Group(recs, fault), fault # "none" => UNCHANGED live,
         \A t \in Tables : Extends(live.rows[t], live'.rows[t])
  PROVE  TailsInv' /\ Grew
<1> DEFINE p == pending \o recs
           states == RedoStates(log, p)
<1>0. \A t \in Tables : Range(live.rows[t]) \subseteq Range(live'.rows[t])
  BY ExtendsIs
<1>1. /\ log' = IF fault = "write" THEN log ELSE Redo(log, p)
      /\ tails' = CASE fault = "write" -> tails
                    [] fault = "sync" -> tails \cup Range(states)
                    [] fault = "none" -> {Redo(log, p)}
      /\ unproven' = (unproven /\ fault # "none")
  BY DEF Group
<1>2. \A k \in Range(states) :
        /\ k \in Logs /\ Whole(k) /\ Shows(k) /\ RowsIn(k, Redo(log, p)) /\ RowsIn(log, Redo(log, p))
  BY StatesAre
<1>3. log \in Range(states)
  <2>1. log \in Logs /\ pending \in Seq(Recs) /\ recs \in Seq(Recs)
    BY DEF LogInv, LogShape, NewRecs
  <2>2. p \in Seq(Recs) /\ Len(p) \in Nat
    BY <2>1
  <2> HIDE DEF p
  <2>3. DOMAIN states = 0..Len(p) /\ states[0] = log /\ 0 \in 0..Len(p)
    BY <2>1, <2>2, RedoStateSteps
  <2> QED  BY <2>3 DEF Range
<1> HIDE DEF p, states
<1>4. \A l \in tails : l \in Logs /\ RowsIn(l, log) /\ Whole(l) /\ (~ unproven => Shows(l))
  BY DEF TailsInv
<1>5. CASE fault = "write"
  <2>1. UNCHANGED <<live, log, tails, unproven>>
    BY <1>1, <1>5 DEF TailsInv
  <2> QED  BY <2>1, TailsSame
<1>6. CASE fault = "sync"
  <2>1. /\ tails' = tails \cup Range(states) /\ live' = live /\ log' = Redo(log, p)
        /\ unproven' <=> unproven
    BY <1>1, <1>6
  <2>2. RowsIn(log, log') /\ \A k \in Range(states) : RowsIn(k, log')
    BY <1>2, <1>3, <2>1
  <2>3. \A l \in tails : RowsIn(l, log')
    BY <1>4, <2>2 DEF RowsIn
  <2>4. \A l \in tails' : l \in Logs /\ RowsIn(l, log') /\ Whole(l) /\ (~ unproven' => Shows(l))
    BY <1>2, <1>4, <2>1, <2>2, <2>3
  <2>5. \A l : Shows(l)' <=> Shows(l)
    BY <2>1 DEF Shows
  <2>6. TailsInv'
    <3>1. tails' \subseteq Logs /\ unproven' \in BOOLEAN
      BY <1>1, <2>4
    <3>2. \A l \in tails' : RowsIn(l, log)' /\ Whole(l)
      BY <2>4 DEF RowsIn
    <3>3. ~ unproven' => \A l \in tails' : Shows(l)'
      BY <2>4, <2>5
    <3> QED  BY <3>1, <3>2, <3>3 DEF TailsInv, Whole
  <2>7. ASSUME NEW t \in Tables, NEW rows \in Base(t)'
        PROVE  \E old \in Base(t) : Range(old) \subseteq Range(rows)
    <3>1. CASE rows \in Base(t)
      BY <3>1
    <3>2. CASE rows \notin Base(t)
      <4>1. PICK k \in Range(states) : rows = k.rows[t]
        BY <2>1, <2>7, <3>2 DEF Base
      <4>2. Range(live.rows[t]) \subseteq Range(rows)
        BY <1>2, <4>1, ShowsIs
      <4> QED  BY <4>2 DEF Base
    <3> QED  BY <3>1, <3>2
  <2> QED  BY <2>6, <2>7 DEF Grew
<1>7. CASE fault = "none"
  <2>1. tails' = {log'} /\ unproven' \in BOOLEAN
    BY <1>1, <1>7
  <2>2. log' \in Logs /\ Whole(log') /\ RowsIn(log', log')
    BY DEF LogInv, LogShape, Held, Whole, RowsIn
  <2>3. Shows(log)'
    BY DEF LogInv, Shows
  <2>4. TailsInv'
    BY <2>1, <2>2, <2>3 DEF TailsInv, Whole, RowsIn, Shows
  <2>5. \A t \in Tables : Range(live'.rows[t]) \subseteq Range(log'.rows[t])
    <3> TAKE t \in Tables
    <3>1. Extends(live'.rows[t], log'.rows[t])
      BY DEF LogInv, Extends
    <3> QED  BY <3>1, ExtendsIs
  <2>6. \A t \in Tables : live.rows[t] \in Base(t) /\ \A rows \in Base(t)' : rows \in {live'.rows[t], log'.rows[t]}
    BY <2>1 DEF Base
  <2> QED  BY <1>0, <2>4, <2>5, <2>6 DEF Grew
<1> QED  BY <1>5, <1>6, <1>7 DEF Faults

\* The states that the file goes through while close writes the waiting group.
LEMMA ClosedStates ==
  ASSUME LogInv
  PROVE  /\ log \in Range(RedoStates(log, pending))
         /\ Redo(log, pending) \in Range(RedoStates(log, pending))
         /\ \A k \in Range(RedoStates(log, pending)) :
              k \in Logs /\ Whole(k) /\ Shows(k) /\ RowsIn(k, Redo(log, pending))
<1>1. PICK recs : recs = << >>
  OBVIOUS
<1>2. NewRecs(recs)
  BY <1>1 DEF NewRecs
<1>3. /\ log \in Logs /\ pending \in Seq(Recs) /\ Len(pending) \in Nat /\ pending \o recs = pending
      /\ 0 \in 0..Len(pending) /\ Len(pending) \in 0..Len(pending)
  BY <1>1 DEF LogInv, LogShape
<1>4. DOMAIN RedoStates(log, pending) = 0..Len(pending) /\ RedoStates(log, pending)[0] = log
  BY <1>3, RedoStateSteps
<1>5. /\ log \in Range(RedoStates(log, pending))
      /\ Redo(log, pending) \in Range(RedoStates(log, pending))
  BY <1>3, <1>4 DEF Range, Redo
<1> QED  BY <1>2, <1>3, <1>5, StatesAre

\* A restart.
LEMMA TailsOpen ==
  ASSUME LogInv, TailsInv, LogInv', Reopen
  PROVE  TailsInv' /\ Grew
<1> DEFINE all == Redo(log, pending)
           states == RedoStates(log, pending)
<1>1. PICK l \in {log, all} \cup tails :
        /\ log' = l /\ OpenDb(l)
        /\ \/ l = log /\ tails' = tails
           \/ l \in tails /\ tails' = {l}
           \/ l = all /\ tails' = {l}
           \/ l = all /\ tails' = tails \cup Range(states)
  BY ReopenIs
<1>2. live' = [tables |-> l.tables, rows |-> l.rows] /\ unproven' = (tails' # {l})
  BY <1>1 DEF OpenDb
<1>3. /\ log \in Range(states) /\ all \in Range(states)
      /\ \A k \in Range(states) : k \in Logs /\ Whole(k) /\ Shows(k) /\ RowsIn(k, all)
  BY ClosedStates
<1>5. l \in Logs /\ Whole(l)
  BY OpenedIs
<1> HIDE DEF all, states
<1>6. \A k \in tails : k \in Logs /\ RowsIn(k, log) /\ Whole(k)
  BY DEF TailsInv
<1>7. RowsIn(log, all)
  BY <1>3
<1>8. RowsIn(l, l)
  BY DEF RowsIn
<1>9. l = all => \A k \in tails : RowsIn(k, l)
  BY <1>6, <1>7 DEF RowsIn
<1>10. \A k \in tails' : k \in Logs /\ Whole(k) /\ RowsIn(k, l)
  BY <1>1, <1>3, <1>5, <1>6, <1>8, <1>9
<1>11. Shows(l)'
  BY <1>2 DEF Shows
<1>12. TailsInv'
  <2>1. tails' \subseteq Logs /\ unproven' \in BOOLEAN
    BY <1>2, <1>10
  <2>2. \A k \in tails' : RowsIn(k, log)' /\ Whole(k)
    BY <1>1, <1>10 DEF RowsIn
  <2>3. ~ unproven' => \A k \in tails' : Shows(k)'
    BY <1>2, <1>11 DEF Shows
  <2> QED  BY <2>1, <2>2, <2>3 DEF TailsInv, Whole
<1>13. Shows(log)
  BY DEF LogInv, Shows
<1>14. Shows(all)
  BY <1>3
<1>15. ASSUME NEW t \in Tables, NEW k, k = l \/ k \in tails'
       PROVE  \E old \in Base(t) : Range(old) \subseteq Range(k.rows[t])
  <2>1. CASE k \in tails
    BY <2>1 DEF Base
  <2>2. CASE Shows(k)
    <3>1. Range(live.rows[t]) \subseteq Range(k.rows[t]) /\ live.rows[t] \in Base(t)
      BY <2>2, ShowsIs DEF Base
    <3> QED  BY <3>1
  <2> QED  BY <1>1, <1>3, <1>13, <1>14, <1>15, <2>1, <2>2
<1>16. \A t \in Tables : \A rows \in Base(t)' : \E k : (k = l \/ k \in tails') /\ rows = k.rows[t]
  BY <1>2 DEF Base
<1>17. Grew
  BY <1>15, <1>16 DEF Grew
<1> QED  BY <1>12, <1>17

\* A commit, whether it fails or not.
LEMMA TailsCommit ==
  ASSUME LogInv, TailsInv, LogInv', NEW b, NewBatch(b),
         \/ \E stop \in Nat : FinishCommit(b, stop)
         \/ \E fault \in LogFaults : FinishFails(b, fault)
  PROVE  TailsInv' /\ Grew
<1>1. NewRecs(LogGroup(b)) /\ LogFaults \subseteq Faults /\ "none" \in Faults
  BY BatchRecs, LogFaultsAssumption DEF Faults
<1>2. ASSUME NEW stop \in Nat, FinishCommit(b, stop) PROVE TailsInv' /\ Grew
  <2>1. /\ Group(LogGroup(b), "none")
        /\ live' = [live EXCEPT !.rows = [t \in Tables |-> Over(ById(b, t), @[t])]]
    BY <1>2 DEF FinishCommit
  <2>2. live'.rows = [t \in Tables |-> Over(ById(b, t), live.rows[t])]
    BY <2>1 DEF LogInv, LogShape, Shown
  <2>3. ASSUME NEW t \in Tables, NEW i \in DOMAIN live.rows[t] PROVE i \notin DOMAIN ById(b, t)
    <3>1. Held(t, i, live.rows[t][i])
      BY DEF LogInv, Held
    <3>2. ~ Keys(b, t, i)
      BY <3>1 DEF NewBatch, Free, Keys
    <3> QED  BY <3>2, ByIdIs DEF NewBatch
  <2>4. ASSUME NEW t \in Tables PROVE Extends(live.rows[t], live'.rows[t])
    <3>1. \A i \in DOMAIN live.rows[t] : i \notin DOMAIN ById(b, t)
      BY <2>3
    <3>2. live'.rows[t] = Over(ById(b, t), live.rows[t])
      BY <2>2
    <3> QED  BY <3>1, <3>2 DEF Over, Extends
  <2> QED  BY <1>1, <2>1, <2>4, TailsGroup
<1>3. ASSUME NEW fault \in LogFaults, FinishFails(b, fault) PROVE TailsInv' /\ Grew
  <2>1. Group(LogGroup(b), fault) /\ UNCHANGED live /\ fault \in Faults
    BY <1>1, <1>3 DEF FinishFails
  <2>2. \A t \in Tables : Extends(live.rows[t], live'.rows[t])
    BY <2>1 DEF Extends
  <2> QED  BY <1>1, <2>1, <2>2, TailsGroup
<1> QED  BY <1>2, <1>3

\* Records without rows, of a statement that shows a table at most.
LEMMA TailsDdl ==
  ASSUME LogInv, TailsInv, LogInv', NEW recs, NewRecs(recs), NEW fault \in Faults,
         Group(recs, fault), Grown(recs, fault)
  PROVE  TailsInv' /\ Grew
<1>1. live'.rows = live.rows /\ (fault # "none" => UNCHANGED live)
  <2>1. live = [tables |-> live.tables, rows |-> live.rows]
    BY DEF LogInv, LogShape, Shown
  <2> QED  BY <2>1 DEF Grown
<1>2. \A t \in Tables : Extends(live.rows[t], live'.rows[t])
  BY <1>1 DEF Extends
<1> QED  BY <1>1, <1>2, TailsGroup

LEMMA TailsStep ==
  LogInv /\ TxnInv /\ TailsInv /\ [Next]_vars => TailsInv' /\ Grew
<1> SUFFICES ASSUME LogInv, TxnInv, TailsInv, [Next]_vars PROVE TailsInv' /\ Grew
  OBVIOUS
<1>0. "none" \in Faults /\ LogFaults \subseteq Faults
  BY LogFaultsAssumption DEF Faults
<1>1. LogInv'
  BY LogStep
<1>2. ASSUME NEW t \in Tables, CreateTable(t) PROVE TailsInv' /\ Grew
  <2>1. PICK recs : recs = <<TableRec(t)>>
    OBVIOUS
  <2>2. Group(recs, "none") /\ live' = [live EXCEPT !.tables = live.tables \cup {t}]
    BY <1>2, <2>1 DEF CreateTable
  <2>3. NewRecs(recs) /\ \E n \in DOMAIN recs : t \in recs[n].tables
    BY <2>1, DdlRecs
  <2>4. Grown(recs, "none")
    BY <2>2, <2>3 DEF Grown
  <2> QED  BY <1>0, <1>1, <2>2, <2>3, <2>4, TailsDdl
<1>3. ASSUME NEW t \in Tables, CreateIndex(t) \/ DropIndex(t) PROVE TailsInv' /\ Grew
  <2>1. PICK recs : /\ (recs = <<IndexRec(t)>> /\ t \in live.tables) \/ recs = <<DropRec(t)>>
                    /\ Group(recs, "none") /\ UNCHANGED live
    BY <1>3 DEF CreateIndex, DropIndex
  <2>2. NewRecs(recs) /\ Grown(recs, "none")
    BY <2>1, DdlRecs DEF Grown
  <2> QED  BY <1>0, <1>1, <2>1, <2>2, TailsDdl
<1>4. ASSUME NEW fault \in LogFaults, DdlFails(fault) PROVE TailsInv' /\ Grew
  <2>1. UNCHANGED live /\ fault \in Faults
    BY <1>0, <1>4 DEF DdlFails
  <2>2. PICK t \in Tables : \/ Group(<<TableRec(t)>>, fault)
                            \/ t \in live.tables /\ Group(<<IndexRec(t)>>, fault)
                            \/ Group(<<DropRec(t)>>, fault)
    BY <1>4 DEF DdlFails
  <2>3. PICK recs : /\ Group(recs, fault)
                    /\ \/ recs = <<TableRec(t)>>
                       \/ recs = <<IndexRec(t)>> /\ t \in live.tables
                       \/ recs = <<DropRec(t)>>
    BY <2>2
  <2>4. NewRecs(recs) /\ Grown(recs, fault)
    BY <2>1, <2>3, DdlRecs DEF Grown
  <2> QED  BY <1>1, <2>1, <2>3, <2>4, TailsDdl
<1>5. ASSUME NEW t \in Tables, NEW vals \in Seq(RowValues), InsertAutocommit(t, vals)
      PROVE  TailsInv' /\ Grew
  <2>1. t \in live.tables
    BY <1>5 DEF InsertAutocommit, Number
  <2> DEFINE b == Statement(t, vals)
  <2>2. NewBatch(b)
    BY <2>1, StatementIsNew
  <2>3. \/ \E stop \in Nat : FinishCommit(b, stop)
        \/ \E fault \in LogFaults : FinishFails(b, fault)
    BY <1>5, StopsAre DEF InsertAutocommit
  <2> HIDE DEF b
  <2> QED  BY <1>1, <2>2, <2>3, TailsCommit
<1>6. ASSUME NEW t \in Tables, NEW v \in RowValues, NEW w \in RowValues,
             InsertAutocommit(t, <<v, w>>)
      PROVE  TailsInv' /\ Grew
  <2>1. <<v, w>> \in Seq(RowValues)
    OBVIOUS
  <2> QED  BY <1>5, <1>6, <2>1
<1>7. ASSUME UNCHANGED <<live, logVars>> PROVE TailsInv' /\ Grew
  BY <1>7, TailsSame DEF logVars
<1>8. ASSUME NEW s \in Sessions, Commit(s) PROVE TailsInv' /\ Grew
  <2>1. NewBatch(txn[s]) /\ txn[s] \in Seq(Entries)
    BY <1>8, BufferedIsNew DEF Commit, NewBatch
  <2>2. \/ UNCHANGED <<live, logVars>>
        \/ \E stop \in Nat : FinishCommit(txn[s], stop)
        \/ \E fault \in LogFaults : FinishFails(txn[s], fault)
    BY <1>8, <2>1, StopsAre DEF Commit
  <2> QED  BY <1>1, <1>7, <2>1, <2>2, TailsCommit
<1>9. ASSUME NEW s \in Sessions, Rollback(s) PROVE TailsInv' /\ Grew
  <2>1. PICK fault \in LogFaults \cup {"none"} : Group(<< >>, fault)
    BY <1>9 DEF Rollback
  <2>2. PICK recs : recs = << >>
    OBVIOUS
  <2>3. fault \in Faults /\ UNCHANGED live /\ Group(recs, fault)
    BY <1>0, <1>9, <2>1, <2>2 DEF Rollback
  <2>4. NewRecs(recs) /\ Grown(recs, fault)
    BY <2>2, <2>3 DEF NewRecs, Grown
  <2> QED  BY <1>1, <2>3, <2>4, TailsDdl
<1>10. ASSUME NEW s \in Sessions, Begin(s) PROVE UNCHANGED <<live, logVars>>
  BY <1>10 DEF Begin
<1>11. ASSUME NEW t \in Tables, NEW v \in RowValues, NEW s \in Sessions, InsertInTxn(s, t, <<v>>)
       PROVE  UNCHANGED <<live, logVars>>
  BY <1>11 DEF InsertInTxn
<1>12. ASSUME WithColumnar PROVE UNCHANGED <<live, logVars>>
  BY <1>12 DEF WithColumnar
<1>13. ASSUME NEW failed, NEW fault, FlushToColumnar(failed, fault) PROVE UNCHANGED <<live, logVars>>
  <2>1. UNCHANGED <<engineVars, missed, captured>>
    BY <1>13, Zenon DEF FlushToColumnar
  <2> QED  BY <2>1 DEF engineVars
<1>14. ASSUME UNCHANGED vars PROVE UNCHANGED <<live, logVars>>
  BY <1>14 DEF vars, engineVars
<1>15. ASSUME Reopen PROVE TailsInv' /\ Grew
  BY <1>1, <1>15, TailsOpen
<1> QED
  BY <1>2, <1>3, <1>4, <1>6, <1>7, <1>8, <1>9, <1>10, <1>11, <1>12, <1>13, <1>14, <1>15 DEF Next

LEMMA TailsStart == Init => TailsInv
<1> SUFFICES ASSUME Init PROVE TailsInv
  OBVIOUS
<1>1. log \in Logs /\ Whole(log) /\ Shows(log)
  <2>1. LogInv
    BY LogStart
  <2> QED  BY <2>1 DEF LogInv, LogShape, Held, Whole, Shows
<1>2. tails = {log} /\ unproven = FALSE
  BY DEF Init
<1> QED  BY <1>1, <1>2 DEF TailsInv, RowsIn

LEMMA LogAlways == Spec => [](LogInv /\ TxnInv /\ TailsInv)
BY LogStart, TailsStart, LogStep, TailsStep, PTL DEF Spec

\* Whatever groups failed, in whatever way, and however often they were written
\* again, a restart after a kill or a close finds every table and row that was
\* shown; a restart after a power failure as well, unless the process itself had
\* opened a log that was not synced, and has synced nothing since.
THEOREM RestartsFindTheShown == Spec => []RestartsKeepTheShown
<1>1. LogInv /\ TailsInv => RestartsKeepTheShown
  <2> SUFFICES ASSUME LogInv, TailsInv,
                      NEW l \in {log, Redo(log, pending)} \cup (IF unproven THEN {} ELSE tails)
               PROVE  Shows(l)
    BY DEF RestartsKeepTheShown, Shows
  <2>1. Shows(log)
    BY DEF LogInv, Shows
  <2>2. Shows(Redo(log, pending))
    BY ClosedStates
  <2>3. ~ unproven => \A k \in tails : Shows(k)
    BY DEF TailsInv
  <2> QED  BY <2>1, <2>2, <2>3
<1> QED  BY <1>1, LogAlways, PTL

\* Whatever a restart finds, after a power failure as well, has the table of every
\* index and of every row in it, so that open_db does not refuse it for them.
THEOREM CatalogStaysWhole == Spec => []CatalogIsWhole
<1>1. LogInv /\ TailsInv => CatalogIsWhole
  <2> SUFFICES ASSUME LogInv, TailsInv, NEW l \in {log, Redo(log, pending)} \cup tails
               PROVE  /\ l.indexes \subseteq l.tables
                      /\ \A t \in Tables : l.rows[t] # NoRows => t \in l.tables
    BY DEF CatalogIsWhole
  <2>1. l \in Logs /\ Whole(l)
    BY OpenedIs
  <2>2. ASSUME NEW t \in Tables, l.rows[t] # NoRows PROVE t \in l.tables
    <3>1. l.rows[t] \in Tabs
      BY <2>1 DEF Logs
    <3>2. l.rows[t] = [i \in DOMAIN l.rows[t] |-> l.rows[t][i]]
      BY <3>1, TabIs
    <3>3. DOMAIN l.rows[t] # {}
      BY <2>2, <3>2 DEF NoRows
    <3> QED  BY <2>1, <3>3 DEF Whole
  <2> QED  BY <2>1, <2>2 DEF Whole
<1> QED  BY <1>1, LogAlways, PTL

----------------------------------------------------------------------------
(* Rows in order.                                                          *)

Below(S, i) == {j \in S : j < i}

\* Nth numbers a finite set without gaps.
LEMMA NthIs ==
  ASSUME NEW S \in SUBSET Nat, IsFiniteSet(S)
  PROVE  /\ Cardinality(S) \in Nat
         /\ \A n \in 1..Cardinality(S) : Nth(S, n) \in S
         /\ \A i \in S : \E n \in 1..Cardinality(S) : Nth(S, n) = i
         /\ \A n, m \in 1..Cardinality(S) : Nth(S, n) = Nth(S, m) => n = m
         /\ \A i \in S : /\ Cardinality(Below(S, i)) + 1 \in 1..Cardinality(S)
                        /\ Nth(S, Cardinality(Below(S, i)) + 1) = i
<1> DEFINE N == Cardinality(S)
           card(i) == Cardinality(Below(S, i))
           rank == [i \in S |-> card(i) + 1]
<1>1. N \in Nat
  BY FS_CardinalityType
<1>2. ASSUME NEW i
      PROVE  /\ Below(S, i) \in SUBSET S /\ IsFiniteSet(Below(S, i)) /\ card(i) \in Nat
  <2>1. Below(S, i) \in SUBSET S
    BY DEF Below
  <2>2. IsFiniteSet(Below(S, i))
    BY <2>1, FS_Subset
  <2> QED  BY <2>1, <2>2, FS_CardinalityType
<1>3. ASSUME NEW i \in S PROVE card(i) < N
  <2>1. Below(S, i) \in SUBSET S /\ Below(S, i) # S
    BY <1>2 DEF Below
  <2>2. card(i) <= N /\ card(i) # N
    BY <2>1, FS_Subset
  <2> QED  BY <1>1, <1>2, <2>2
<1>4. ASSUME NEW i \in S, NEW k \in S, i < k PROVE card(i) < card(k)
  <2>1. Below(S, i) \in SUBSET Below(S, k) /\ Below(S, i) # Below(S, k)
    <3>1. i \in Nat /\ k \in Nat /\ \A j \in S : j \in Nat
      OBVIOUS
    <3>2. \A j \in S : j < i => j < k
      BY <1>4, <3>1
    <3>3. i \in Below(S, k) /\ i \notin Below(S, i)
      BY <1>4, <3>1 DEF Below
    <3>4. \A j \in Below(S, i) : j \in Below(S, k)
      BY <3>2 DEF Below
    <3> QED  BY <3>3, <3>4
  <2>2. card(i) <= card(k) /\ card(i) # card(k)
    BY <1>2, <2>1, FS_Subset
  <2> QED  BY <1>2, <2>2
<1> HIDE DEF card, N
<1>5. rank \in [S -> 1..N]
  BY <1>1, <1>2, <1>3
<1>6. \A i, k \in S : rank[i] = rank[k] => i = k
  <2> SUFFICES ASSUME NEW i \in S, NEW k \in S, i # k PROVE rank[i] # rank[k]
    OBVIOUS
  <2>1. i < k \/ k < i
    OBVIOUS
  <2> QED  BY <1>2, <1>4, <2>1
<1>7. \A i \in S : rank[i] = card(i) + 1
  OBVIOUS
<1> HIDE DEF rank
<1>8. rank \in Injection(S, 1..N)
  BY <1>5, <1>6 DEF Injection, IsInjective
<1>9. IsFiniteSet(1..N) /\ Cardinality(1..N) = N
  BY <1>1, FS_Interval
<1>10. rank \in Surjection(S, 1..N)
  BY <1>8, <1>9, FS_Injection DEF N
<1>11. \A n \in 1..N : \E i \in S : rank[i] = n
  BY <1>10 DEF Surjection
<1>12. ASSUME NEW n \in 1..N PROVE Nth(S, n) \in S /\ rank[Nth(S, n)] = n
  <2>1. Nth(S, n) = CHOOSE i \in S : card(i) = n - 1
    BY DEF Nth, card, Below
  <2>2. \E i \in S : card(i) = n - 1
    BY <1>2, <1>7, <1>11
  <2>3. Nth(S, n) \in S /\ card(Nth(S, n)) = n - 1
    BY <2>1, <2>2
  <2>4. \A i \in S : card(i) = n - 1 => rank[i] = n
    BY <1>1, <1>7
  <2> QED  BY <2>3, <2>4
<1>13. ASSUME NEW i \in S PROVE card(i) + 1 \in 1..N /\ Nth(S, card(i) + 1) = i
  <2>1. rank[i] \in 1..N
    BY <1>5
  <2>2. Nth(S, rank[i]) = i
    BY <1>6, <1>12, <2>1
  <2> QED  BY <1>7, <2>1, <2>2
<1>14. \A n, m \in 1..N : Nth(S, n) = Nth(S, m) => n = m
  BY <1>12
<1>15. \A i \in S : \E n \in 1..N : Nth(S, n) = i
  BY <1>13
<1> QED  BY <1>1, <1>12, <1>13, <1>14, <1>15 DEF N, card

\* f gives no two numbers of S the same.
OneToOne(f, S) == \A i, k \in S : f[i] = f[k] => i = k

\* s consists of what f gives the numbers of S.
Gives(s, f, S) == \A x : x \in ToSet(s) <=> \E i \in S : x = f[i]

LEMMA ListedIs ==
  ASSUME NEW S \in SUBSET Nat, IsFiniteSet(S), NEW T, NEW f, \A i \in S : f[i] \in T
  PROVE  /\ Listed(f, S) \in Seq(T)
         /\ Gives(Listed(f, S), f, S)
         /\ OneToOne(f, S) => IsInjective(Listed(f, S))
<1> DEFINE N == Cardinality(S)
           at(n) == Nth(S, n)
           s == Listed(f, S)
<1>1. /\ N \in Nat
      /\ \A n \in 1..N : at(n) \in S
      /\ \A i \in S : \E n \in 1..N : at(n) = i
      /\ \A n, m \in 1..N : at(n) = at(m) => n = m
  BY NthIs
<1>2. s = [m \in 1..N |-> f[at(m)]]
  BY DEF Listed
<1> HIDE DEF N, at, s
<1>3. s \in Seq(T)
  <2>1. s \in [1..N -> T]
    BY <1>1, <1>2
  <2> QED  BY <1>1, <2>1
<1>4. DOMAIN s = 1..N /\ \A n \in 1..N : s[n] = f[at(n)]
  BY <1>2
<1>5. \A x : x \in ToSet(s) <=> \E n \in 1..N : x = f[at(n)]
  BY <1>4 DEF ToSet
<1>6. Gives(s, f, S)
  BY <1>1, <1>5 DEF Gives
<1>7. ASSUME OneToOne(f, S) PROVE IsInjective(s)
  <2> SUFFICES ASSUME NEW a \in 1..N, NEW b \in 1..N, s[a] = s[b] PROVE a = b
    BY <1>4 DEF IsInjective
  <2>1. f[at(a)] = f[at(b)] /\ at(a) \in S /\ at(b) \in S
    BY <1>1, <1>4
  <2>2. at(a) = at(b)
    BY <1>7, <2>1 DEF OneToOne
  <2> QED  BY <1>1, <2>2
<1> QED  BY <1>3, <1>6, <1>7 DEF s

----------------------------------------------------------------------------
(* Indexes and pages as what they are made of.                             *)

\* Both without anything twice or anything that is not in rows, and whole if
\* nothing was left out.
IndexOk(bag, rows, whole) ==
  /\ bag = SetToBag(DOMAIN bag)
  /\ DOMAIN bag \subseteq Keyed(rows)
  /\ whole => DOMAIN bag = Keyed(rows)

PagesOk(list, rows, whole) ==
  /\ list \in Seq(Rows) /\ IsInjective(list)
  /\ ToSet(list) \subseteq Range(rows)
  /\ whole => ToSet(list) = Range(rows)

\* Every row is stored under the number of its id.
Numbered(f) == \A i \in DOMAIN f : f[i].id = i + 1

LEMMA KeyedIs ==
  ASSUME NEW f, NEW x
  PROVE  x \in Keyed(f) <=> \E i \in DOMAIN f : f[i].int # NULL /\ x = <<f[i].int, i>>
BY DEF Keyed

LEMMA OverIs ==
  ASSUME NEW f, NEW g, DOMAIN f \cap DOMAIN g = {}
  PROVE  /\ DOMAIN Over(f, g) = DOMAIN f \cup DOMAIN g
         /\ \A i \in DOMAIN f : Over(f, g)[i] = f[i]
         /\ \A i \in DOMAIN g : Over(f, g)[i] = g[i]
BY DEF Over

\* The index of rows that come to others.
LEMMA IndexJoin ==
  ASSUME NEW f \in Tabs, NEW g \in Tabs, DOMAIN f \cap DOMAIN g = {},
         NEW bag, NEW whole \in BOOLEAN, IndexOk(bag, g, whole),
         NEW S, S \subseteq Keyed(f), NEW all \in BOOLEAN, all => S = Keyed(f)
  PROVE  IndexOk(bag (+) SetToBag(S), Over(f, g), whole /\ all)
<1> DEFINE h == Over(f, g)  D == DOMAIN bag
<1>1. /\ DOMAIN h = DOMAIN f \cup DOMAIN g
      /\ \A i \in DOMAIN f : h[i] = f[i]
      /\ \A i \in DOMAIN g : h[i] = g[i]
  BY OverIs
<1> HIDE DEF h
<1>2. \A x : x \in Keyed(h) <=> x \in Keyed(f) \/ x \in Keyed(g)
  BY <1>1, KeyedIs
<1>3. \A x : ~ (x \in Keyed(f) /\ x \in Keyed(g))
  BY KeyedIs
<1>4. bag = SetToBag(D) /\ D \subseteq Keyed(g) /\ (whole => D = Keyed(g))
  BY DEF IndexOk
<1> HIDE DEF D
<1>5. D \cap S = {}
  BY <1>3, <1>4
<1>6. /\ SetToBag(D) (+) SetToBag(S) = SetToBag(D \cup S)
      /\ DOMAIN SetToBag(D \cup S) = D \cup S
  BY <1>5 DEF SetToBag, (+)
<1>7. D \cup S \subseteq Keyed(h) /\ (whole /\ all => D \cup S = Keyed(h))
  BY <1>2, <1>4
<1>8. IndexOk(SetToBag(D \cup S), h, whole /\ all)
  BY <1>6, <1>7 DEF IndexOk
<1> QED  BY <1>4, <1>6, <1>8 DEF h

\* The pages of rows that come to others.
LEMMA PagesJoin ==
  ASSUME NEW f \in Tabs, NEW g \in Tabs, DOMAIN f \cap DOMAIN g = {},
         Numbered(f), Numbered(g),
         NEW list, NEW whole \in BOOLEAN, PagesOk(list, g, whole),
         NEW more, NEW all \in BOOLEAN, PagesOk(more, f, all)
  PROVE  PagesOk(list \o more, Over(f, g), whole /\ all)
<1> DEFINE h == Over(f, g)  c == list \o more
<1>1. /\ DOMAIN h = DOMAIN f \cup DOMAIN g
      /\ \A i \in DOMAIN f : h[i] = f[i]
      /\ \A i \in DOMAIN g : h[i] = g[i]
  BY OverIs
<1>2. /\ list \in Seq(Rows) /\ more \in Seq(Rows)
      /\ IsInjective(list) /\ IsInjective(more)
      /\ ToSet(list) \subseteq Range(g) /\ ToSet(more) \subseteq Range(f)
      /\ whole => ToSet(list) = Range(g)
      /\ all => ToSet(more) = Range(f)
  BY DEF PagesOk
<1>3. /\ c \in Seq(Rows) /\ Len(list) \in Nat /\ Len(more) \in Nat
      /\ DOMAIN list = 1..Len(list) /\ DOMAIN more = 1..Len(more)
      /\ DOMAIN c = 1..(Len(list) + Len(more))
      /\ \A n \in DOMAIN c :
           c[n] = IF n <= Len(list) THEN list[n] ELSE more[n - Len(list)]
  BY <1>2
<1> HIDE DEF h, c
<1>4. \A x : x \in Range(h) <=> x \in Range(f) \/ x \in Range(g)
  BY <1>1 DEF Range
<1>5. \A x : ~ (x \in Range(f) /\ x \in Range(g))
  <2> SUFFICES ASSUME NEW i \in DOMAIN f, NEW j \in DOMAIN g, f[i] = g[j] PROVE FALSE
    BY DEF Range
  <2>1. i \in Nat /\ j \in Nat /\ i + 1 = j + 1
    BY TabIs DEF Numbered
  <2> QED  BY <2>1
<1>6. \A n \in DOMAIN c :
        \/ n \in DOMAIN list /\ c[n] = list[n]
        \/ n - Len(list) \in DOMAIN more /\ c[n] = more[n - Len(list)]
  BY <1>3
<1>7. /\ \A n \in DOMAIN list : n \in DOMAIN c /\ c[n] = list[n]
      /\ \A n \in DOMAIN more : n + Len(list) \in DOMAIN c /\ c[n + Len(list)] = more[n]
  BY <1>3
<1>8. \A x : x \in ToSet(c) <=> x \in ToSet(list) \/ x \in ToSet(more)
  BY <1>6, <1>7 DEF ToSet
<1>9. ASSUME NEW n \in DOMAIN c, NEW m \in DOMAIN c, c[n] = c[m] PROVE n = m
  <2>1. \A x : ~ (x \in ToSet(list) /\ x \in ToSet(more))
    BY <1>2, <1>5
  <2>2. CASE n \in DOMAIN list /\ c[n] = list[n] /\ m \in DOMAIN list /\ c[m] = list[m]
    BY <1>2, <1>9, <2>2 DEF IsInjective
  <2>3. CASE /\ n - Len(list) \in DOMAIN more /\ c[n] = more[n - Len(list)]
             /\ m - Len(list) \in DOMAIN more /\ c[m] = more[m - Len(list)]
    <3>1. n - Len(list) = m - Len(list)
      BY <1>2, <1>9, <2>3 DEF IsInjective
    <3> QED  BY <1>3, <3>1
  <2> QED  BY <1>6, <1>9, <2>1, <2>2, <2>3 DEF ToSet
<1>10. IsInjective(c)
  BY <1>9 DEF IsInjective
<1>11. /\ ToSet(c) \subseteq Range(h)
       /\ whole /\ all => ToSet(c) = Range(h)
  BY <1>2, <1>4, <1>8
<1>12. PagesOk(c, h, whole /\ all)
  BY <1>3, <1>10, <1>11 DEF PagesOk
<1> QED  BY <1>12 DEF h, c

\* The rows of a table as open_db reads them back.
LEMMA InOrderIs ==
  ASSUME NEW f \in Tabs, IsFiniteSet(DOMAIN f), Numbered(f)
  PROVE  PagesOk(InOrder(f), f, TRUE)
<1>1. DOMAIN f \in SUBSET Nat /\ \A i \in DOMAIN f : f[i] \in Rows
  BY TabIs
<1>2. PICK D : D = DOMAIN f
  OBVIOUS
<1>3. OneToOne(f, D)
  <2> SUFFICES ASSUME NEW i \in DOMAIN f, NEW k \in DOMAIN f, f[i] = f[k] PROVE i = k
    BY <1>2 DEF OneToOne
  <2>1. i \in Nat /\ k \in Nat /\ i + 1 = k + 1
    BY <1>1 DEF Numbered
  <2> QED  BY <2>1
<1>4. D \in SUBSET Nat /\ IsFiniteSet(D) /\ \A i \in D : f[i] \in Rows
  BY <1>1, <1>2
<1>5. PICK T : T = Rows
  OBVIOUS
<1>6. \A i \in D : f[i] \in T
  BY <1>4, <1>5
<1>7. D \in SUBSET Nat /\ IsFiniteSet(D)
  BY <1>4
<1>8. Listed(f, D) \in Seq(Rows)
  BY <1>5, <1>6, <1>7, ListedIs
<1>9. Gives(Listed(f, D), f, D)
  BY <1>6, <1>7, ListedIs
<1>10. IsInjective(Listed(f, D))
  BY <1>3, <1>6, <1>7, ListedIs
<1>11. InOrder(f) = Listed(f, D)
  BY <1>2 DEF InOrder
<1> QED  BY <1>2, <1>8, <1>9, <1>10, <1>11 DEF PagesOk, Range, Gives

----------------------------------------------------------------------------
(* What a commit adds.                                                     *)

\* c is the part of the batch that was reached before an error.
Part(c, b) ==
  /\ c \in Seq(Entries) /\ DOMAIN c \subseteq DOMAIN b
  /\ \A n \in DOMAIN c : c[n] = b[n]

\* The rows of the batch carry the numbers they are stored under.
Carried(b) ==
  /\ b \in Seq(Entries) /\ Distinct(b)
  /\ \A n \in DOMAIN b : b[n].row.id = b[n].rid + 1

LEMMA PartIs ==
  ASSUME NEW b, Carried(b), NEW c, Part(c, b)
  PROVE  Carried(c)
BY DEF Carried, Part, Distinct

LEMMA PartsAre ==
  ASSUME NEW b \in Seq(Entries), NEW stop \in 1..(Len(b) + 1)
  PROVE  /\ Part(Indexed(b, stop), b) /\ Part(SubSeq(b, 1, stop - 1), b)
         /\ stop > Len(b) => Indexed(b, stop) = b /\ SubSeq(b, 1, stop - 1) = b
<1>1. /\ Len(b) \in Nat /\ DOMAIN b = 1..Len(b) /\ stop \in Nat
      /\ \A n \in 1..Len(b) : b[n] \in Entries
      /\ b = [n \in 1..Len(b) |-> b[n]]
  OBVIOUS
<1>2. PICK k \in Nat : /\ k <= Len(b) /\ 1..k = 1..Len(b) \cap 1..stop
                       /\ stop > Len(b) => k = Len(b)
  <2>1. CASE stop <= Len(b)
    <3>1. 1..stop = 1..Len(b) \cap 1..stop
      BY <1>1, <2>1
    <3> QED  BY <1>1, <2>1, <3>1
  <2>2. CASE stop > Len(b)
    <3>1. 1..Len(b) = 1..Len(b) \cap 1..stop
      BY <1>1, <2>2
    <3> QED  BY <1>1, <2>2, <3>1
  <2> QED  BY <1>1, <2>1, <2>2
<1>3. Indexed(b, stop) = [n \in 1..k |-> b[n]]
  BY <1>1, <1>2 DEF Indexed
<1>4. [n \in 1..k |-> b[n]] \in Seq(Entries)
  BY <1>1, <1>2
<1>5. Part(Indexed(b, stop), b)
  BY <1>1, <1>2, <1>3, <1>4 DEF Part
<1>6. stop - 1 \in Nat /\ stop - 1 <= Len(b) /\ (stop > Len(b) => stop - 1 = Len(b))
  BY <1>1
<1>7. PICK m \in Nat : m = stop - 1
  BY <1>6
<1>8. /\ SubSeq(b, 1, m) \in Seq(Entries) /\ DOMAIN SubSeq(b, 1, m) = 1..m
      /\ \A n \in 1..m : SubSeq(b, 1, m)[n] = b[n]
      /\ SubSeq(b, 1, m) = [n \in 1..m |-> b[n]]
  BY <1>1, <1>6, <1>7
<1>9. Part(SubSeq(b, 1, m), b)
  BY <1>1, <1>6, <1>7, <1>8 DEF Part
<1>10. stop > Len(b) => Indexed(b, stop) = b /\ SubSeq(b, 1, m) = b
  BY <1>1, <1>2, <1>3, <1>6, <1>7, <1>8
<1> QED  BY <1>5, <1>7, <1>9, <1>10

LEMMA ByIdNumbered ==
  ASSUME NEW b, Carried(b), NEW t \in Tables
  PROVE  ById(b, t) \in Tabs /\ Numbered(ById(b, t))
<1>1. b \in Seq(Entries) /\ Distinct(b) /\ \A n \in DOMAIN b : b[n].row.id = b[n].rid + 1
  BY DEF Carried
<1>2. ASSUME NEW i \in DOMAIN ById(b, t) PROVE ById(b, t)[i].id = i + 1
  <2>1. PICK n \in DOMAIN b : b[n].table = t /\ b[n].rid = i
    BY <1>1, ByIdIs DEF Keys
  <2> QED  BY <1>1, <2>1, ByIdIs
<1> QED  BY <1>1, <1>2, ByIdIs DEF Numbered

LEMMA PartKeyed ==
  ASSUME NEW b, Carried(b), NEW c, Part(c, b), NEW t \in Tables
  PROVE  Keyed(ById(c, t)) \subseteq Keyed(ById(b, t))
<1>1. /\ b \in Seq(Entries) /\ Distinct(b) /\ c \in Seq(Entries) /\ Distinct(c)
      /\ DOMAIN c \subseteq DOMAIN b /\ \A n \in DOMAIN c : c[n] = b[n]
  BY PartIs DEF Carried, Part
<1>2. ASSUME NEW i \in DOMAIN ById(c, t)
      PROVE  i \in DOMAIN ById(b, t) /\ ById(c, t)[i] = ById(b, t)[i]
  <2>1. PICK n \in DOMAIN c : c[n].table = t /\ c[n].rid = i
    BY <1>1, ByIdIs DEF Keys
  <2>2. n \in DOMAIN b /\ b[n].table = t /\ b[n].rid = i /\ Keys(b, t, i)
    BY <1>1, <2>1 DEF Keys
  <2>3. ById(c, t)[i] = c[n].row /\ ById(b, t)[i] = b[n].row
    BY <1>1, <2>1, <2>2, ByIdIs
  <2> QED  BY <1>1, <2>2, <2>3, ByIdIs
<1> QED  BY <1>2, KeyedIs

LEMMA RowsOfIs ==
  ASSUME NEW b, Carried(b), NEW c, Part(c, b), NEW t \in Tables,
         NEW all \in BOOLEAN, all => c = b
  PROVE  PagesOk(RowsOf(c, t), ById(b, t), all)
<1>1. /\ b \in Seq(Entries) /\ Distinct(b) /\ c \in Seq(Entries) /\ Distinct(c)
      /\ DOMAIN c \subseteq DOMAIN b /\ \A n \in DOMAIN c : c[n] = b[n]
      /\ \A n \in DOMAIN c : c[n].row.id = c[n].rid + 1 /\ c[n] \in Entries
  BY PartIs DEF Carried, Part
<1> DEFINE P == Places(c, t)
           f == [n \in DOMAIN c |-> c[n].row]
<1>2. \A n : n \in P <=> n \in DOMAIN c /\ c[n].table = t
  BY DEF Places
<1>3. P \in SUBSET Nat /\ IsFiniteSet(P)
  <2>1. Len(c) \in Nat /\ DOMAIN c = 1..Len(c)
    BY <1>1
  <2>2. IsFiniteSet(1..Len(c)) /\ P \in SUBSET (1..Len(c))
    BY <1>2, <2>1, FS_Interval
  <2> QED  BY <2>2, FS_Subset
<1>4. \A n \in DOMAIN c : f[n] = c[n].row
  OBVIOUS
<1>5. RowsOf(c, t) = Listed(f, P)
  BY DEF RowsOf
<1> HIDE DEF P, f
<1>6. \A n \in P : f[n] \in Rows
  BY <1>1, <1>2, <1>4 DEF Entries
<1>7. OneToOne(f, P)
  <2> SUFFICES ASSUME NEW n \in P, NEW m \in P, f[n] = f[m] PROVE n = m
    BY DEF OneToOne
  <2>1. /\ c[n] \in Entries /\ c[n].row.id = c[n].rid + 1 /\ f[n] = c[n].row /\ c[n].table = t
        /\ c[m] \in Entries /\ c[m].row.id = c[m].rid + 1 /\ f[m] = c[m].row /\ c[m].table = t
    BY <1>1, <1>2, <1>4
  <2>2. c[n].rid \in Nat /\ c[m].rid \in Nat /\ c[n].rid + 1 = c[m].rid + 1
    BY <2>1 DEF Entries
  <2>3. SameKey(c[n], c[m])
    BY <2>1, <2>2 DEF SameKey
  <2> QED  BY <1>1, <1>2, <2>3 DEF Distinct
<1>8. /\ Listed(f, P) \in Seq(Rows) /\ IsInjective(Listed(f, P))
      /\ Gives(Listed(f, P), f, P)
  BY <1>3, <1>6, <1>7, ListedIs
<1>9. ASSUME NEW n \in P
      PROVE  f[n] \in Range(ById(b, t))
  <2>1. n \in DOMAIN b /\ b[n].table = t /\ f[n] = b[n].row /\ Keys(b, t, b[n].rid)
    BY <1>1, <1>2, <1>4 DEF Keys
  <2>2. b[n].rid \in DOMAIN ById(b, t) /\ ById(b, t)[b[n].rid] = f[n]
    BY <1>1, <2>1, ByIdIs
  <2> QED  BY <2>2 DEF Range
<1>10. ASSUME c = b, NEW x \in Range(ById(b, t))
       PROVE  \E n \in P : x = f[n]
  <2>1. PICK i \in DOMAIN ById(b, t) : x = ById(b, t)[i]
    BY DEF Range
  <2>2. PICK n \in DOMAIN b : b[n].table = t /\ b[n].rid = i
    BY <1>1, <2>1, ByIdIs DEF Keys
  <2>3. x = b[n].row
    BY <1>1, <2>1, <2>2, ByIdIs
  <2> QED  BY <1>2, <1>4, <1>10, <2>2, <2>3
<1>11. /\ ToSet(Listed(f, P)) \subseteq Range(ById(b, t))
       /\ c = b => ToSet(Listed(f, P)) = Range(ById(b, t))
  BY <1>8, <1>9, <1>10 DEF Gives
<1> QED  BY <1>5, <1>8, <1>11 DEF PagesOk

----------------------------------------------------------------------------
(* Indexes and pages follow the committed rows.                            *)

MatInv ==
  /\ DOMAIN index \subseteq Tables /\ missed \in BOOLEAN
  /\ \A t \in DOMAIN index : IndexOk(index[t], live.rows[t], ~ missed)
  /\ \A t \in Tables : PagesOk(pages[t], live.rows[t], ~ missed)

LEMMA LiveRows ==
  ASSUME LogInv, NEW t \in Tables
  PROVE  /\ live.rows[t] \in Tabs /\ Numbered(live.rows[t])
         /\ \A i \in DOMAIN live.rows[t] : Held(t, i, live.rows[t][i])
<1>1. live.rows[t] \in Tabs
  BY DEF LogInv, LogShape, Shown
<1>2. \A i \in DOMAIN live.rows[t] : Held(t, i, live.rows[t][i])
  BY DEF LogInv, Held
<1> QED  BY <1>1, <1>2 DEF LogInv, Numbered

\* A step that leaves committed rows, pages and indexes alone.
LEMMA MatFrame ==
  ASSUME MatInv, live'.rows = live.rows, UNCHANGED <<pages, missed>>,
         DOMAIN index' \subseteq DOMAIN index, \A t \in DOMAIN index' : index'[t] = index[t]
  PROVE  MatInv'
BY DEF MatInv

LEMMA MatCommit ==
  ASSUME LogInv, MatInv, NEW b, NewBatch(b), NEW stop \in 1..(Len(b) + 1), FinishCommit(b, stop)
  PROVE  MatInv'
<1>1. /\ Carried(b) /\ b \in Seq(Entries) /\ Distinct(b) /\ \A n \in DOMAIN b : Free(b[n])
      /\ Len(b) \in Nat
  BY DEF NewBatch, Carried, Free
<1> DEFINE done == Indexed(b, stop)
           paged == SubSeq(b, 1, stop - 1)
           all == stop > Len(b)
<1>2. /\ index' = [t \in DOMAIN index |-> index[t] (+) SetToBag(Keyed(ById(done, t)))]
      /\ pages' = [t \in Tables |-> pages[t] \o RowsOf(paged, t)]
      /\ missed' = (missed \/ stop <= Len(b))
      /\ live' = [live EXCEPT !.rows = [t \in Tables |-> Over(ById(b, t), @[t])]]
  BY DEF FinishCommit, Apply
<1>3. /\ all \in BOOLEAN /\ (~ missed) \in BOOLEAN /\ missed' \in BOOLEAN
      /\ (~ missed') = (~ missed /\ all)
  <2>1. missed \in BOOLEAN /\ all \in BOOLEAN
    BY DEF MatInv
  <2>2. (stop <= Len(b)) = (~ all)
    BY <1>1
  <2> HIDE DEF all
  <2>3. missed' = (missed \/ ~ all)
    BY <1>2, <2>2, Zenon
  <2>4. missed' \in BOOLEAN
    BY <2>1, <2>3, Zenon
  <2>5. (~ missed') = (~ missed /\ all)
    BY <2>3
  <2> QED  BY <2>1, <2>4, <2>5
<1>4. Part(done, b) /\ Part(paged, b) /\ (all => done = b /\ paged = b)
  BY <1>1, PartsAre
<1> HIDE DEF done, paged, all
<1>5. \A t \in Tables : live'.rows[t] = Over(ById(b, t), live.rows[t])
  BY <1>2 DEF LogInv, LogShape, Shown
<1>6. ASSUME NEW t \in Tables
      PROVE  /\ IndexOk(index[t], live.rows[t], ~ missed) =>
                  IndexOk(index[t] (+) SetToBag(Keyed(ById(done, t))),
                          live'.rows[t], ~ missed /\ all)
             /\ PagesOk(pages[t] \o RowsOf(paged, t), live'.rows[t], ~ missed /\ all)
  <2> DEFINE f == ById(b, t)  g == live.rows[t]
             S == Keyed(ById(done, t))
             more == RowsOf(paged, t)
             bag == index[t]
             list == pages[t]
             whole == ~ missed
  <2>1. f \in Tabs /\ Numbered(f)
    BY <1>1, ByIdNumbered
  <2>2. g \in Tabs /\ Numbered(g) /\ \A i \in DOMAIN g : Held(t, i, g[i])
    BY LiveRows
  <2>3. DOMAIN f \cap DOMAIN g = {}
    <3> SUFFICES ASSUME NEW i \in DOMAIN f, i \in DOMAIN g PROVE FALSE
      OBVIOUS
    <3>1. PICK n \in DOMAIN b : b[n].table = t /\ b[n].rid = i
      BY <1>1, ByIdIs DEF Keys
    <3> QED  BY <1>1, <2>2, <3>1 DEF Free
  <2>4. S \subseteq Keyed(f) /\ (all => S = Keyed(f))
    BY <1>1, <1>4, PartKeyed
  <2>5. PagesOk(more, f, all)
    BY <1>1, <1>3, <1>4, RowsOfIs
  <2>6. PagesOk(list, g, whole)
    BY DEF MatInv
  <2>7. live'.rows[t] = Over(f, g) /\ whole \in BOOLEAN
    BY <1>3, <1>5
  <2> HIDE DEF f, g, S, more, bag, list, whole
  <2>8. PagesOk(list \o more, Over(f, g), whole /\ all)
    BY <1>3, <2>1, <2>2, <2>3, <2>5, <2>6, <2>7, PagesJoin
  <2>9. IndexOk(bag, g, whole) => IndexOk(bag (+) SetToBag(S), Over(f, g), whole /\ all)
    BY <1>3, <2>1, <2>2, <2>3, <2>4, <2>7, IndexJoin
  <2> QED  BY <2>7, <2>8, <2>9 DEF f, g, S, more, bag, list, whole
<1>7. ASSUME NEW t \in DOMAIN index' PROVE IndexOk(index'[t], live'.rows[t], ~ missed /\ all)
  <2>1. t \in DOMAIN index /\ t \in Tables /\ IndexOk(index[t], live.rows[t], ~ missed)
    BY <1>2, <1>7 DEF MatInv
  <2>2. index'[t] = index[t] (+) SetToBag(Keyed(ById(done, t)))
    BY <1>2, <2>1
  <2> QED  BY <1>6, <2>1, <2>2
<1>8. ASSUME NEW t \in Tables PROVE PagesOk(pages'[t], live'.rows[t], ~ missed /\ all)
  BY <1>2, <1>6
<1>9. DOMAIN index' \subseteq Tables
  BY <1>2 DEF MatInv
<1> QED  BY <1>3, <1>7, <1>8, <1>9 DEF MatInv

LEMMA MatCreateIndex ==
  ASSUME MatInv, NEW t \in Tables, CreateIndex(t)
  PROVE  MatInv'
<1>1. /\ t \notin DOMAIN index /\ UNCHANGED <<live, pages, missed>>
      /\ index' = Over([u \in {t} |-> Backfill(t)], index)
  BY DEF CreateIndex
<1>2. /\ DOMAIN index' = DOMAIN index \cup {t}
      /\ index'[t] = Backfill(t) /\ \A u \in DOMAIN index : index'[u] = index[u]
  BY <1>1 DEF Over
<1>3. IndexOk(Backfill(t), live.rows[t], ~ missed)
  <2>1. \A S : DOMAIN SetToBag(S) = S
    BY DEF SetToBag
  <2> QED  BY <2>1 DEF Backfill, IndexOk
<1> QED  BY <1>1, <1>2, <1>3 DEF MatInv

LEMMA MatOpen ==
  ASSUME LogInv, TxnInv, TailsInv, MatInv,
         NEW l \in {log, Redo(log, pending)} \cup tails, OpenDb(l)
  PROVE  MatInv'
<1>1. /\ live'.rows = l.rows /\ missed' = FALSE
      /\ index' = [t \in l.indexes |-> SetToBag(Keyed(l.rows[t]))]
      /\ pages' = [t \in Tables |-> IF t \in l.tables THEN InOrder(l.rows[t]) ELSE << >>]
  BY DEF OpenDb
<1>2. /\ l \in Logs /\ Whole(l)
      /\ \A t \in Tables : \A i \in DOMAIN l.rows[t] : Held(t, i, l.rows[t][i])
  BY OpenedIs
<1>3. l.indexes \subseteq Tables /\ l.rows \in [Tables -> Tabs]
  BY <1>2 DEF Logs
<1>4. ASSUME NEW t \in Tables
      PROVE  PagesOk(pages'[t], l.rows[t], TRUE)
  <2> DEFINE f == l.rows[t]
  <2>1. f \in Tabs /\ Numbered(f) /\ nextRid[t] \in Nat /\ \A i \in DOMAIN f : i < nextRid[t]
    BY <1>2, <1>3 DEF LogInv, TxnInv, Numbered
  <2> HIDE DEF f
  <2>2. IsFiniteSet(DOMAIN f)
    <3>1. DOMAIN f \in SUBSET Nat
      BY <2>1, TabIs
    <3>2. \A i \in DOMAIN f : i <= nextRid[t]
      BY <2>1, <3>1
    <3> QED  BY <2>1, <3>1, <3>2, FS_BoundedSetOfNaturals
  <2>3. CASE t \in l.tables
    BY <1>1, <2>1, <2>2, <2>3, InOrderIs DEF f
  <2>4. CASE t \notin l.tables
    <3>1. DOMAIN f = {} /\ pages'[t] = << >>
      BY <1>1, <1>2, <2>4 DEF Whole, f
    <3>2. PagesOk(<< >>, f, TRUE)
      BY <3>1 DEF PagesOk, IsInjective, ToSet, Range
    <3> QED  BY <3>1, <3>2 DEF f
  <2> QED  BY <2>3, <2>4
<1>5. ASSUME NEW t \in l.indexes PROVE IndexOk(index'[t], l.rows[t], TRUE)
  <2>1. \A S : DOMAIN SetToBag(S) = S
    BY DEF SetToBag
  <2>2. index'[t] = SetToBag(Keyed(l.rows[t]))
    BY <1>1
  <2> QED  BY <2>1, <2>2 DEF IndexOk
<1> QED  BY <1>1, <1>3, <1>4, <1>5 DEF MatInv

LEMMA MatStep == LogInv /\ TxnInv /\ TailsInv /\ MatInv /\ [Next]_vars => MatInv'
<1> SUFFICES ASSUME LogInv, TxnInv, TailsInv, MatInv, [Next]_vars PROVE MatInv'
  OBVIOUS
<1>1. ASSUME NEW b, NewBatch(b),
             \/ \E stop \in 1..(Len(b) + 1) : FinishCommit(b, stop)
             \/ \E fault \in LogFaults : FinishFails(b, fault)
      PROVE  MatInv'
  <2>1. ASSUME NEW fault \in LogFaults, FinishFails(b, fault) PROVE MatInv'
    BY <2>1, MatFrame DEF FinishFails, Derived
  <2> QED  BY <1>1, <2>1, MatCommit
<1>2. ASSUME NEW b, NEW S, b \in Seq(S) PROVE Stops(b) \subseteq 1..(Len(b) + 1)
  BY <1>2 DEF Stops
<1>3. ASSUME NEW t \in Tables, CreateTable(t) PROVE MatInv'
  <2>1. live'.rows = live.rows
    BY <1>3 DEF CreateTable, LogInv, LogShape, Shown
  <2> QED  BY <1>3, <2>1, MatFrame DEF CreateTable
<1>4. ASSUME NEW t \in Tables, DropIndex(t) PROVE MatInv'
  BY <1>4, MatFrame DEF DropIndex
<1>5. ASSUME NEW t \in Tables, NEW v \in RowValues, NEW w \in RowValues, InsertAutocommit(t, <<v, w>>)
      PROVE  MatInv'
  <2>0. <<v, w>> \in Seq(RowValues)
    OBVIOUS
  <2>1. PICK vals \in Seq(RowValues) : vals = <<v, w>>
    BY <2>0, Zenon
  <2>2. InsertAutocommit(t, vals)
    BY <1>5, <2>1
  <2>3. NewBatch(Statement(t, vals))
    BY <2>2, NumberIs, StatementIsNew DEF InsertAutocommit
  <2>4. Statement(t, vals) \in Seq(Entries) /\ Len(Statement(t, vals)) = Len(vals)
    BY <2>3 DEF NewBatch, Statement
  <2>5. Stops(vals) \subseteq 1..(Len(Statement(t, vals)) + 1)
    BY <1>2, <2>4
  <2> QED  BY <1>1, <2>2, <2>3, <2>5 DEF InsertAutocommit
<1>6. ASSUME NEW s \in Sessions, Commit(s) PROVE MatInv'
  <2>1. NewBatch(txn[s]) /\ txn[s] \in Seq(Entries)
    BY <1>6, BufferedIsNew DEF Commit, NewBatch
  <2>2. Stops(txn[s]) \subseteq 1..(Len(txn[s]) + 1)
    BY <1>2, <2>1
  <2>3. ASSUME UNCHANGED <<live, Derived>> PROVE MatInv'
    BY <2>3, MatFrame DEF Derived
  <2> QED  BY <1>1, <1>6, <2>1, <2>2, <2>3 DEF Commit
<1>7. ASSUME UNCHANGED <<live, index, pages, missed>> PROVE MatInv'
  BY <1>7, MatFrame
<1>8. ASSUME Reopen PROVE MatInv'
  BY <1>8, ReopenIs, MatOpen
<1>9. ASSUME NEW t \in Tables, NEW v \in RowValues, NEW s \in Sessions, InsertInTxn(s, t, <<v>>)
      PROVE  MatInv'
  BY <1>7, <1>9 DEF InsertInTxn, Derived
<1>10. ASSUME NEW s \in Sessions, Begin(s) \/ Rollback(s) PROVE MatInv'
  BY <1>7, <1>10 DEF Begin, Rollback, Derived
<1>11. ASSUME NEW fault \in LogFaults, DdlFails(fault) PROVE MatInv'
  BY <1>7, <1>11 DEF DdlFails, Derived
<1>12. ASSUME WithColumnar PROVE MatInv'
  BY <1>7, <1>12 DEF WithColumnar
<1>13. ASSUME NEW failed, NEW fault, FlushToColumnar(failed, fault) PROVE MatInv'
  <2>1. UNCHANGED <<engineVars, missed, captured>>
    BY <1>13, Zenon DEF FlushToColumnar
  <2> QED  BY <1>7, <2>1 DEF engineVars
<1>14. ASSUME UNCHANGED vars PROVE MatInv'
  BY <1>7, <1>14 DEF vars, engineVars
<1> QED
  BY <1>3, <1>4, <1>5, <1>6, <1>8, <1>9, <1>10, <1>11, <1>12, <1>13, <1>14, MatCreateIndex DEF Next

LEMMA MatStart == Init => MatInv
<1> SUFFICES ASSUME Init PROVE MatInv
  OBVIOUS
<1>1. /\ live.rows = [t \in Tables |-> NoRows] /\ DOMAIN index = {} /\ missed = FALSE
      /\ pages = [t \in Tables |-> << >>]
  BY DEF Init
<1>2. DOMAIN NoRows = {}
  BY DEF NoRows
<1>3. PagesOk(<< >>, NoRows, TRUE)
  BY <1>2 DEF PagesOk, IsInjective, ToSet, Range
<1> QED  BY <1>1, <1>3 DEF MatInv

LEMMA MatAlways == Spec => []MatInv
<1>1. LogInv /\ TxnInv /\ TailsInv /\ MatInv /\ [Next]_vars => MatInv'
  BY MatStep
<1> QED  BY <1>1, LogAlways, MatStart, PTL DEF Spec

\* Whatever commits stop half-way, and whenever an index is made or the database
\* is opened again, indexes and pages have no entry twice and none without a
\* committed row, and have all of them unless a commit since the last restart
\* failed between the log and its last page.
THEOREM DerivedIsExact == Spec => []MaterialisedIsExact
<1>1. MatInv => MaterialisedIsExact
  <2> SUFFICES ASSUME MatInv PROVE MaterialisedIsExact
    OBVIOUS
  <2>1. ASSUME NEW t \in DOMAIN index
        PROVE  LET wanted == SetToBag(Keyed(live.rows[t])) IN
               index[t] \sqsubseteq wanted /\ (~ missed => index[t] = wanted)
    <3> DEFINE D == DOMAIN index[t]  W == Keyed(live.rows[t])
    <3>1. index[t] = SetToBag(D) /\ D \subseteq W /\ (~ missed => D = W)
      BY DEF MatInv, IndexOk
    <3> HIDE DEF D, W
    <3>2. SetToBag(D) \sqsubseteq SetToBag(W)
      BY <3>1 DEF SetToBag, \sqsubseteq
    <3>3. index[t] \sqsubseteq SetToBag(W) /\ (~ missed => index[t] = SetToBag(W))
      BY <3>1, <3>2
    <3> QED  BY <3>3 DEF W
  <2>2. ASSUME NEW t \in Tables
        PROVE  LET committed == Range(live.rows[t]) IN
               /\ IsInjective(pages[t])
               /\ ToSet(pages[t]) \subseteq committed
               /\ ~ missed => ToSet(pages[t]) = committed
    BY DEF MatInv, PagesOk
  <2> QED  BY <2>1, <2>2 DEF MaterialisedIsExact
<1> QED  BY <1>1, MatAlways, PTL

----------------------------------------------------------------------------
(* Encoded columns.                                                        *)

\* A bitmap and the values between its bits.
LEMMA RawReads ==
  ASSUME NEW V, NEW vals \in Seq(V)
  PROVE  DecodeRaw(Raw(vals)) = [ok |-> TRUE, vals |-> vals]
<1> DEFINE N == Len(vals)
           P == {i \in DOMAIN vals : vals[i] # NULL}
           nulls == {i \in DOMAIN vals : vals[i] = NULL}
           stored == Listed(vals, P)
           at(i) == Cardinality((1..i) \ nulls)
           got == [i \in 1..N |-> IF i \in nulls THEN NULL ELSE stored[at(i)]]
<1>1. N \in Nat /\ DOMAIN vals = 1..N /\ vals = [i \in 1..N |-> vals[i]]
  OBVIOUS
<1>2. DecodeRaw(Raw(vals)) = [ok |-> TRUE, vals |-> got]
  BY DEF DecodeRaw, Raw, NonNull
<1>3. P \in SUBSET Nat /\ IsFiniteSet(P)
  <2>1. IsFiniteSet(1..N) /\ P \in SUBSET (1..N)
    BY <1>1, FS_Interval
  <2> QED  BY <2>1, FS_Subset
<1>4. ASSUME NEW i \in 1..N, i \notin nulls PROVE stored[at(i)] = vals[i]
  <2>1. /\ i \in P /\ (1..i) \ nulls = Below(P, i) \cup {i} /\ i \notin Below(P, i)
        /\ Below(P, i) \in SUBSET P
    BY <1>1, <1>4 DEF Below
  <2> HIDE DEF P, nulls
  <2>2. IsFiniteSet(Below(P, i))
    BY <1>3, <2>1, FS_Subset
  <2>3. at(i) = Cardinality(Below(P, i)) + 1
    BY <2>1, <2>2, FS_AddElement
  <2>4. at(i) \in 1..Cardinality(P) /\ Nth(P, at(i)) = i
    BY <1>3, <2>1, <2>3, NthIs
  <2> QED  BY <2>4 DEF Listed
<1>5. \A i \in 1..N : got[i] = vals[i]
  BY <1>1, <1>4
<1>6. got = vals
  <2>1. got = [i \in 1..N |-> got[i]]
    OBVIOUS
  <2> QED  BY <1>1, <1>5, <2>1
<1> QED  BY <1>2, <1>6

\* A dictionary and the places of the values in it.
LEMMA DictReads ==
  ASSUME NEW V, NEW vals \in Seq(V)
  PROVE  DecodeDict(Dict(vals)) = [ok |-> TRUE, vals |-> vals]
<1> DEFINE N == Len(vals)
           F == {i \in DOMAIN vals : vals[i] # NULL /\ \A j \in 1..(i - 1) : vals[j] # vals[i]}
           dict == Unique(vals)
           idx == [i \in DOMAIN vals |-> IF vals[i] = NULL THEN -1 ELSE
                     CHOOSE j \in DOMAIN dict : dict[j] = vals[i]]
           got == [i \in 1..N |-> IF idx[i] \in DOMAIN dict THEN dict[idx[i]] ELSE NULL]
<1>1. N \in Nat /\ DOMAIN vals = 1..N /\ vals = [i \in 1..N |-> vals[i]]
  OBVIOUS
<1>2. F \in SUBSET Nat /\ IsFiniteSet(F)
  <2>1. IsFiniteSet(1..N) /\ F \in SUBSET (1..N)
    BY <1>1, FS_Interval
  <2> QED  BY <2>1, FS_Subset
<1>3. dict = Listed(vals, F)
  BY DEF Unique
<1>4. DecodeDict(Dict(vals)) =
        [ok |-> \A i \in DOMAIN idx : idx[i] = -1 \/ idx[i] \in DOMAIN dict, vals |-> got]
  BY DEF DecodeDict, Dict
<1> HIDE DEF F, dict
<1>5. /\ Cardinality(F) \in Nat /\ DOMAIN dict = 1..Cardinality(F)
      /\ \A m \in 1..Cardinality(F) : dict[m] = vals[Nth(F, m)]
      /\ \A i \in F : \E m \in 1..Cardinality(F) : Nth(F, m) = i
  BY <1>2, <1>3, NthIs DEF Listed
<1>6. ASSUME NEW i \in 1..N, vals[i] # NULL
      PROVE  \E j \in DOMAIN dict : dict[j] = vals[i]
  <2> DEFINE Same == {k \in 1..N : vals[k] = vals[i]}
  <2>1. Same \in SUBSET Nat /\ Same # {}
    OBVIOUS
  <2>2. PICK k \in Same : \A y \in Same : ~ (y < k)
    BY <2>1, LeastNumber
  <2>3. \A j \in 1..(k - 1) : j \in 1..N /\ j < k
    BY <1>1, <2>2
  <2>4. k \in F
    BY <1>1, <1>6, <2>2, <2>3 DEF F
  <2> QED  BY <1>5, <2>2, <2>4
<1>7. ASSUME NEW i \in 1..N
      PROVE  /\ vals[i] = NULL => idx[i] = -1
             /\ vals[i] # NULL => idx[i] \in DOMAIN dict /\ dict[idx[i]] = vals[i]
  BY <1>1, <1>6
<1>8. -1 \notin DOMAIN dict
  BY <1>5
<1>9. DOMAIN idx = 1..N
  BY <1>1
<1> HIDE DEF idx
<1>10. \A i \in DOMAIN idx : idx[i] = -1 \/ idx[i] \in DOMAIN dict
  BY <1>7, <1>9
<1>11. \A i \in 1..N : got[i] = vals[i]
  BY <1>7, <1>8
<1>12. got = vals
  <2>1. got = [i \in 1..N |-> got[i]]
    OBVIOUS
  <2> QED  BY <1>1, <1>11, <2>1
<1> QED  BY <1>4, <1>10, <1>12

Runs(V) == [len : Nat, val : V]

LEMMA RunsAre ==
  ASSUME NEW V, NEW runs \in Seq(Runs(V))
  PROVE  /\ Len(runs) \in Nat /\ DOMAIN runs = 1..Len(runs)
         /\ \A n \in 1..Len(runs) : /\ runs[n] \in Runs(V)
                                   /\ runs[n].len \in Nat /\ runs[n].val \in V
<1>1. \A n \in 1..Len(runs) : runs[n] \in Runs(V)
  OBVIOUS
<1> QED  BY <1>1 DEF Runs

\* Where runs end, run by run.
LEMMA RunEndsAre ==
  ASSUME NEW V, NEW runs \in Seq(Runs(V))
  PROVE  /\ RunEnds(runs)[0] = 0
         /\ \A n \in 1..Len(runs) : RunEnds(runs)[n] = RunEnds(runs)[n - 1] + runs[n].len
         /\ \A n \in 0..Len(runs) : RunEnds(runs)[n] \in Nat
<1> DEFINE N == Len(runs)
           step == [n \in 1..N |-> [k \in Nat |-> k + runs[n].len]]
           g == RunEnds(runs)
<1>1. N \in Nat /\ \A n \in 1..N : runs[n].len \in Nat
  BY RunsAre
<1>2. step \in [1..N -> [Nat -> Nat]]
  BY <1>1
<1>3. \A n \in 1..N : \A k \in Nat : step[n][k] = k + runs[n].len
  OBVIOUS
<1> HIDE DEF step, N
<1>4. PICK f \in [0..N -> Nat] : Follows(f, N, 0, step)
  BY <1>1, <1>2, RecursionTo
<1>5. \A n \in 1..N : f[n] = f[n - 1] + runs[n].len
  <2> TAKE n \in 1..N
  <2>1. n - 1 \in 0..N
    BY <1>1
  <2>2. f[n - 1] \in Nat
    BY <2>1
  <2> QED  BY <1>3, <1>4, <2>2 DEF Follows
<1>6. f = [n \in 0..N |-> IF n = 0 THEN 0 ELSE f[n - 1] + runs[n].len]
  <2>1. \A n \in 0..N : f[n] = IF n = 0 THEN 0 ELSE f[n - 1] + runs[n].len
    BY <1>1, <1>4, <1>5 DEF Follows
  <2> QED  BY <2>1
<1>7. g = [n \in 0..N |-> IF n = 0 THEN 0 ELSE g[n - 1] + runs[n].len]
  BY <1>6 DEF RunEnds, N
<1> HIDE DEF g
<1>8. g[0] = 0 /\ \A n \in 1..N : g[n] = g[n - 1] + runs[n].len
  BY <1>1, <1>7
<1> DEFINE T == {n \in 0..N : g[n] \in Nat}
<1>9. \A n \in 0..N : n \in T
  <2>1. 0 \in T
    BY <1>1, <1>8
  <2>2. ASSUME NEW n \in 0..(N - 1), n \in T PROVE n + 1 \in T
    <3>1. n + 1 \in 1..N /\ (n + 1) - 1 = n /\ g[n] \in Nat /\ runs[n + 1].len \in Nat
      BY <1>1, <2>2
    <3> QED  BY <1>8, <3>1
  <2> HIDE DEF T
  <2> QED  BY <1>1, <2>1, <2>2, InductionTo
<1> QED  BY <1>8, <1>9 DEF g, N

\* No run ends after the last one.
LEMMA RunEndsGrow ==
  ASSUME NEW V, NEW runs \in Seq(Runs(V))
  PROVE  \A n \in 0..Len(runs) : RunEnds(runs)[n] <= Spread(runs)
<1> DEFINE N == Len(runs)  g == RunEnds(runs)
           T == {k \in 0..N : g[N - k] <= g[N]}
<1>1. /\ N \in Nat /\ g[0] = 0 /\ \A n \in 1..N : g[n] = g[n - 1] + runs[n].len
      /\ \A n \in 0..N : g[n] \in Nat
      /\ \A m \in 1..N : runs[m].len \in Nat
  BY RunEndsAre, RunsAre
<1> HIDE DEF N, g
<1>2. 0 \in T
  BY <1>1
<1>3. ASSUME NEW k \in 0..(N - 1), k \in T PROVE k + 1 \in T
  <2>1. PICK n \in 1..N : n = N - k
    BY <1>1
  <2>2. n - 1 \in 0..N /\ n - 1 = N - (k + 1) /\ k + 1 \in 0..N /\ n \in 0..N /\ N \in 0..N
    BY <1>1, <2>1
  <2>3. /\ g[n] = g[n - 1] + runs[n].len /\ g[n] <= g[N] /\ runs[n].len \in Nat
        /\ g[n - 1] \in Nat /\ g[n] \in Nat /\ g[N] \in Nat
    BY <1>1, <1>3, <2>1, <2>2
  <2>4. g[n - 1] <= g[N]
    BY <2>3
  <2>5. g[N - (k + 1)] <= g[N]
    BY <2>2, <2>4
  <2> QED  BY <2>2, <2>5
<1> HIDE DEF T
<1>4. \A k \in 0..N : k \in T
  BY <1>1, <1>2, <1>3, InductionTo
<1>5. ASSUME NEW n \in 0..N PROVE g[n] <= g[N]
  <2>1. N - n \in 0..N /\ N - (N - n) = n
    BY <1>1
  <2>2. N - n \in T
    BY <1>4, <2>1
  <2> QED  BY <2>1, <2>2 DEF T
<1> QED  BY <1>5 DEF Spread, N, g

\* Runs that begin alike end alike.
LEMMA RunEndsAgree ==
  ASSUME NEW V, NEW p \in Seq(Runs(V)), NEW q \in Seq(Runs(V)),
         NEW k \in Nat, k <= Len(p), k <= Len(q), \A n \in 1..k : p[n].len = q[n].len
  PROVE  \A n \in 0..k : RunEnds(p)[n] = RunEnds(q)[n]
<1> DEFINE f == RunEnds(p)  g == RunEnds(q)
           T == {n \in 0..k : f[n] = g[n]}
<1>1. /\ f[0] = 0 /\ \A n \in 1..Len(p) : f[n] = f[n - 1] + p[n].len
      /\ g[0] = 0 /\ \A n \in 1..Len(q) : g[n] = g[n - 1] + q[n].len
  BY RunEndsAre
<1> HIDE DEF f, g
<1>2. 0 \in T
  BY <1>1
<1>3. ASSUME NEW n \in 0..(k - 1), n \in T PROVE n + 1 \in T
  <2>1. n + 1 \in 1..k /\ n + 1 \in 1..Len(p) /\ n + 1 \in 1..Len(q) /\ (n + 1) - 1 = n
    OBVIOUS
  <2>2. f[n] = g[n]
    BY <1>3
  <2>3. f[n + 1] = f[n] + p[n + 1].len /\ g[n + 1] = g[n] + q[n + 1].len
    BY <1>1, <2>1
  <2> QED  BY <2>1, <2>2, <2>3
<1> HIDE DEF T
<1>4. \A n \in 0..k : n \in T
  BY <1>2, <1>3, InductionTo
<1> QED  BY <1>4 DEF T, f, g

\* The run that a place falls in.
LEMMA RunAt ==
  ASSUME NEW V, NEW runs \in Seq(Runs(V)), NEW i \in 1..Spread(runs)
  PROVE  \E n \in DOMAIN runs : RunEnds(runs)[n - 1] < i /\ i <= RunEnds(runs)[n]
<1> DEFINE N == Len(runs)  g == RunEnds(runs)
           T == {n \in 1..N : i <= g[n]}
<1>1. /\ N \in Nat /\ DOMAIN runs = 1..N /\ g[0] = 0 /\ \A n \in 0..N : g[n] \in Nat
      /\ i \in 1..g[N]
  BY RunEndsAre DEF Spread
<1> HIDE DEF N, g
<1>2. g[N] \in Nat /\ i \in Nat /\ 1 <= i /\ i <= g[N]
  BY <1>1
<1>3. N # 0
  BY <1>1, <1>2
<1>4. T \in SUBSET Nat /\ N \in T
  BY <1>1, <1>2, <1>3
<1>5. PICK n \in T : \A m \in T : ~ (m < n)
  BY <1>4, LeastNumber
<1>6. n \in 1..N /\ i <= g[n] /\ n - 1 \in 0..N /\ n - 1 < n
  BY <1>1, <1>5
<1>7. n - 1 \notin T
  BY <1>5, <1>6
<1>8. g[n - 1] < i
  <2>1. CASE n = 1
    BY <1>1, <1>2, <2>1
  <2>2. CASE n # 1
    <3>1. n - 1 \in 1..N
      BY <1>1, <1>6, <2>2
    <3>2. ~ (i <= g[n - 1]) /\ g[n - 1] \in Nat
      BY <1>1, <1>7, <3>1
    <3> QED  BY <1>2, <3>2
  <2> QED  BY <2>1, <2>2
<1> QED  BY <1>1, <1>6, <1>8 DEF g

RunBooks(V) == [runs : Seq(Runs(V)), open : BOOLEAN]

LEMMA RunStepIs ==
  ASSUME NEW V, NEW s \in RunBooks(V), NEW v \in V
  PROVE  RunStep(s, v) \in RunBooks(V)
<1>1. /\ s.runs \in Seq(Runs(V)) /\ s.open \in BOOLEAN
      /\ Len(s.runs) \in Nat /\ DOMAIN s.runs = 1..Len(s.runs)
  BY DEF RunBooks
<1> DEFINE L == Len(s.runs)
           more == [s.runs EXCEPT ![L].len = @ + 1]
           new == Append(s.runs, [len |-> 1, val |-> v])
<1>2. more \in Seq(Runs(V))
  <2>1. more = [n \in 1..L |-> IF n = L THEN [s.runs[L] EXCEPT !.len = @ + 1] ELSE s.runs[n]]
    BY <1>1
  <2>2. ASSUME NEW n \in 1..L
        PROVE  s.runs[n] \in Runs(V) /\ [s.runs[n] EXCEPT !.len = @ + 1] \in Runs(V)
    <3>1. s.runs[n] \in Runs(V)
      BY <1>1
    <3> QED  BY <3>1 DEF Runs
  <2>3. more \in [1..L -> Runs(V)]
    <3>1. \A n \in 1..L : (IF n = L THEN [s.runs[L] EXCEPT !.len = @ + 1] ELSE s.runs[n]) \in Runs(V)
      BY <2>2
    <3> HIDE DEF more, L
    <3> QED  BY <2>1, <3>1
  <2> QED  BY <1>1, <2>3
<1>3. new \in Seq(Runs(V))
  BY <1>1 DEF Runs
<1> HIDE DEF more, new
<1> QED  BY <1>1, <1>2, <1>3 DEF RunStep, RunBooks, more, new

LEMMA RunStateSteps ==
  ASSUME NEW V, NEW vals \in Seq(V)
  PROVE  /\ RunStates(vals)[0] = [runs |-> << >>, open |-> FALSE]
         /\ \A n \in 1..Len(vals) :
              RunStates(vals)[n] = RunStep(RunStates(vals)[n - 1], vals[n])
<1> DEFINE N == Len(vals)
           none == [runs |-> << >>, open |-> FALSE]
           step == [n \in 1..N |-> [s \in RunBooks(V) |-> RunStep(s, vals[n])]]
           g == RunStates(vals)
<1>1. N \in Nat /\ \A n \in 1..N : vals[n] \in V
  OBVIOUS
<1>2. step \in [1..N -> [RunBooks(V) -> RunBooks(V)]]
  <2>1. \A n \in 1..N : [s \in RunBooks(V) |-> RunStep(s, vals[n])] \in [RunBooks(V) -> RunBooks(V)]
    BY <1>1, RunStepIs
  <2> QED  BY <2>1
<1>3. \A n \in 1..N : \A s \in RunBooks(V) : step[n][s] = RunStep(s, vals[n])
  OBVIOUS
<1>4. none \in RunBooks(V)
  BY DEF RunBooks
<1> HIDE DEF step, N, none
<1>5. PICK f \in [0..N -> RunBooks(V)] : Follows(f, N, none, step)
  BY <1>1, <1>2, <1>4, RecursionTo
<1>6. \A n \in 1..N : f[n] = RunStep(f[n - 1], vals[n])
  <2> TAKE n \in 1..N
  <2>1. n - 1 \in 0..N
    BY <1>1
  <2>2. f[n - 1] \in RunBooks(V)
    BY <2>1
  <2> QED  BY <1>3, <1>5, <2>2 DEF Follows
<1>7. f = [n \in 0..N |-> IF n = 0 THEN none ELSE RunStep(f[n - 1], vals[n])]
  <2>1. \A n \in 0..N : f[n] = IF n = 0 THEN none ELSE RunStep(f[n - 1], vals[n])
    BY <1>1, <1>5, <1>6 DEF Follows
  <2> QED  BY <2>1
<1>8. g = [n \in 0..N |-> IF n = 0 THEN none ELSE RunStep(g[n - 1], vals[n])]
  BY <1>7 DEF RunStates, N, none
<1> HIDE DEF g
<1>9. g[0] = none /\ \A n \in 1..N : g[n] = RunStep(g[n - 1], vals[n])
  BY <1>1, <1>8
<1> QED  BY <1>9 DEF g, N, none

\* The runs after m values: they lack a value if one of those was NULL, and are
\* those values if none was.
RunsOf(s, vals, m) ==
  /\ s.open => Len(s.runs) > 0
  /\ Spread(s.runs) <= m
  /\ (\E i \in 1..m : vals[i] = NULL) => Spread(s.runs) < m
  /\ (\A i \in 1..m : vals[i] # NULL) =>
       /\ Spread(s.runs) = m
       /\ \A n \in 1..Len(s.runs) : \A i \in 1..m :
            RunEnds(s.runs)[n - 1] < i /\ i <= RunEnds(s.runs)[n] => s.runs[n].val = vals[i]

\* One more value in the last run.
LEMMA RunGrows ==
  ASSUME NEW V, NEW p \in Seq(Runs(V)), NEW q \in Seq(Runs(V)), Len(p) > 0, Len(q) = Len(p),
         \A n \in 1..(Len(p) - 1) : q[n] = p[n],
         q[Len(p)].len = p[Len(p)].len + 1, q[Len(p)].val = p[Len(p)].val
  PROVE  /\ Spread(q) = Spread(p) + 1
         /\ \A n \in 0..(Len(p) - 1) : RunEnds(q)[n] = RunEnds(p)[n]
<1> DEFINE L == Len(p)
<1>1. L \in Nat /\ L - 1 \in Nat /\ L - 1 <= L /\ L \in 1..L /\ L - 1 \in 0..(L - 1)
  OBVIOUS
<1>2. \A n \in 1..(L - 1) : q[n].len = p[n].len
  OBVIOUS
<1> HIDE DEF L
<1>3. \A n \in 0..(L - 1) : RunEnds(q)[n] = RunEnds(p)[n]
  BY <1>1, <1>2, RunEndsAgree DEF L
<1>4. /\ RunEnds(p)[L] = RunEnds(p)[L - 1] + p[L].len
      /\ RunEnds(q)[L] = RunEnds(q)[L - 1] + q[L].len
      /\ RunEnds(p)[L - 1] \in Nat /\ p[L].len \in Nat
  <2>1. L - 1 \in 0..L /\ L = Len(p) /\ L = Len(q)
    BY <1>1 DEF L
  <2> QED  BY <1>1, <2>1, RunEndsAre, RunsAre
<1>5. RunEnds(q)[L] = RunEnds(p)[L] + 1
  <2>1. q[L].len = p[L].len + 1
    BY DEF L
  <2>2. RunEnds(q)[L - 1] = RunEnds(p)[L - 1]
    BY <1>1, <1>3
  <2> QED  BY <1>4, <2>1, <2>2
<1> QED  BY <1>3, <1>5 DEF Spread, L

\* A run of one value behind the others.
LEMMA RunStarts ==
  ASSUME NEW V, NEW p \in Seq(Runs(V)), NEW q \in Seq(Runs(V)), Len(q) = Len(p) + 1,
         \A n \in 1..Len(p) : q[n] = p[n], q[Len(q)].len = 1
  PROVE  /\ Spread(q) = Spread(p) + 1
         /\ \A n \in 0..Len(p) : RunEnds(q)[n] = RunEnds(p)[n]
<1> DEFINE L == Len(p)
<1>1. L \in Nat /\ L \in 0..L /\ L + 1 \in 1..Len(q) /\ (L + 1) - 1 = L /\ L <= Len(q)
  OBVIOUS
<1>2. \A n \in 1..L : q[n].len = p[n].len
  OBVIOUS
<1> HIDE DEF L
<1>3. \A n \in 0..L : RunEnds(q)[n] = RunEnds(p)[n]
  BY <1>1, <1>2, RunEndsAgree DEF L
<1>4. RunEnds(q)[L + 1] = RunEnds(q)[(L + 1) - 1] + q[L + 1].len
  BY <1>1, RunEndsAre
<1>5. RunEnds(q)[L + 1] = RunEnds(p)[L] + 1
  BY <1>1, <1>3, <1>4 DEF L
<1> QED  BY <1>3, <1>5 DEF Spread, L

\* One value more keeps the runs in step, in the three cases of RunStep.
LEMMA RunsOfStep ==
  ASSUME NEW V, NEW vals \in Seq(V), NEW m \in 0..(Len(vals) - 1),
         NEW s \in RunBooks(V), RunsOf(s, vals, m)
  PROVE  RunsOf(RunStep(s, vals[m + 1]), vals, m + 1)
<1> DEFINE p == s.runs  L == Len(p)  v == vals[m + 1]
           next == RunStep(s, v)  q == next.runs  K == Len(q)
           f == RunEnds(p)  g == RunEnds(q)
<1> SUFFICES RunsOf(next, vals, m + 1)
  OBVIOUS
<1>1. /\ m \in Nat /\ m + 1 \in 1..Len(vals) /\ v \in V
      /\ p \in Seq(Runs(V)) /\ L \in Nat /\ DOMAIN p = 1..L /\ s.open \in BOOLEAN
  BY DEF RunBooks
<1>2. next \in RunBooks(V) /\ q \in Seq(Runs(V)) /\ K \in Nat
  <2>1. next \in RunBooks(V)
    BY <1>1, RunStepIs
  <2> HIDE DEF next
  <2> QED  BY <2>1 DEF RunBooks
<1>3. /\ f[0] = 0 /\ \A n \in 0..L : f[n] \in Nat /\ f[n] <= Spread(p)
      /\ Spread(p) = f[L] /\ Spread(p) \in Nat
  BY <1>1, RunEndsAre, RunEndsGrow DEF Spread
<1>4. /\ \A n \in 0..K : g[n] \in Nat
      /\ Spread(q) = g[K]
  <2> HIDE DEF q
  <2> QED  BY <1>2, RunEndsAre DEF Spread
<1>5. /\ s.open => L > 0
      /\ Spread(p) <= m
      /\ (\E i \in 1..m : vals[i] = NULL) => Spread(p) < m
      /\ (\A i \in 1..m : vals[i] # NULL) =>
           /\ Spread(p) = m
           /\ \A n \in 1..L : \A i \in 1..m : f[n - 1] < i /\ i <= f[n] => p[n].val = vals[i]
  BY DEF RunsOf
<1>6. CASE v = NULL
  <2>1. next = [runs |-> p, open |-> FALSE]
    BY <1>6 DEF RunStep
  <2>2. q = p /\ ~ next.open
    BY <2>1
  <2>3. Spread(q) < m + 1 /\ m + 1 \in 1..(m + 1) /\ Spread(q) \in Nat
    BY <1>1, <1>3, <1>5, <2>2
  <2>4. ~ (\A i \in 1..(m + 1) : vals[i] # NULL)
    BY <1>6, <2>3
  <2>5. Spread(q) <= m + 1
    BY <1>1, <2>3
  <2> HIDE DEF next
  <2> QED  BY <2>2, <2>3, <2>4, <2>5 DEF RunsOf
<1>7. ASSUME v # NULL, next.open, K > 0, Spread(q) = Spread(p) + 1, q[K].val = v,
             \A n \in 1..(K - 1) : n \in 1..L /\ q[n].val = p[n].val,
             \A n \in 0..(K - 1) : n \in 0..L /\ g[n] = f[n],
             (\A i \in 1..m : vals[i] # NULL) =>
               \A i \in 1..m : f[K - 1] < i => vals[i] = v
      PROVE  RunsOf(next, vals, m + 1)
  <2> HIDE DEF next, q, K, f, g, p, L
  <2>1. Spread(q) <= m + 1
    BY <1>1, <1>3, <1>5, <1>7
  <2>2. ASSUME NEW i \in 1..(m + 1), vals[i] = NULL PROVE Spread(q) < m + 1
    <3>1. i # m + 1
      BY <1>7, <2>2 DEF v
    <3>2. i \in 1..m
      BY <1>1, <3>1
    <3>3. Spread(p) < m
      BY <1>5, <2>2, <3>2
    <3> QED  BY <1>1, <1>3, <1>7, <3>3
  <2>3. ASSUME \A i \in 1..(m + 1) : vals[i] # NULL
        PROVE  /\ Spread(q) = m + 1
               /\ \A n \in 1..K : \A i \in 1..(m + 1) :
                    g[n - 1] < i /\ i <= g[n] => q[n].val = vals[i]
    <3>1. \A i \in 1..m : vals[i] # NULL
      <4>1. \A i \in 1..m : i \in 1..(m + 1)
        BY <1>1
      <4> QED  BY <2>3, <4>1
    <3>2. Spread(p) = m
      BY <1>5, <3>1
    <3>3. ASSUME NEW n \in 1..K, NEW i \in 1..(m + 1), g[n - 1] < i, i <= g[n]
          PROVE  q[n].val = vals[i]
      <4>1. CASE n # K
        <5>1. n \in 1..(K - 1) /\ n \in 0..(K - 1) /\ n - 1 \in 0..(K - 1)
          BY <1>2, <4>1
        <5>2. n \in 1..L /\ n \in 0..L /\ q[n].val = p[n].val /\ g[n] = f[n] /\ g[n - 1] = f[n - 1]
          BY <1>7, <5>1
        <5>3. i <= m
          <6>1. f[n] <= Spread(p) /\ f[n] \in Nat
            BY <1>3, <5>2
          <6> QED  BY <1>1, <3>2, <3>3, <5>2, <6>1
        <5>4. i \in 1..m
          BY <1>1, <5>3
        <5>5. f[n - 1] < i /\ i <= f[n]
          BY <3>3, <5>2
        <5> QED  BY <1>5, <3>1, <5>2, <5>4, <5>5
      <4>2. CASE n = K
        <5>1. K - 1 \in 0..(K - 1)
          BY <1>2, <1>7
        <5>2. f[K - 1] < i
          BY <1>7, <3>3, <4>2, <5>1
        <5>3. CASE i = m + 1
          BY <1>7, <4>2, <5>3 DEF v
        <5>4. CASE i # m + 1
          <6>1. i \in 1..m
            BY <1>1, <5>4
          <6> QED  BY <1>7, <3>1, <4>2, <5>2, <6>1
        <5> QED  BY <5>3, <5>4
      <4> QED  BY <4>1, <4>2
    <3>4. Spread(q) = m + 1
      BY <1>7, <3>2
    <3> QED  BY <3>3, <3>4
  <2> QED  BY <1>7, <2>1, <2>2, <2>3 DEF RunsOf, q, K, g
<1>8. CASE v # NULL /\ s.open /\ p[L].val = v
  <2> DEFINE more == [p EXCEPT ![L].len = @ + 1]
  <2>1. next = [runs |-> more, open |-> TRUE]
    BY <1>8 DEF RunStep
  <2>2. q = more /\ next.open
    BY <2>1
  <2>3. L \in 1..L /\ L > 0 /\ L - 1 \in Nat
    BY <1>1, <1>5, <1>8
  <2>4. p[L] \in Runs(V)
    BY <1>1, <2>3
  <2>5. /\ Len(q) = L /\ \A n \in 1..(L - 1) : q[n] = p[n]
        /\ q[L] = [p[L] EXCEPT !.len = @ + 1]
    <3>1. \A n \in 1..(L - 1) : n \in DOMAIN p /\ n # L
      BY <1>1
    <3>2. Len(more) = L
      BY <1>1
    <3>3. \A n \in 1..(L - 1) : more[n] = p[n]
      BY <3>1
    <3>4. more[L] = [p[L] EXCEPT !.len = @ + 1]
      BY <1>1, <2>3
    <3> HIDE DEF more, q
    <3> QED  BY <2>2, <3>2, <3>3, <3>4
  <2>6. q[L].len = p[L].len + 1 /\ q[L].val = p[L].val
    <3> HIDE DEF q, p
    <3> QED  BY <2>4, <2>5 DEF Runs
  <2>7. Spread(q) = Spread(p) + 1 /\ \A n \in 0..(L - 1) : g[n] = f[n]
    <3>1. p \in Seq(Runs(V)) /\ q \in Seq(Runs(V))
      BY <1>1, <1>2
    <3>2. Len(p) > 0 /\ Len(q) = Len(p) /\ \A n \in 1..(Len(p) - 1) : q[n] = p[n]
      BY <2>3, <2>5
    <3>3. q[Len(p)].len = p[Len(p)].len + 1 /\ q[Len(p)].val = p[Len(p)].val
      BY <2>6
    <3> HIDE DEF q, p
    <3> QED  BY <3>1, <3>2, <3>3, RunGrows
  <2>8. ASSUME \A i \in 1..m : vals[i] # NULL, NEW i \in 1..m, f[L - 1] < i
        PROVE  vals[i] = v
    <3> HIDE DEF f, p, L, v
    <3>1. Spread(p) = m /\ f[L] = m /\ i <= m
      BY <1>1, <1>3, <1>5, <2>8
    <3>2. p[L].val = vals[i]
      BY <1>5, <2>3, <2>8, <3>1
    <3> QED  BY <1>8, <3>2
  <2>9. K = L
    BY <2>5
  <2>10. \A n \in 0..(L - 1) : n \in 0..L
    BY <1>1
  <2>11. \A n \in 1..(L - 1) : n \in 1..L /\ q[n].val = p[n].val
    <3> HIDE DEF q, p, L
    <3>1. \A n \in 1..(L - 1) : n \in 1..L
      BY <1>1
    <3> QED  BY <2>5, <3>1
  <2> HIDE DEF next, q, K, f, g, p, L, v, more
  <2> QED  BY <1>7, <1>8, <2>2, <2>3, <2>6, <2>7, <2>8, <2>9, <2>10, <2>11
<1>9. CASE v # NULL /\ ~ (s.open /\ p[L].val = v)
  <2> DEFINE new == Append(p, [len |-> 1, val |-> v])
  <2>1. next = [runs |-> new, open |-> TRUE]
    BY <1>9 DEF RunStep
  <2>2. q = new /\ next.open
    BY <2>1
  <2>3. Len(q) = L + 1 /\ (\A n \in 1..L : q[n] = p[n]) /\ q[L + 1] = [len |-> 1, val |-> v]
    <3>1. Len(new) = L + 1 /\ (\A n \in 1..L : new[n] = p[n]) /\ new[L + 1] = [len |-> 1, val |-> v]
      BY <1>1
    <3> HIDE DEF new, q
    <3> QED  BY <2>2, <3>1
  <2>4. q[L + 1].len = 1 /\ q[L + 1].val = v
    <3> HIDE DEF q
    <3> QED  BY <2>3
  <2>5. Spread(q) = Spread(p) + 1 /\ \A n \in 0..L : g[n] = f[n]
    <3> HIDE DEF q, p
    <3> QED  BY <1>1, <1>2, <2>3, <2>4, RunStarts
  <2>6. K = L + 1 /\ K > 0 /\ K - 1 = L
    <3>1. K = L + 1
      BY <2>3
    <3> HIDE DEF K, L
    <3> QED  BY <1>1, <3>1
  <2>7. ASSUME \A i \in 1..m : vals[i] # NULL, NEW i \in 1..m, f[L] < i
        PROVE  vals[i] = v
    <3> HIDE DEF f, p, L, v
    <3>1. f[L] = m /\ i <= m
      BY <1>1, <1>3, <1>5, <2>7
    <3> QED  BY <2>7, <3>1, <1>1
  <2>8. \A n \in 0..L : n \in 0..L /\ g[n] = f[n]
    BY <2>5
  <2>9. \A n \in 1..L : n \in 1..L /\ q[n].val = p[n].val
    <3> HIDE DEF q, p, L
    <3> QED  BY <2>3
  <2> HIDE DEF next, q, K, f, g, p, L, v, new
  <2> QED  BY <1>7, <1>9, <2>2, <2>4, <2>5, <2>6, <2>7, <2>8, <2>9
<1> QED  BY <1>6, <1>8, <1>9

\* The runs of all values.
LEMMA RunsOfAll ==
  ASSUME NEW V, NEW vals \in Seq(V)
  PROVE  \A m \in 0..Len(vals) :
           RunStates(vals)[m] \in RunBooks(V) /\ RunsOf(RunStates(vals)[m], vals, m)
<1> DEFINE N == Len(vals)  g == RunStates(vals)
           T == {m \in 0..N : g[m] \in RunBooks(V) /\ RunsOf(g[m], vals, m)}
<1>1. /\ N \in Nat /\ \A n \in 1..N : vals[n] \in V
      /\ g[0] = [runs |-> << >>, open |-> FALSE]
      /\ \A n \in 1..N : g[n] = RunStep(g[n - 1], vals[n])
  BY RunStateSteps
<1> HIDE DEF g
<1>2. 0 \in T
  <2>1. g[0].runs = << >> /\ g[0].open = FALSE /\ g[0] \in RunBooks(V)
    BY <1>1 DEF RunBooks
  <2>2. << >> \in Seq(Runs(V)) /\ Len(<< >>) = 0
    OBVIOUS
  <2>3. PICK none : none = << >>
    OBVIOUS
  <2>4. none \in Seq(Runs(V)) /\ Len(none) = 0
    BY <2>2, <2>3
  <2>5. RunEnds(none)[0] = 0
    BY <2>4, RunEndsAre
  <2>6. Spread(none) = 0
    BY <2>4, <2>5 DEF Spread
  <2>7. g[0].runs = none
    BY <2>1, <2>3
  <2>8. RunsOf(g[0], vals, 0)
    BY <2>1, <2>4, <2>6, <2>7 DEF RunsOf
  <2> QED  BY <1>1, <2>1, <2>8
<1>3. ASSUME NEW m \in 0..(N - 1), m \in T PROVE m + 1 \in T
  <2>1. m + 1 \in 1..N /\ (m + 1) - 1 = m /\ g[m] \in RunBooks(V) /\ RunsOf(g[m], vals, m)
    BY <1>1, <1>3
  <2>2. g[m + 1] = RunStep(g[m], vals[m + 1])
    BY <1>1, <2>1
  <2>3. g[m + 1] \in RunBooks(V)
    BY <1>1, <2>1, <2>2, RunStepIs
  <2>4. RunsOf(g[m + 1], vals, m + 1)
    BY <2>1, <2>2, RunsOfStep
  <2> QED  BY <2>1, <2>3, <2>4
<1> HIDE DEF T
<1>4. \A m \in 0..N : m \in T
  BY <1>1, <1>2, <1>3, InductionTo
<1> QED  BY <1>4 DEF T, N, g

\* A run-length encoding is its values if none is NULL, and lacks some if one is.
LEMMA RleReads ==
  ASSUME NEW V, NEW vals \in Seq(V)
  PROVE  /\ NULL \notin ToSet(vals) => DecodeRle(Rle(vals)) = [ok |-> TRUE, vals |-> vals]
         /\ NULL \in ToSet(vals) =>
              ~ DecodeRle(Rle(vals)).ok /\ Spread(Rle(vals).runs) < Rle(vals).count
<1> DEFINE N == Len(vals)  s == RunStates(vals)[N]  p == s.runs  g == RunEnds(p)
           At(i) == CHOOSE n \in DOMAIN p : g[n - 1] < i /\ i <= g[n]
           got == [i \in 1..Spread(p) |-> p[At(i)].val]
<1>1. /\ N \in Nat /\ DOMAIN vals = 1..N /\ vals = [i \in 1..N |-> vals[i]]
      /\ s \in RunBooks(V) /\ RunsOf(s, vals, N)
  <2>1. N \in Nat /\ N \in 0..N
    OBVIOUS
  <2> QED  BY <2>1, RunsOfAll
<1>2. Rle(vals) = [enc |-> "rle", count |-> N, runs |-> p]
  BY DEF Rle
<1>3. DecodeRle(Rle(vals)) = [ok |-> Spread(p) >= N, vals |-> got]
  BY <1>2 DEF DecodeRle
<1>4. \A e : e \in ToSet(vals) <=> \E i \in 1..N : vals[i] = e
  BY <1>1 DEF ToSet
<1>5. p \in Seq(Runs(V)) /\ DOMAIN p = 1..Len(p)
  <2> HIDE DEF s
  <2> QED  BY <1>1 DEF RunBooks
<1>6. /\ (\E i \in 1..N : vals[i] = NULL) => Spread(p) < N
      /\ (\A i \in 1..N : vals[i] # NULL) =>
           /\ Spread(p) = N
           /\ \A n \in 1..Len(p) : \A i \in 1..N : g[n - 1] < i /\ i <= g[n] => p[n].val = vals[i]
  BY <1>1 DEF RunsOf
<1>7. Spread(p) \in Nat
  <2> HIDE DEF p
  <2>1. Len(p) \in 0..Len(p)
    BY <1>5
  <2> QED  BY <1>5, <2>1, RunEndsAre DEF Spread
<1>8. ASSUME NULL \notin ToSet(vals) PROVE DecodeRle(Rle(vals)) = [ok |-> TRUE, vals |-> vals]
  <2>1. \A i \in 1..N : vals[i] # NULL
    BY <1>4, <1>8
  <2>2. Spread(p) = N
    BY <1>6, <2>1
  <2>3. ASSUME NEW i \in 1..N PROVE got[i] = vals[i]
    <3> HIDE DEF p, N, g
    <3>1. \E n \in DOMAIN p : g[n - 1] < i /\ i <= g[n]
      BY <1>5, <2>2, RunAt DEF g
    <3>2. At(i) \in DOMAIN p /\ g[At(i) - 1] < i /\ i <= g[At(i)]
      BY <3>1
    <3> HIDE DEF At
    <3> QED  BY <1>5, <1>6, <2>1, <2>2, <3>2
  <2>4. got = vals
    <3> HIDE DEF p, N, At
    <3>1. got = [i \in 1..N |-> got[i]]
      BY <2>2
    <3> HIDE DEF got
    <3> QED  BY <1>1, <2>3, <3>1
  <2>5. (Spread(p) >= N) = TRUE
    <3> HIDE DEF p, N
    <3> QED  BY <1>1, <2>2
  <2> QED  BY <1>3, <2>4, <2>5
<1>9. ASSUME NULL \in ToSet(vals)
      PROVE  ~ DecodeRle(Rle(vals)).ok /\ Spread(Rle(vals).runs) < Rle(vals).count
  <2>1. Spread(p) < N
    BY <1>4, <1>6, <1>9
  <2>2. ~ (Spread(p) >= N)
    <3> HIDE DEF p, N
    <3> QED  BY <1>1, <1>7, <2>1
  <2> HIDE DEF p, N, got
  <2>3. Rle(vals).runs = p /\ Rle(vals).count = N
    BY <1>2
  <2>4. DecodeRle(Rle(vals)).ok = (Spread(p) >= N)
    BY <1>3
  <2>5. Spread(Rle(vals).runs) < Rle(vals).count
    BY <2>1, <2>3
  <2>6. ~ DecodeRle(Rle(vals)).ok
    BY <2>2, <2>4, Zenon
  <2> QED  BY <2>5, <2>6
<1> QED  BY <1>8, <1>9

LEMMA IntReads ==
  ASSUME NEW V, NEW vals \in Seq(V)
  PROVE  /\ ReadsBack(EncodeInt(vals), vals)
         /\ EncodeInt(vals).enc = "rle" /\ NULL \in ToSet(vals) =>
              Spread(EncodeInt(vals).runs) < EncodeInt(vals).count
<1>1. /\ Rle(vals).enc = "rle" /\ Raw(vals).enc = "raw"
      /\ Decode(Rle(vals)) = DecodeRle(Rle(vals)) /\ Decode(Raw(vals)) = DecodeRaw(Raw(vals))
  BY DEF Rle, Raw, Decode
<1>2. DecodeRaw(Raw(vals)) = [ok |-> TRUE, vals |-> vals]
  BY RawReads
<1>3. /\ NULL \notin ToSet(vals) => DecodeRle(Rle(vals)) = [ok |-> TRUE, vals |-> vals]
      /\ NULL \in ToSet(vals) =>
           ~ DecodeRle(Rle(vals)).ok /\ Spread(Rle(vals).runs) < Rle(vals).count
  BY RleReads
<1>4. EncodeInt(vals) = Rle(vals) \/ EncodeInt(vals) = Raw(vals)
  BY DEF EncodeInt
<1>5. CASE EncodeInt(vals) = Rle(vals)
  BY <1>1, <1>3, <1>5 DEF ReadsBack
<1>6. CASE EncodeInt(vals) = Raw(vals)
  BY <1>1, <1>2, <1>6 DEF ReadsBack
<1> QED  BY <1>4, <1>5, <1>6

LEMMA TextReads ==
  ASSUME NEW V, NEW vals \in Seq(V)
  PROVE  /\ ReadsBack(EncodeText(vals), vals)
         /\ Decode(EncodeText(vals)) = [ok |-> TRUE, vals |-> vals]
<1>1. /\ Dict(vals).enc = "dict" /\ Raw(vals).enc = "raw"
      /\ Decode(Dict(vals)) = DecodeDict(Dict(vals)) /\ Decode(Raw(vals)) = DecodeRaw(Raw(vals))
  BY DEF Dict, Raw, Decode
<1>2. /\ DecodeRaw(Raw(vals)) = [ok |-> TRUE, vals |-> vals]
      /\ DecodeDict(Dict(vals)) = [ok |-> TRUE, vals |-> vals]
  BY RawReads, DictReads
<1>3. EncodeText(vals) = Dict(vals) \/ EncodeText(vals) = Raw(vals)
  BY DEF EncodeText
<1> QED  BY <1>1, <1>2, <1>3 DEF ReadsBack

LEMMA ColumnsAre ==
  ASSUME NEW rows \in Seq(Rows)
  PROVE  /\ Len(rows) \in Nat /\ DOMAIN rows = 1..Len(rows)
         /\ \A i \in 1..Len(rows) : rows[i] \in Rows
         /\ Column(rows, "id") \in Seq(Nat) /\ Column(rows, "int") \in Seq(Cells)
         /\ Column(rows, "text") \in Seq(Cells)
         /\ NULL \notin ToSet(Column(rows, "id"))
<1>1. /\ Len(rows) \in Nat /\ DOMAIN rows = 1..Len(rows)
      /\ \A i \in 1..Len(rows) : rows[i] \in Rows
  OBVIOUS
<1>2. \A i \in 1..Len(rows) :
        rows[i]["id"] \in Nat /\ rows[i]["int"] \in Cells /\ rows[i]["text"] \in Cells
  BY <1>1 DEF Rows
<1>3. /\ Column(rows, "id") = [i \in 1..Len(rows) |-> rows[i]["id"]]
      /\ Column(rows, "int") = [i \in 1..Len(rows) |-> rows[i]["int"]]
      /\ Column(rows, "text") = [i \in 1..Len(rows) |-> rows[i]["text"]]
  BY <1>1 DEF Column
<1>4. \A i \in 1..Len(rows) : rows[i]["id"] # NULL
  BY <1>2, NullAssumption
<1>5. NULL \notin ToSet(Column(rows, "id"))
  BY <1>3, <1>4 DEF ToSet
<1>6. /\ Column(rows, "id") \in [1..Len(rows) -> Nat]
      /\ Column(rows, "int") \in [1..Len(rows) -> Cells]
      /\ Column(rows, "text") \in [1..Len(rows) -> Cells]
  BY <1>2, <1>3
<1>7. \A S, f : f \in [1..Len(rows) -> S] => f \in Seq(S)
  BY <1>1
<1> QED  BY <1>1, <1>5, <1>6, <1>7

\* A segment holds its rows, unless it cannot be read, and then it is lossy.
LEMMA SegmentReads ==
  ASSUME NEW rows \in Seq(Rows)
  PROVE  /\ BuildSegment(rows) # TornSegment
         /\ \/ ReadSegment(BuildSegment(rows)) = [ok |-> TRUE, rows |-> rows]
            \/ /\ ReadSegment(BuildSegment(rows)) = [ok |-> FALSE, rows |-> << >>]
               /\ Lossy(BuildSegment(rows))
<1> DEFINE N == Len(rows)  s == BuildSegment(rows)
           c == Column(rows, "id")  d == Column(rows, "int")  e == Column(rows, "text")
<1>1. /\ N \in Nat /\ DOMAIN rows = 1..N
      /\ \A i \in 1..N : rows[i] \in Rows
      /\ c \in Seq(Nat) /\ d \in Seq(Cells) /\ e \in Seq(Cells) /\ NULL \notin ToSet(c)
  BY ColumnsAre
<1>2. /\ s.rows = N /\ s.ids = EncodeInt(c) /\ s.int = EncodeInt(d) /\ s.text = EncodeText(e)
  BY DEF BuildSegment
<1>3. s # TornSegment
  <2>1. TornSegment.rows = -1 /\ N # -1
    BY <1>1 DEF TornSegment
  <2> HIDE DEF s
  <2> QED  BY <1>2, <2>1
<1>4. /\ \A i \in 1..N : /\ c[i] = rows[i].id /\ d[i] = rows[i].int /\ e[i] = rows[i].text
  BY <1>1 DEF Column
<1> HIDE DEF s, c, d, e, N
<1>5. Decode(s.ids) = [ok |-> TRUE, vals |-> c]
  BY <1>1, <1>2, IntReads DEF ReadsBack
<1>6. Decode(s.text) = [ok |-> TRUE, vals |-> e]
  BY <1>1, <1>2, TextReads
<1>7. /\ ReadsBack(s.int, d)
      /\ s.int.enc = "rle" /\ NULL \in ToSet(d) => Spread(s.int.runs) < s.int.count
  BY <1>1, <1>2, IntReads
<1>8. CASE s.int.enc = "rle" /\ NULL \in ToSet(d)
  <2>1. ~ Decode(s.int).ok
    BY <1>7, <1>8 DEF ReadsBack
  <2>2. Lossy(s)
    BY <1>3, <1>7, <1>8 DEF Lossy
  <2>3. ReadSegment(s) = [ok |-> FALSE, rows |-> << >>]
    BY <2>1 DEF ReadSegment
  <2> QED  BY <1>3, <2>2, <2>3 DEF s
<1>9. CASE ~ (s.int.enc = "rle" /\ NULL \in ToSet(d))
  <2>1. Decode(s.int) = [ok |-> TRUE, vals |-> d]
    BY <1>7, <1>9 DEF ReadsBack
  <2>2. ReadSegment(s) =
          [ok |-> TRUE, rows |-> [i \in 1..N |-> [id |-> c[i], int |-> d[i], text |-> e[i]]]]
    BY <1>2, <1>3, <1>5, <1>6, <2>1 DEF ReadSegment
  <2>3. \A i \in 1..N : [id |-> c[i], int |-> d[i], text |-> e[i]] = rows[i]
    BY <1>1, <1>4 DEF Rows
  <2>4. [i \in 1..N |-> [id |-> c[i], int |-> d[i], text |-> e[i]]] = [i \in 1..N |-> rows[i]]
    BY <2>3
  <2>5. rows = [i \in 1..N |-> rows[i]]
    BY <1>1
  <2> QED  BY <1>3, <2>2, <2>4, <2>5 DEF s
<1> QED  BY <1>8, <1>9

----------------------------------------------------------------------------
(* Replicas.                                                               *)

\* The files of a table, finitely many, hold what flushes wrote, or a part of it.
FilesOk(segs) ==
  /\ DOMAIN segs \subseteq Nat /\ segs = [i \in DOMAIN segs |-> segs[i]]
  /\ \E n \in Nat : \A i \in DOMAIN segs : i < n
  /\ \A i \in DOMAIN segs :
       segs[i] = TornSegment \/ \E rows \in Seq(Rows) : segs[i] = BuildSegment(rows)

\* The parts of a replica with the buffer buf and the files segs.
Pieces(buf, segs) ==
  [i \in DOMAIN segs \cup {-1} |-> IF i = -1 THEN buf ELSE ReadSegment(segs[i]).rows]

\* Rows of the table in every part, and no row in two places.
PiecesOk(f, rows, once) ==
  /\ \A i \in DOMAIN f : f[i] \in Seq(Rows) /\ ToSet(f[i]) \subseteq Range(rows)
  /\ once => \A i, j \in DOMAIN f : \A n \in DOMAIN f[i], m \in DOMAIN f[j] :
               f[i][n] = f[j][m] => i = j /\ n = m

\* What was captured is in the buffer or in a file, unless one cannot be read.
KeptIn(cap, buf, segs) ==
  \/ \A x \in cap : x \in ToSet(buf) \/ \E i \in DOMAIN segs : x \in ToSet(ReadSegment(segs[i]).rows)
  \/ \E i \in DOMAIN segs : Lossy(segs[i])

ReplicaOk(buf, segs, rows, once, cap) ==
  /\ FilesOk(segs)
  /\ PiecesOk(Pieces(buf, segs), rows, once)
  /\ KeptIn(cap, buf, segs)

\* What must be kept: nothing of a table whose last segment a buffer did not see.
Due(t) == IF t \in misread THEN {} ELSE captured[t]

\* Rows that the engine shows, and a power failure leaves, have all that is in the
\* replica; and no segment is numbered before one that its buffer has seen.
RepInv ==
  /\ registered \subseteq Tables /\ nextSegment \in [Tables -> Nat] /\ rewritten \in BOOLEAN
  /\ \A t \in Tables :
       /\ t \notin registered => buffer[t] = << >>
       /\ t \in registered \ misread => \A i \in DOMAIN segments[t] : i < nextSegment[t]
       /\ FilesOk(segments[t])
       /\ \A rows \in Base(t) : ReplicaOk(buffer[t], segments[t], rows, ~ rewritten, Due(t))

\* Every part of g with rows is the part of f that src names, and no two are one.
From(g, f, src) == \A i \in DOMAIN g : g[i] = << >> \/ (src[i] \in DOMAIN f /\ g[i] = f[src[i]])
Apart(g, src) ==
  \A i, j \in DOMAIN g : src[i] = src[j] => i = j \/ g[i] = << >> \/ g[j] = << >>

LEMMA PiecesMove ==
  ASSUME NEW f, NEW g, NEW rows, NEW more, NEW once \in BOOLEAN, NEW still \in BOOLEAN,
         PiecesOk(f, rows, once), Range(rows) \subseteq Range(more), NEW src,
         From(g, f, src), still => once, still => Apart(g, src)
  PROVE  PiecesOk(g, more, still)
<1>1. << >> \in Seq(Rows) /\ ToSet(<< >>) = {} /\ DOMAIN << >> = {}
  BY DEF ToSet
<1>2. ASSUME NEW i \in DOMAIN g PROVE g[i] \in Seq(Rows) /\ ToSet(g[i]) \subseteq Range(more)
  BY <1>1 DEF PiecesOk, From
<1>3. ASSUME still, NEW i \in DOMAIN g, NEW j \in DOMAIN g, NEW n \in DOMAIN g[i], NEW m \in DOMAIN g[j],
             g[i][n] = g[j][m]
      PROVE  i = j /\ n = m
  <2>1. g[i] # << >> /\ g[j] # << >>
    BY <1>1, <1>3
  <2>2. src[i] \in DOMAIN f /\ g[i] = f[src[i]] /\ src[j] \in DOMAIN f /\ g[j] = f[src[j]]
    BY <2>1 DEF From
  <2>3. src[i] = src[j] /\ n = m
    BY <1>3, <2>2 DEF PiecesOk
  <2> QED  BY <1>3, <2>1, <2>3 DEF Apart
<1> QED  BY <1>2, <1>3 DEF PiecesOk

\* New rows behind those of the buffer.
LEMMA ReplicaCaptures ==
  ASSUME NEW buf, NEW segs, NEW f \in Tabs, NEW g \in Tabs, DOMAIN f \cap DOMAIN g = {},
         Numbered(f), Numbered(g), NEW once \in BOOLEAN, NEW cap,
         ReplicaOk(buf, segs, g, once, cap),
         NEW more, NEW all \in BOOLEAN, PagesOk(more, f, all)
  PROVE  ReplicaOk(buf \o more, segs, Over(f, g), once, cap \cup ToSet(more))
<1> DEFINE h == Over(f, g)  c == buf \o more
           p == Pieces(buf, segs)  q == Pieces(c, segs)
<1>1. /\ FilesOk(segs) /\ PiecesOk(p, g, once) /\ KeptIn(cap, buf, segs)
      /\ more \in Seq(Rows) /\ IsInjective(more) /\ ToSet(more) \subseteq Range(f)
  BY DEF ReplicaOk, PagesOk
<1>2. /\ DOMAIN p = DOMAIN segs \cup {-1} /\ p[-1] = buf /\ -1 \notin DOMAIN segs
      /\ \A i \in DOMAIN segs : p[i] = ReadSegment(segs[i]).rows
      /\ DOMAIN q = DOMAIN segs \cup {-1} /\ q[-1] = c
      /\ \A i \in DOMAIN segs : q[i] = ReadSegment(segs[i]).rows
  BY <1>1 DEF Pieces, FilesOk
<1> HIDE DEF p, q
<1>3. buf \in Seq(Rows) /\ ToSet(buf) \subseteq Range(g)
  BY <1>1, <1>2 DEF PiecesOk
<1>4. /\ c \in Seq(Rows) /\ Len(buf) \in Nat /\ Len(more) \in Nat
      /\ DOMAIN buf = 1..Len(buf) /\ DOMAIN more = 1..Len(more)
      /\ DOMAIN c = 1..(Len(buf) + Len(more))
      /\ \A n \in DOMAIN c : c[n] = IF n <= Len(buf) THEN buf[n] ELSE more[n - Len(buf)]
  BY <1>1, <1>3
<1>5. /\ DOMAIN h = DOMAIN f \cup DOMAIN g
      /\ \A i \in DOMAIN f : h[i] = f[i]
      /\ \A i \in DOMAIN g : h[i] = g[i]
  BY OverIs
<1> HIDE DEF c, h
<1>6. \A x : x \in Range(h) <=> x \in Range(f) \/ x \in Range(g)
  BY <1>5 DEF Range
<1>7. \A x : ~ (x \in Range(f) /\ x \in Range(g))
  <2> SUFFICES ASSUME NEW i \in DOMAIN f, NEW j \in DOMAIN g, f[i] = g[j] PROVE FALSE
    BY DEF Range
  <2>1. i \in Nat /\ j \in Nat /\ i + 1 = j + 1
    BY TabIs DEF Numbered
  <2> QED  BY <2>1
<1>8. \A n \in DOMAIN c :
        \/ n \in DOMAIN buf /\ c[n] = buf[n]
        \/ n - Len(buf) \in DOMAIN more /\ c[n] = more[n - Len(buf)]
  BY <1>4
<1>9. /\ \A n \in DOMAIN buf : n \in DOMAIN c /\ c[n] = buf[n]
      /\ \A n \in DOMAIN more : n + Len(buf) \in DOMAIN c /\ c[n + Len(buf)] = more[n]
  BY <1>4
<1>10. \A x : x \in ToSet(c) <=> x \in ToSet(buf) \/ x \in ToSet(more)
  BY <1>8, <1>9 DEF ToSet
<1>11. ASSUME NEW i \in DOMAIN q PROVE q[i] \in Seq(Rows) /\ ToSet(q[i]) \subseteq Range(h)
  <2>1. CASE i = -1
    BY <1>1, <1>2, <1>3, <1>4, <1>6, <1>10, <2>1
  <2>2. CASE i # -1
    <3>1. i \in DOMAIN p /\ q[i] = p[i]
      BY <1>2, <2>2
    <3> QED  BY <1>1, <1>6, <3>1 DEF PiecesOk
  <2> QED  BY <2>1, <2>2
<1>12. ASSUME NEW i \in DOMAIN q, NEW n \in DOMAIN q[i]
       PROVE  \/ /\ i \in DOMAIN p /\ n \in DOMAIN p[i] /\ q[i][n] = p[i][n]
                 /\ q[i][n] \in Range(g)
              \/ /\ i = -1 /\ n - Len(buf) \in DOMAIN more /\ q[i][n] = more[n - Len(buf)]
                 /\ q[i][n] \in Range(f) /\ n \in Int
  <2>1. CASE i = -1
    <3>1. n \in DOMAIN c /\ q[i] = c /\ i \in DOMAIN p /\ p[i] = buf
      BY <1>2, <2>1
    <3>2. n \in Int
      BY <1>4, <3>1
    <3>3. CASE n \in DOMAIN buf /\ c[n] = buf[n]
      BY <1>3, <3>1, <3>3 DEF ToSet
    <3>4. CASE n - Len(buf) \in DOMAIN more /\ c[n] = more[n - Len(buf)]
      BY <1>1, <2>1, <3>1, <3>2, <3>4 DEF ToSet
    <3> QED  BY <1>8, <3>1, <3>3, <3>4
  <2>2. CASE i # -1
    <3>1. i \in DOMAIN p /\ q[i] = p[i]
      BY <1>2, <2>2
    <3>2. p[i][n] \in Range(g)
      BY <1>1, <3>1 DEF PiecesOk, ToSet
    <3> QED  BY <3>1, <3>2
  <2> QED  BY <2>1, <2>2
<1>13. ASSUME once, NEW i \in DOMAIN q, NEW j \in DOMAIN q, NEW n \in DOMAIN q[i], NEW m \in DOMAIN q[j],
              q[i][n] = q[j][m]
       PROVE  i = j /\ n = m
  <2>1. CASE /\ i \in DOMAIN p /\ n \in DOMAIN p[i] /\ q[i][n] = p[i][n]
             /\ j \in DOMAIN p /\ m \in DOMAIN p[j] /\ q[j][m] = p[j][m]
    <3>1. p[i][n] = p[j][m]
      BY <1>13, <2>1
    <3> QED  BY <1>1, <1>13, <2>1, <3>1 DEF PiecesOk
  <2>2. CASE /\ i = -1 /\ n - Len(buf) \in DOMAIN more /\ q[i][n] = more[n - Len(buf)] /\ n \in Int
             /\ j = -1 /\ m - Len(buf) \in DOMAIN more /\ q[j][m] = more[m - Len(buf)] /\ m \in Int
    <3>1. n - Len(buf) = m - Len(buf)
      BY <1>1, <1>13, <2>2 DEF IsInjective
    <3>2. n = m
      BY <1>4, <2>2, <3>1
    <3> QED  BY <2>2, <3>2
  <2> QED  BY <1>7, <1>12, <1>13, <2>1, <2>2
<1>14. PiecesOk(q, h, once)
  BY <1>11, <1>13 DEF PiecesOk
<1>15. KeptIn(cap \cup ToSet(more), c, segs)
  BY <1>1, <1>10 DEF KeptIn
<1> QED  BY <1>1, <1>14, <1>15 DEF ReplicaOk, q, c, h

\* More rows are committed.
LEMMA ReplicaStays ==
  ASSUME NEW buf, NEW segs, NEW rows, NEW more, NEW once, NEW cap,
         ReplicaOk(buf, segs, rows, once, cap), Range(rows) \subseteq Range(more)
  PROVE  ReplicaOk(buf, segs, more, once, cap)
BY DEF ReplicaOk, PiecesOk

\* Less must be kept.
LEMMA ReplicaLess ==
  ASSUME NEW buf, NEW segs, NEW rows, NEW once, NEW cap, NEW less \in SUBSET cap,
         ReplicaOk(buf, segs, rows, once, cap)
  PROVE  ReplicaOk(buf, segs, rows, once, less)
BY DEF ReplicaOk, KeptIn

\* The buffer is dropped with its applier.
LEMMA ReplicaDrops ==
  ASSUME NEW buf, NEW segs, NEW rows, NEW more, NEW once \in BOOLEAN, NEW cap,
         ReplicaOk(buf, segs, rows, once, cap), Range(rows) \subseteq Range(more)
  PROVE  ReplicaOk(<< >>, segs, more, once, cap \ ToSet(buf))
<1> DEFINE p == Pieces(buf, segs)  q == Pieces(<< >>, segs)
           src == [i \in DOMAIN q |-> i]
<1>1. FilesOk(segs) /\ PiecesOk(p, rows, once) /\ KeptIn(cap, buf, segs)
  BY DEF ReplicaOk
<1>2. /\ DOMAIN p = DOMAIN segs \cup {-1}
      /\ \A i \in DOMAIN segs : p[i] = ReadSegment(segs[i]).rows
      /\ DOMAIN q = DOMAIN segs \cup {-1} /\ q[-1] = << >>
      /\ \A i \in DOMAIN segs : q[i] = ReadSegment(segs[i]).rows
  BY <1>1 DEF Pieces, FilesOk
<1> HIDE DEF p, q
<1>3. From(q, p, src) /\ Apart(q, src)
  BY <1>2 DEF From, Apart
<1> HIDE DEF src
<1>4. PiecesOk(q, more, once)
  BY <1>1, <1>3, PiecesMove
<1>5. KeptIn(cap \ ToSet(buf), << >>, segs)
  BY <1>1 DEF KeptIn
<1> QED  BY <1>1, <1>4, <1>5 DEF ReplicaOk, q

\* files are segs, and image under the number k, whatever was there.
OneMore(files, segs, k, image) ==
  /\ DOMAIN files = DOMAIN segs \cup {k} /\ files[k] = image
  /\ \A i \in DOMAIN segs \ {k} : files[i] = segs[i]
  /\ files = [i \in DOMAIN files |-> files[i]]

\* One file more: a part of the buffer, or all of it; the buffer is emptied only if
\* the file has all of it.
LEMMA ReplicaFlushes ==
  ASSUME NEW buf, NEW segs, NEW rows, NEW once \in BOOLEAN, NEW cap,
         ReplicaOk(buf, segs, rows, once, cap),
         NEW k \in Nat, k \notin DOMAIN segs \/ cap = {}, NEW still \in BOOLEAN,
         NEW image, image = TornSegment \/ image = BuildSegment(buf),
         NEW left, left = buf \/ (left = << >> /\ image = BuildSegment(buf)),
         still => once /\ (left = << >> \/ image = TornSegment),
         NEW files, OneMore(files, segs, k, image)
  PROVE  ReplicaOk(left, files, rows, still, cap)
<1> DEFINE p == Pieces(buf, segs)  q == Pieces(left, files)
           src == [i \in DOMAIN q |-> IF i = k THEN -1 ELSE i]
           read == ReadSegment(image).rows
<1>1. FilesOk(segs) /\ PiecesOk(p, rows, once) /\ KeptIn(cap, buf, segs)
  BY DEF ReplicaOk
<1>2. /\ DOMAIN p = DOMAIN segs \cup {-1} /\ p[-1] = buf /\ -1 \notin DOMAIN segs
      /\ \A i \in DOMAIN segs : p[i] = ReadSegment(segs[i]).rows
  BY <1>1 DEF Pieces, FilesOk
<1>3. buf \in Seq(Rows)
  <2> HIDE DEF p
  <2> QED  BY <1>1, <1>2 DEF PiecesOk
<1>4. /\ DOMAIN files = DOMAIN segs \cup {k} /\ files[k] = image
      /\ \A i \in DOMAIN segs \ {k} : files[i] = segs[i]
      /\ files = [i \in DOMAIN files |-> files[i]]
  BY DEF OneMore
<1>5. FilesOk(files)
  <2>1. PICK n \in Nat : \A i \in DOMAIN segs : i < n
    BY <1>1 DEF FilesOk
  <2>2. DOMAIN segs \subseteq Nat
    BY <1>1 DEF FilesOk
  <2>3. n + k + 1 \in Nat /\ \A i \in DOMAIN files : i < n + k + 1
    BY <1>4, <2>1, <2>2
  <2> QED  BY <1>1, <1>3, <1>4, <2>3 DEF FilesOk
<1>6. /\ DOMAIN q = DOMAIN files \cup {-1} /\ q[-1] = left /\ -1 \notin DOMAIN files
      /\ \A i \in DOMAIN files : q[i] = ReadSegment(files[i]).rows
  BY <1>5 DEF Pieces, FilesOk
<1>7. /\ image = TornSegment => read = << >>
      /\ image = BuildSegment(buf) => read = buf \/ (read = << >> /\ Lossy(image))
      /\ image = TornSegment => image # BuildSegment(buf)
  <2>1. ReadSegment(TornSegment).rows = << >>
    BY DEF ReadSegment
  <2> QED  BY <1>3, <2>1, SegmentReads
<1> HIDE DEF p, q
<1>8. /\ q[k] = read /\ k \in DOMAIN q /\ -1 \in DOMAIN q /\ k # -1
      /\ \A i \in DOMAIN q : i = k \/ i = -1 \/ (i \in DOMAIN p /\ i # -1 /\ q[i] = p[i])
  BY <1>2, <1>4, <1>6
<1> HIDE DEF read
<1>9. \A i \in DOMAIN q : src[i] = IF i = k THEN -1 ELSE i
  OBVIOUS
<1> HIDE DEF src
<1>10. From(q, p, src)
  BY <1>2, <1>6, <1>7, <1>8, <1>9 DEF From
<1>11. ASSUME still, NEW i \in DOMAIN q, NEW j \in DOMAIN q, src[i] = src[j], i # j
       PROVE  q[i] = << >> \/ q[j] = << >>
  <2>1. (i = k /\ j = -1) \/ (i = -1 /\ j = k)
    BY <1>9, <1>11
  <2>2. left = << >> \/ read = << >>
    BY <1>7, <1>11
  <2> QED  BY <1>6, <1>8, <2>1, <2>2
<1>12. still => Apart(q, src)
  BY <1>11 DEF Apart
<1>13. PiecesOk(q, rows, still)
  <2>1. Range(rows) \subseteq Range(rows)
    OBVIOUS
  <2> QED  BY <1>1, <1>10, <1>12, <2>1, PiecesMove
<1>14. KeptIn(cap, left, files)
  <2>0. CASE cap = {}
    BY <2>0 DEF KeptIn
  <2>. SUFFICES ASSUME k \notin DOMAIN segs PROVE KeptIn(cap, left, files)
    BY <2>0
  <2>1. CASE \E i \in DOMAIN segs : Lossy(segs[i])
    BY <1>4, <2>1 DEF KeptIn
  <2>2. CASE Lossy(image)
    BY <1>4, <2>2 DEF KeptIn
  <2>3. CASE /\ \A x \in cap : \/ x \in ToSet(buf)
                               \/ \E i \in DOMAIN segs : x \in ToSet(ReadSegment(segs[i]).rows)
             /\ ~ Lossy(image)
    <3>1. left = buf \/ read = buf
      BY <1>7, <2>3
    <3>2. \A x \in cap : \/ x \in ToSet(left)
                         \/ \E i \in DOMAIN files : x \in ToSet(ReadSegment(files[i]).rows)
      BY <1>4, <2>3, <3>1 DEF read
    <3> QED  BY <3>2 DEF KeptIn
  <2> QED  BY <1>1, <2>1, <2>2, <2>3 DEF KeptIn
<1> QED  BY <1>5, <1>13, <1>14 DEF ReplicaOk, q

\* What a buffer counts of the files that it sees.
LEMMA CountExistingIs ==
  ASSUME NEW segs, FilesOk(segs), NEW seen \in SUBSET DOMAIN segs
  PROVE  CountExisting(seen) \in Nat /\ \A i \in seen : i < CountExisting(seen)
<1>1. PICK N \in Nat : \A i \in DOMAIN segs : i < N
  BY DEF FilesOk
<1>2. seen \subseteq Nat /\ \A i \in seen : i < N
  BY <1>1 DEF FilesOk
<1>3. CASE seen = {}
  BY <1>3 DEF CountExisting
<1>4. CASE seen # {}
  <2> DEFINE S == {i + 1 : i \in seen}
  <2>2. S \in SUBSET (1..N) /\ S # {}
    <3>1. \A i \in seen : i + 1 \in 1..N
      BY <1>2
    <3> QED  BY <1>4, <3>1
  <2>3. PICK x \in S : \A y \in S : y <= x
    BY <2>2, LastPosition
  <2>4. PICK k \in seen : x = k + 1
    OBVIOUS
  <2>5. \A j \in seen : j <= k
    <3> TAKE j \in seen
    <3>1. j + 1 \in S
      OBVIOUS
    <3>2. j + 1 <= k + 1 /\ j \in Nat /\ k \in Nat
      BY <1>2, <2>3, <2>4, <3>1
    <3> QED  BY <3>2
  <2> DEFINE top == CHOOSE i \in seen : \A j \in seen : j <= i
  <2>6. top \in seen /\ \A j \in seen : j <= top
    BY <2>5
  <2>7. CountExisting(seen) = 1 + top
    BY <1>4 DEF CountExisting
  <2> HIDE DEF top
  <2>8. top \in Nat /\ \A i \in seen : i \in Nat /\ i <= top
    BY <1>2, <2>6
  <2>9. 1 + top \in Nat /\ \A i \in seen : i < 1 + top
    BY <2>8
  <2> QED  BY <2>7, <2>9
<1> QED  BY <1>3, <1>4

\* A step that leaves the replicas alone, and takes no row away.
LEMMA RepFrame ==
  ASSUME RepInv, Grew,
         UNCHANGED <<registered, buffer, nextSegment, segments, misread, rewritten, captured>>
  PROVE  RepInv'
<1>1. \A t \in Tables : Due(t)' = Due(t)
  BY DEF Due
<1>2. ASSUME NEW t \in Tables, NEW rows \in Base(t)'
      PROVE  ReplicaOk(buffer[t], segments[t], rows, ~ rewritten, Due(t))
  <2>1. PICK old \in Base(t) : Range(old) \subseteq Range(rows)
    BY DEF Grew
  <2>2. ReplicaOk(buffer[t], segments[t], old, ~ rewritten, Due(t))
    BY DEF RepInv
  <2> QED  BY <2>1, <2>2, ReplicaStays
<1> QED  BY <1>1, <1>2 DEF RepInv

LEMMA RepCommit ==
  ASSUME LogInv, LogInv', RepInv, NEW b, NewBatch(b),
         NEW stop \in 1..(Len(b) + 1), FinishCommit(b, stop)
  PROVE  RepInv'
<1>1. /\ Carried(b) /\ b \in Seq(Entries) /\ Distinct(b) /\ \A n \in DOMAIN b : Free(b[n])
      /\ Len(b) \in Nat
  BY DEF NewBatch, Carried, Free
<1> DEFINE done == Indexed(b, stop)
           all == stop > Len(b)
<1>2. /\ buffer' = [t \in Tables |-> Captured(t, RowsOf(done, t))]
      /\ captured' = [t \in Tables |->
           IF t \in registered THEN captured[t] \cup ToSet(RowsOf(done, t)) ELSE captured[t]]
      /\ UNCHANGED <<registered, nextSegment, segments, misread, rewritten>>
      /\ live' = [live EXCEPT !.rows = [t \in Tables |-> Over(ById(b, t), @[t])]]
  BY DEF FinishCommit, Apply
<1>3. Part(done, b) /\ (all => done = b) /\ all \in BOOLEAN
  BY <1>1, PartsAre
<1> HIDE DEF done, all
<1>4. \A t \in Tables : live'.rows[t] = Over(ById(b, t), live.rows[t])
  BY <1>2 DEF LogInv, LogShape, Shown
<1>5. ASSUME NEW t \in Tables
      PROVE  ReplicaOk(buffer'[t], segments[t], live'.rows[t], ~ rewritten, Due(t)')
  <2> DEFINE f == ById(b, t)  g == live.rows[t]
             more == RowsOf(done, t)  once == ~ rewritten  cap == Due(t)
  <2>1. f \in Tabs /\ Numbered(f)
    BY <1>1, ByIdNumbered
  <2>2. g \in Tabs /\ Numbered(g) /\ \A i \in DOMAIN g : Held(t, i, g[i])
    BY LiveRows
  <2>3. DOMAIN f \cap DOMAIN g = {}
    <3> SUFFICES ASSUME NEW i \in DOMAIN f, i \in DOMAIN g PROVE FALSE
      OBVIOUS
    <3>1. PICK n \in DOMAIN b : b[n].table = t /\ b[n].rid = i
      BY <1>1, ByIdIs DEF Keys
    <3> QED  BY <1>1, <2>2, <3>1 DEF Free
  <2>4. PagesOk(more, f, all)
    BY <1>1, <1>3, RowsOfIs
  <2>5. ReplicaOk(buffer[t], segments[t], g, once, cap) /\ once \in BOOLEAN
    BY DEF RepInv, Base
  <2>6. live'.rows[t] = Over(f, g)
    BY <1>4
  <2>7. CASE t \in registered
    <3>1. buffer'[t] = buffer[t] \o more /\ Due(t)' \in SUBSET (cap \cup ToSet(more))
      BY <1>2, <2>7 DEF Captured, Due
    <3> HIDE DEF f, g, more, once, cap
    <3>2. ReplicaOk(buffer[t] \o more, segments[t], Over(f, g), once, cap \cup ToSet(more))
      BY <1>3, <2>1, <2>2, <2>3, <2>4, <2>5, ReplicaCaptures
    <3>3. ReplicaOk(buffer[t] \o more, segments[t], Over(f, g), once, Due(t)')
      BY <3>1, <3>2, ReplicaLess
    <3> QED  BY <2>6, <3>1, <3>3 DEF once
  <2>8. CASE t \notin registered
    <3>1. buffer'[t] = buffer[t] /\ Due(t)' = cap
      BY <1>2, <2>8 DEF Captured, Due
    <3> HIDE DEF f, g, once, cap
    <3>2. Range(g) \subseteq Range(Over(f, g))
      <4> DEFINE both == Over(f, g)
      <4>1. DOMAIN both = DOMAIN f \cup DOMAIN g /\ \A i \in DOMAIN g : both[i] = g[i]
        BY <2>3, OverIs
      <4> HIDE DEF both
      <4>2. Range(g) \subseteq Range(both)
        BY <4>1 DEF Range
      <4> QED  BY <4>2 DEF both
    <3>3. ReplicaOk(buffer[t], segments[t], Over(f, g), once, cap)
      BY <2>5, <3>2, ReplicaStays
    <3> QED  BY <2>6, <3>1, <3>3 DEF once
  <2> QED  BY <2>7, <2>8
<1>6. ASSUME NEW t \in Tables, t \notin registered PROVE buffer'[t] = << >>
  BY <1>2, <1>6 DEF RepInv, Captured
\* The log has what is shown.
<1>7. ASSUME NEW t \in Tables, NEW rows \in Base(t)'
      PROVE  ReplicaOk(buffer'[t], segments[t], rows, ~ rewritten, Due(t)')
  <2>1. tails' = {log'}
    BY DEF FinishCommit, Group
  <2>2. rows = live'.rows[t] \/ rows = log'.rows[t]
    BY <2>1 DEF Base
  <2>3. Shows(log)'
    BY DEF LogInv, Shows
  <2>4. Extends(live'.rows[t], log'.rows[t])
    BY <2>3 DEF Shows, Extends
  <2>5. Range(live'.rows[t]) \subseteq Range(rows)
    BY <2>2, <2>4, ExtendsIs
  <2> QED  BY <1>5, <2>5, ReplicaStays
<1>8. \A t \in Tables : /\ FilesOk(segments[t])
                        /\ t \in registered \ misread => \A i \in DOMAIN segments[t] : i < nextSegment[t]
  BY DEF RepInv
<1> QED  BY <1>2, <1>6, <1>7, <1>8 DEF RepInv

\* Appliers come and go: the buffers of the tables that are not kept are dropped.
LEMMA RepRegister ==
  ASSUME RepInv, Grew, NEW ts \in SUBSET Tables, NEW kept \in SUBSET registered,
         Registered(ts, kept), UNCHANGED rewritten,
         \A t \in Tables : captured'[t] = IF t \in kept THEN captured[t]
                                          ELSE captured[t] \ ToSet(buffer[t])
  PROVE  RepInv'
<1>1. PICK seen : /\ \A t \in ts \ kept : seen[t] \in Listings(t)
                  /\ registered' = ts \cup kept
                  /\ buffer' = [t \in Tables |-> IF t \in kept THEN buffer[t] ELSE << >>]
                  /\ nextSegment' = [t \in Tables |->
                       IF t \in kept THEN nextSegment[t]
                       ELSE IF t \in ts THEN CountExisting(seen[t]) ELSE 0]
                  /\ misread' = misread \cup {t \in ts \ kept :
                       CountExisting(seen[t]) < CountExisting(DOMAIN segments[t])}
                  /\ UNCHANGED segments
  BY DEF Registered
<1>2. \A t \in ts \ kept : seen[t] \in SUBSET DOMAIN segments[t]
  BY <1>1 DEF Listings
<1>3. \A t \in Tables : FilesOk(segments[t])
  BY DEF RepInv
<1>4. ASSUME NEW t \in Tables
      PROVE  /\ t \in ts \ kept => CountExisting(seen[t]) \in Nat
             /\ CountExisting(DOMAIN segments[t]) \in Nat
             /\ \A i \in DOMAIN segments[t] : i < CountExisting(DOMAIN segments[t])
  BY <1>2, <1>3, CountExistingIs
<1>5. nextSegment' \in [Tables -> Nat]
  <2>1. nextSegment \in [Tables -> Nat]
    BY DEF RepInv
  <2> QED  BY <1>1, <1>4, <2>1
<1>6. ASSUME NEW t \in Tables
      PROVE  /\ t \notin registered' => buffer'[t] = << >>
             /\ t \in registered' \ misread' => \A i \in DOMAIN segments'[t] : i < nextSegment'[t]
             /\ FilesOk(segments'[t])
  <2>1. CASE t \in kept
    BY <1>1, <1>3, <2>1 DEF RepInv
  <2>2. CASE t \notin kept
    <3>1. buffer'[t] = << >> /\ segments' = segments
      BY <1>1, <2>2
    <3>2. ASSUME t \in registered', t \notin misread', NEW i \in DOMAIN segments[t]
          PROVE  i < nextSegment'[t]
      <4>1. t \in ts \ kept /\ nextSegment'[t] = CountExisting(seen[t])
        BY <1>1, <2>2, <3>2
      <4>2. ~ (CountExisting(seen[t]) < CountExisting(DOMAIN segments[t]))
        BY <1>1, <3>2, <4>1
      <4>3. /\ CountExisting(seen[t]) \in Nat /\ CountExisting(DOMAIN segments[t]) \in Nat
            /\ i < CountExisting(DOMAIN segments[t]) /\ i \in Nat
        BY <1>3, <1>4, <3>2, <4>1 DEF FilesOk
      <4> QED  BY <4>1, <4>2, <4>3
    <3> QED  BY <1>3, <3>1, <3>2
  <2> QED  BY <2>1, <2>2
<1>7. ASSUME NEW t \in Tables, NEW rows \in Base(t)'
      PROVE  ReplicaOk(buffer'[t], segments'[t], rows, ~ rewritten, Due(t)')
  <2>1. PICK old \in Base(t) : Range(old) \subseteq Range(rows)
    BY DEF Grew
  <2>2. ReplicaOk(buffer[t], segments[t], old, ~ rewritten, Due(t))
    BY DEF RepInv
  <2>3. CASE t \in kept
    <3>1. buffer'[t] = buffer[t] /\ segments' = segments /\ Due(t)' \in SUBSET Due(t)
      BY <1>1, <2>3 DEF Due
    <3>2. ReplicaOk(buffer[t], segments[t], rows, ~ rewritten, Due(t))
      BY <2>1, <2>2, ReplicaStays
    <3> QED  BY <3>1, <3>2, ReplicaLess
  <2>4. CASE t \notin kept
    <3>1. /\ buffer'[t] = << >> /\ segments' = segments
          /\ Due(t)' \in SUBSET (Due(t) \ ToSet(buffer[t]))
      BY <1>1, <2>4 DEF Due
    <3>2. (~ rewritten) \in BOOLEAN
      BY DEF RepInv
    <3>3. ReplicaOk(<< >>, segments[t], rows, ~ rewritten, Due(t) \ ToSet(buffer[t]))
      BY <2>1, <2>2, <3>2, ReplicaDrops
    <3> QED  BY <3>1, <3>3, ReplicaLess
  <2> QED  BY <2>3, <2>4
<1>8. registered' \subseteq Tables
  BY <1>1 DEF RepInv
<1> QED  BY <1>5, <1>6, <1>7, <1>8 DEF RepInv

\* DeltaBuffer::flush of one table, whatever becomes of its file.
LEMMA FlushedIs ==
  ASSUME RepInv, NEW t \in registered, NEW fault \in FaultKinds \cup {"none"}, fault # "list",
         NEW rows \in Base(t),
         NEW still \in BOOLEAN, still => ~ rewritten /\ fault # "sync"
  PROVE  /\ Flushed(t, fault).next = nextSegment[t] + 1
         /\ t \notin misread => \A i \in DOMAIN Flushed(t, fault).files : i < nextSegment[t] + 1
         /\ Flushed(t, fault).buffer = buffer[t] \/ Flushed(t, fault).buffer = << >>
         /\ ReplicaOk(Flushed(t, fault).buffer, Flushed(t, fault).files, rows, still, Due(t))
<1> DEFINE k == nextSegment[t]
           buf == buffer[t]
           segs == segments[t]
           image == IF fault = "torn" THEN TornSegment ELSE BuildSegment(buf)
           left == IF fault = "none" THEN << >> ELSE buf
           more == [j \in DOMAIN segs \cup {k} |-> IF j = k THEN image ELSE segs[j]]
           once == ~ rewritten
           cap == Due(t)
<1>1. /\ k \in Nat /\ DOMAIN segs \subseteq Nat
      /\ t \notin misread => \A i \in DOMAIN segs : i < k
      /\ ReplicaOk(buf, segs, rows, once, cap) /\ once \in BOOLEAN
      /\ t \in misread => cap = {}
  <2>1. t \in Tables
    BY DEF RepInv
  <2> QED  BY <2>1 DEF RepInv, FilesOk, Due
<1>2. /\ Flushed(t, fault).next = k + 1
      /\ Flushed(t, fault).buffer = left
      /\ Flushed(t, fault).files = IF fault = "open" THEN segs ELSE more
  BY DEF Flushed
<1>3. t \notin misread => \A i \in DOMAIN segs : i < k + 1
  BY <1>1
<1>4. CASE fault = "open"
  <2>1. left = buf
    BY <1>4
  <2>2. ReplicaOk(buf, segs, rows, still, cap)
    BY <1>1 DEF ReplicaOk, PiecesOk
  <2> QED  BY <1>2, <1>3, <1>4, <2>1, <2>2
<1>5. CASE fault # "open"
  <2>1. /\ image = TornSegment \/ image = BuildSegment(buf)
        /\ left = buf \/ (left = << >> /\ image = BuildSegment(buf))
        /\ still => left = << >> \/ image = TornSegment
    BY <1>5 DEF FaultKinds
  <2>2. k \notin DOMAIN segs \/ cap = {}
    BY <1>1
  <2>3. still => once
    OBVIOUS
  <2>4. /\ t \notin misread => \A i \in DOMAIN more : i < k + 1
        /\ OneMore(more, segs, k, image)
    BY <1>1, <1>3 DEF OneMore
  <2> HIDE DEF image, left, once, buf, segs, k, more, cap
  <2>5. ReplicaOk(left, more, rows, still, cap)
    BY <1>1, <2>1, <2>2, <2>3, <2>4, ReplicaFlushes
  <2>6. left = buf \/ left = << >>
    BY <2>1
  <2> QED  BY <1>2, <1>5, <2>4, <2>5, <2>6 DEF k, buf, cap
<1> QED  BY <1>4, <1>5

LEMMA RepFlush ==
  ASSUME RepInv, NEW failed \in SUBSET Tables, NEW fault \in FaultKinds \cup {"none"},
         failed # {} \/ fault = "none", fault # "list", FlushToColumnar(failed, fault)
  PROVE  RepInv'
<1>0. UNCHANGED <<engineVars, missed, captured>>
  BY Zenon DEF FlushToColumnar
<1>1. /\ rewritten' = (rewritten \/ (failed # {} /\ fault = "sync"))
      /\ UNCHANGED <<live, tails, captured>>
  <2>1. rewritten' = (rewritten \/ (failed # {} /\ fault = "sync"))
    BY Zenon DEF FlushToColumnar
  <2> QED  BY <1>0, <2>1 DEF engineVars, logVars
<1>2. PICK done \in SUBSET registered : FlushTables(done, failed, fault)
  <2>1. \E d \in IF failed = {} THEN {registered} ELSE SUBSET (registered \ failed) :
          FlushTables(d, failed, fault)
    BY Zenon DEF FlushToColumnar
  <2> QED  BY <2>1
<1> DEFINE hit == {t \in done \cup failed : buffer[t] # << >>}
           met(t) == IF t \in failed THEN fault ELSE "none"
           r == [t \in Tables |-> Flushed(t, met(t))]
<1>3. /\ buffer' = [t \in Tables |-> IF t \in hit THEN r[t].buffer ELSE buffer[t]]
      /\ nextSegment' = [t \in Tables |-> IF t \in hit THEN r[t].next ELSE nextSegment[t]]
      /\ segments' = [t \in Tables |-> IF t \in hit THEN r[t].files ELSE segments[t]]
      /\ UNCHANGED <<registered, misread>>
  BY <1>2 DEF FlushTables
<1>8. /\ \A t \in Tables : Base(t)' = Base(t) /\ Due(t)' = Due(t)
      /\ \A t \in Tables \cap hit : t \in registered
  BY <1>1, <1>3 DEF Base, Due, RepInv
<1>4. /\ rewritten' \in BOOLEAN /\ (~ rewritten') \in BOOLEAN
      /\ ~ rewritten' => ~ rewritten
      /\ \A t \in Tables : ~ rewritten' => met(t) # "sync"
      /\ \A t \in Tables : met(t) \in FaultKinds \cup {"none"} /\ met(t) # "list"
  BY <1>1 DEF RepInv
<1>5. \A t \in Tables : r[t] = Flushed(t, met(t))
  OBVIOUS
<1> HIDE DEF hit, met, r
<1>6. ASSUME NEW t \in Tables
      PROVE  /\ nextSegment'[t] \in Nat
             /\ t \notin registered => buffer'[t] = << >>
             /\ t \in registered \ misread => \A i \in DOMAIN segments'[t] : i < nextSegment'[t]
             /\ FilesOk(segments'[t])
             /\ \A rows \in Base(t) :
                  ReplicaOk(buffer'[t], segments'[t], rows, ~ rewritten', Due(t))
  <2>1. /\ nextSegment[t] \in Nat /\ FilesOk(segments[t]) /\ live.rows[t] \in Base(t)
        /\ t \in registered \ misread => \A i \in DOMAIN segments[t] : i < nextSegment[t]
        /\ t \notin registered => buffer[t] = << >>
        /\ \A rows \in Base(t) : ReplicaOk(buffer[t], segments[t], rows, ~ rewritten, Due(t))
    BY DEF RepInv, Base
  <2>2. CASE t \in hit
    <3> DEFINE still == ~ rewritten'
    <3>1. still => ~ rewritten /\ met(t) # "sync"
      BY <1>4
    <3>2. still \in BOOLEAN /\ met(t) \in FaultKinds \cup {"none"} /\ t \in registered
      BY <1>4, <1>8, <2>2
    <3> HIDE DEF still
    <3>3. PICK m \in FaultKinds \cup {"none"} : m = met(t)
      BY <3>2
    <3>4. ASSUME NEW rows \in Base(t)
          PROVE  /\ Flushed(t, m).next = nextSegment[t] + 1
                 /\ t \notin misread => \A i \in DOMAIN Flushed(t, m).files : i < nextSegment[t] + 1
                 /\ Flushed(t, m).buffer = buffer[t] \/ Flushed(t, m).buffer = << >>
                 /\ ReplicaOk(Flushed(t, m).buffer, Flushed(t, m).files, rows, still, Due(t))
      <4>1. m # "list"
        BY <1>4, <3>3
      <4> QED  BY <3>1, <3>2, <3>3, <4>1, FlushedIs
    <3>5. /\ nextSegment'[t] = Flushed(t, m).next
          /\ buffer'[t] = Flushed(t, m).buffer
          /\ segments'[t] = Flushed(t, m).files
      BY <1>3, <1>5, <2>2, <3>3
    <3>6. nextSegment[t] + 1 \in Nat
      BY <2>1
    <3>7. FilesOk(segments'[t])
      BY <2>1, <3>4, <3>5 DEF ReplicaOk
    <3> QED  BY <2>1, <3>4, <3>5, <3>6, <3>7 DEF still
  <2>3. CASE t \notin hit
    <3>1. /\ nextSegment'[t] = nextSegment[t] /\ buffer'[t] = buffer[t]
          /\ segments'[t] = segments[t]
      BY <1>3, <2>3
    <3>2. \A rows \in Base(t) : ReplicaOk(buffer[t], segments[t], rows, ~ rewritten', Due(t))
      BY <1>4, <2>1 DEF ReplicaOk, PiecesOk
    <3> QED  BY <2>1, <3>1, <3>2
  <2> QED  BY <2>2, <2>3
<1>7. nextSegment' \in [Tables -> Nat]
  <2>1. nextSegment' = [t \in Tables |-> nextSegment'[t]]
    BY <1>3
  <2> QED  BY <1>6, <2>1
<1> QED  BY <1>3, <1>4, <1>6, <1>7, <1>8 DEF RepInv

LEMMA RepOpen ==
  ASSUME RepInv, Grew, NEW l, OpenDb(l)
  PROVE  RepInv'
<1>1. /\ Registered({}, {}) /\ UNCHANGED rewritten
      /\ captured' = [t \in Tables |-> captured[t] \ ToSet(buffer[t])]
  BY DEF OpenDb
<1>2. \A t \in Tables : captured'[t] = IF t \in {} THEN captured[t] ELSE captured[t] \ ToSet(buffer[t])
  BY <1>1
<1>3. {} \in SUBSET Tables /\ {} \in SUBSET registered
  OBVIOUS
<1> QED  BY <1>1, <1>2, <1>3, RepRegister

LEMMA RepStep == LogInv /\ TxnInv /\ TailsInv /\ RepInv /\ [Next]_vars => RepInv'
<1> SUFFICES ASSUME LogInv, TxnInv, TailsInv, RepInv, [Next]_vars PROVE RepInv'
  OBVIOUS
<1>0. LogInv' /\ Grew
  BY LogStep, TailsStep
<1>1. ASSUME UNCHANGED <<deltaVars, rewritten, captured>> PROVE RepInv'
  BY <1>0, <1>1, RepFrame DEF deltaVars
<1>2. ASSUME NEW b, NewBatch(b),
             \/ \E stop \in 1..(Len(b) + 1) : FinishCommit(b, stop)
             \/ \E fault \in LogFaults : FinishFails(b, fault)
      PROVE  RepInv'
  <2>1. ASSUME NEW fault \in LogFaults, FinishFails(b, fault) PROVE RepInv'
    BY <1>1, <2>1 DEF FinishFails, Derived
  <2> QED  BY <1>0, <1>2, <2>1, RepCommit
<1>3. ASSUME NEW b, NEW S, b \in Seq(S) PROVE Stops(b) \subseteq 1..(Len(b) + 1)
  BY <1>3 DEF Stops
<1>4. ASSUME NEW t \in Tables, CreateTable(t) PROVE RepInv'
  <2>1. UNCHANGED <<rewritten, captured>>
    BY <1>4 DEF CreateTable
  <2>2. CASE columnar
    <3>1. registered \in SUBSET registered /\ registered \cup {t} \in SUBSET Tables
      BY DEF RepInv
    <3>2. Registered(registered \cup {t}, registered)
      BY <1>4, <2>2 DEF CreateTable
    <3>3. ASSUME NEW u \in Tables
          PROVE  captured'[u] = IF u \in registered THEN captured[u]
                                ELSE captured[u] \ ToSet(buffer[u])
      <4>1. u \notin registered => ToSet(buffer[u]) = {}
        BY DEF RepInv, ToSet
      <4> QED  BY <2>1, <4>1
    <3> QED  BY <1>0, <2>1, <3>1, <3>2, <3>3, RepRegister
  <2>3. CASE ~ columnar
    BY <1>1, <1>4, <2>1, <2>3 DEF CreateTable
  <2> QED  BY <2>2, <2>3
<1>5. ASSUME NEW t \in Tables, CreateIndex(t) \/ DropIndex(t) PROVE RepInv'
  BY <1>1, <1>5 DEF CreateIndex, DropIndex
<1>6. ASSUME NEW t \in Tables, NEW v \in RowValues, NEW w \in RowValues, InsertAutocommit(t, <<v, w>>)
      PROVE  RepInv'
  <2>0. <<v, w>> \in Seq(RowValues)
    OBVIOUS
  <2>1. PICK vals \in Seq(RowValues) : vals = <<v, w>>
    BY <2>0, Zenon
  <2>2. InsertAutocommit(t, vals)
    BY <1>6, <2>1
  <2>3. NewBatch(Statement(t, vals))
    BY <2>2, NumberIs, StatementIsNew DEF InsertAutocommit
  <2>4. Statement(t, vals) \in Seq(Entries) /\ Len(Statement(t, vals)) = Len(vals)
    BY <2>3 DEF NewBatch, Statement
  <2>5. Stops(vals) \subseteq 1..(Len(Statement(t, vals)) + 1)
    BY <1>3, <2>4
  <2> QED  BY <1>2, <2>2, <2>3, <2>5 DEF InsertAutocommit
<1>7. ASSUME NEW s \in Sessions, Commit(s) PROVE RepInv'
  <2>1. NewBatch(txn[s]) /\ txn[s] \in Seq(Entries)
    BY <1>7, BufferedIsNew DEF Commit, NewBatch
  <2>2. Stops(txn[s]) \subseteq 1..(Len(txn[s]) + 1)
    BY <1>3, <2>1
  <2>3. ASSUME UNCHANGED Derived PROVE RepInv'
    BY <1>1, <2>3 DEF Derived
  <2> QED  BY <1>2, <1>7, <2>1, <2>2, <2>3 DEF Commit
<1>8. ASSUME NEW t \in Tables, NEW v \in RowValues, NEW s \in Sessions, InsertInTxn(s, t, <<v>>)
      PROVE  RepInv'
  BY <1>1, <1>8 DEF InsertInTxn, Derived
<1>9. ASSUME NEW s \in Sessions, Begin(s) \/ Rollback(s) PROVE RepInv'
  BY <1>1, <1>9 DEF Begin, Rollback, Derived
<1>10. ASSUME NEW fault \in LogFaults, DdlFails(fault) PROVE RepInv'
  BY <1>1, <1>10 DEF DdlFails, Derived
<1>11. ASSUME WithColumnar PROVE RepInv'
  <2>1. /\ Registered(live.tables, {}) /\ UNCHANGED rewritten
        /\ captured' = [t \in Tables |-> captured[t] \ ToSet(buffer[t])]
    BY <1>11 DEF WithColumnar
  <2>2. live.tables \in SUBSET Tables /\ {} \in SUBSET registered
    BY DEF LogInv, LogShape, Shown
  <2>3. \A t \in Tables : captured'[t] = IF t \in {} THEN captured[t]
                                         ELSE captured[t] \ ToSet(buffer[t])
    BY <2>1
  <2> QED  BY <1>0, <2>1, <2>2, <2>3, RepRegister
<1>12. ASSUME FlushToColumnar({}, "none") PROVE RepInv'
  <2>1. {} \in SUBSET Tables /\ "none" \in FaultKinds \cup {"none"}
    OBVIOUS
  <2> QED  BY <1>12, <2>1, RepFlush
<1>13. ASSUME NEW t \in registered, NEW fault \in FileFaults \ {"list"}, FlushToColumnar({t}, fault)
       PROVE  RepInv'
  <2>1. {t} \in SUBSET Tables /\ fault \in FaultKinds \cup {"none"}
    BY FileFaultsAssumption DEF RepInv
  <2>2. {t} # {}
    OBVIOUS
  <2> QED  BY <1>13, <2>1, <2>2, RepFlush
<1>14. ASSUME Reopen PROVE RepInv'
  BY <1>0, <1>14, ReopenIs, RepOpen
<1>15. ASSUME UNCHANGED vars PROVE RepInv'
  BY <1>1, <1>15 DEF vars, engineVars
<1> QED
  BY <1>4, <1>5, <1>6, <1>7, <1>8, <1>9, <1>10, <1>11, <1>12, <1>13, <1>14, <1>15 DEF Next

LEMMA RepStart == Init => RepInv
<1> SUFFICES ASSUME Init PROVE RepInv
  OBVIOUS
<1>1. /\ live.rows = [t \in Tables |-> NoRows] /\ rewritten = FALSE
      /\ captured = [t \in Tables |-> {}]
      /\ registered = {} /\ buffer = [t \in Tables |-> << >>]
      /\ nextSegment = [t \in Tables |-> 0] /\ segments = [t \in Tables |-> NoFiles]
      /\ tails = {log} /\ log.rows = [t \in Tables |-> NoRows] /\ misread = {}
  BY DEF Init, DeltaInit
<1>2. DOMAIN NoFiles = {} /\ NoFiles = [i \in DOMAIN NoFiles |-> NoFiles[i]]
  BY DEF NoFiles
<1>3. << >> \in Seq(Rows) /\ DOMAIN << >> = {} /\ ToSet(<< >>) = {}
  BY DEF ToSet
<1>4. FilesOk(NoFiles)
  BY <1>2 DEF FilesOk
<1>5. \A i \in DOMAIN Pieces(<< >>, NoFiles) : i = -1 /\ Pieces(<< >>, NoFiles)[i] = << >>
  BY <1>2 DEF Pieces
<1>6. PiecesOk(Pieces(<< >>, NoFiles), NoRows, TRUE)
  BY <1>3, <1>5 DEF PiecesOk
<1>7. ReplicaOk(<< >>, NoFiles, NoRows, TRUE, {})
  BY <1>4, <1>6 DEF ReplicaOk, KeptIn
<1>8. \A t \in Tables : Due(t) = {} /\ \A rows \in Base(t) : rows = NoRows
  BY <1>1 DEF Due, Base
<1> QED  BY <1>1, <1>2, <1>4, <1>7, <1>8 DEF RepInv

LEMMA RepAlways == Spec => []RepInv
<1>1. LogInv /\ TxnInv /\ TailsInv /\ RepInv /\ [Next]_vars => RepInv'
  BY RepStep
<1> QED  BY <1>1, LogAlways, RepStart, PTL DEF Spec

\* The parts of a table's replica, with what RepInv says of them.
LEMMA ChunksAre ==
  ASSUME RepInv, NEW t \in Tables
  PROVE  /\ Chunks(t) = Pieces(buffer[t], segments[t])
         /\ PiecesOk(Chunks(t), live.rows[t], ~ rewritten)
         /\ buffer[t] \in Seq(Rows)
         /\ ToSet(buffer[t]) \subseteq ReplicaRows(t)
         /\ \A i \in DOMAIN segments[t] : ToSet(ReadSegment(segments[t][i]).rows) \subseteq ReplicaRows(t)
<1> DEFINE c == Chunks(t)
<1>1. c = Pieces(buffer[t], segments[t])
  BY DEF Chunks, Pieces
<1>2. FilesOk(segments[t]) /\ PiecesOk(c, live.rows[t], ~ rewritten)
  BY <1>1 DEF RepInv, ReplicaOk, Base
<1>3. /\ -1 \in DOMAIN c /\ c[-1] = buffer[t]
      /\ \A i \in DOMAIN segments[t] : i \in DOMAIN c /\ c[i] = ReadSegment(segments[t][i]).rows
  BY <1>2 DEF Chunks, FilesOk
<1>4. \A i \in DOMAIN c : ToSet(c[i]) \subseteq ReplicaRows(t)
  BY DEF ReplicaRows
<1> HIDE DEF c
<1>5. buffer[t] \in Seq(Rows)
  BY <1>2, <1>3 DEF PiecesOk
<1> QED  BY <1>1, <1>2, <1>3, <1>4, <1>5 DEF c

\* Every row in the buffers and segments is committed, whatever transactions roll
\* back or fail, and none is there twice, whatever flushes fail and whenever the
\* database is opened again, unless a whole segment was reported as failed.
THEOREM ReplicasAreCommitted == Spec => []ReplicaIsCommitted
<1>1. RepInv => ReplicaIsCommitted
  <2> SUFFICES ASSUME RepInv, NEW t \in Tables
               PROVE  LET chunks == Chunks(t) IN
                      /\ ReplicaRows(t) \subseteq Range(live.rows[t])
                      /\ ~ rewritten =>
                           \A i, j \in DOMAIN chunks : \A n \in DOMAIN chunks[i], m \in DOMAIN chunks[j] :
                             chunks[i][n] = chunks[j][m] => i = j /\ n = m
    BY DEF ReplicaIsCommitted
  <2>1. PiecesOk(Chunks(t), live.rows[t], ~ rewritten)
    BY ChunksAre
  <2> QED  BY <2>1 DEF PiecesOk, ReplicaRows
<1> QED  BY <1>1, RepAlways, PTL

\* A committed row that was captured stays readable in the replica until its
\* applier is dropped, unless some segment was encoded so that it cannot be read,
\* or a buffer of its table did not see the last segment of the table when it was
\* made, and takes its number again.
THEOREM CapturedRowsStay == Spec => []CapturedIsKept
<1>1. RepInv => CapturedIsKept
  <2> SUFFICES ASSUME RepInv, NEW t \in Tables \ misread
               PROVE  \/ captured[t] \subseteq ReplicaRows(t)
                      \/ \E i \in DOMAIN segments[t] : Lossy(segments[t][i])
    BY DEF CapturedIsKept
  <2>1. live.rows[t] \in Base(t) /\ Due(t) = captured[t]
    BY DEF Base, Due
  <2>2. KeptIn(captured[t], buffer[t], segments[t])
    BY <2>1 DEF RepInv, ReplicaOk
  <2> QED  BY <2>2, ChunksAre DEF KeptIn
<1> QED  BY <1>1, RepAlways, PTL

\* Whatever a buffer holds when it is flushed, each encoding that flush may choose
\* for a column decodes to the column, but for a run-length encoded one with a NULL:
\* its runs end too early, and the decoder fails instead of shifting values.
THEOREM ColumnsDecode == Spec => []ColumnsReadBack
<1>1. RepInv => ColumnsReadBack
  <2> SUFFICES ASSUME RepInv, NEW t \in Tables
               PROVE  /\ ReadsBack(EncodeInt(Column(buffer[t], "id")), Column(buffer[t], "id"))
                      /\ ReadsBack(EncodeInt(Column(buffer[t], "int")), Column(buffer[t], "int"))
                      /\ ReadsBack(EncodeText(Column(buffer[t], "text")), Column(buffer[t], "text"))
    BY DEF ColumnsReadBack
  <2>1. buffer[t] \in Seq(Rows)
    BY ChunksAre
  <2> DEFINE c == Column(buffer[t], "id")  d == Column(buffer[t], "int")
             e == Column(buffer[t], "text")
  <2>2. c \in Seq(Nat) /\ d \in Seq(Cells) /\ e \in Seq(Cells)
    BY <2>1, ColumnsAre
  <2> HIDE DEF c, d, e
  <2>3. ReadsBack(EncodeInt(c), c) /\ ReadsBack(EncodeInt(d), d) /\ ReadsBack(EncodeText(e), e)
    BY <2>2, IntReads, TextReads
  <2> QED  BY <2>3 DEF c, d, e
<1> QED  BY <1>1, RepAlways, PTL
=============================================================================
