------------------------- MODULE IndexedTableProofs -------------------------
(***************************************************************************)
(* Theorems about the indexes of tables, for any tables and rows, and for  *)
(* leaves and internal nodes of any size.                                  *)
(*                                                                         *)
(* Every node of a tree has a span of keys and a level, and the leaves     *)
(* form a chain (Sound, Rooted): insertion is followed from its leaf, up   *)
(* the way back, where one node at a time may have a right half that no    *)
(* parent knows yet (Joined), to the root.  From this Keeps follows what   *)
(* lookups and scans find, and then IInv for the tables and their indexes. *)
(***************************************************************************)
EXTENDS IndexedTable, NumberLemmas, FiniteSetTheorems, SequenceTheorems, TLAPS

----------------------------------------------------------------------------
(* The order of keys.                                                      *)

Key == Seq(Int)

\* No key is below itself.
LEMMA LessIrreflexive == \A a \in Key : ~ Less(a, a)
BY DEF Less, Key

\* The order is transitive: the first difference decides.
LEMMA LessTransitive == \A a, b, c \in Key : Less(a, b) /\ Less(b, c) => Less(a, c)
<1> SUFFICES ASSUME NEW a \in Key, NEW b \in Key, NEW c \in Key, Less(a, b), Less(b, c)
             PROVE  Less(a, c)
  OBVIOUS
<1>1. PICK i \in 1..Len(b) : /\ \A j \in 1..(i - 1) : j <= Len(a) /\ a[j] = b[j]
                             /\ i > Len(a) \/ (i <= Len(a) /\ a[i] < b[i])
  BY DEF Less
<1>2. PICK k \in 1..Len(c) : /\ \A j \in 1..(k - 1) : j <= Len(b) /\ b[j] = c[j]
                             /\ k > Len(b) \/ (k <= Len(b) /\ b[k] < c[k])
  BY DEF Less
<1>3. /\ Len(a) \in Nat /\ Len(b) \in Nat /\ Len(c) \in Nat
      /\ \A j \in 1..Len(a) : a[j] \in Int
      /\ \A j \in 1..Len(b) : b[j] \in Int
      /\ \A j \in 1..Len(c) : c[j] \in Int
  BY DEF Key
<1>4. CASE i <= k
  <2>1. i <= Len(c) /\ \A j \in 1..(i - 1) : j <= Len(a) /\ a[j] = c[j]
    BY <1>1, <1>2, <1>3, <1>4
  <2>2. i > Len(a) \/ (i <= Len(a) /\ a[i] < c[i])
    BY <1>1, <1>2, <1>3, <1>4
  <2> QED  BY <1>1, <1>3, <2>1, <2>2 DEF Less
<1>5. CASE k < i
  <2>1. k <= Len(a) /\ k <= Len(b) /\ a[k] = b[k] /\ \A j \in 1..(k - 1) : j <= Len(a) /\ a[j] = c[j]
    BY <1>1, <1>2, <1>3, <1>5
  <2>2. a[k] < c[k]
    BY <1>2, <1>3, <2>1
  <2> QED  BY <1>2, <1>3, <2>1, <2>2 DEF Less
<1> QED  BY <1>1, <1>2, <1>3, <1>4, <1>5

\* Of two keys one is below the other.
LEMMA LessTotal == \A a, b \in Key : a = b \/ Less(a, b) \/ Less(b, a)
<1> SUFFICES ASSUME NEW a \in Key, NEW b \in Key, a # b PROVE Less(a, b) \/ Less(b, a)
  OBVIOUS
<1> DEFINE Differ == {p \in Nat : p >= 1 /\ (p > Len(a) \/ p > Len(b) \/ a[p] # b[p])}
<1>1. /\ Len(a) \in Nat /\ Len(b) \in Nat
      /\ \A j \in 1..Len(a) : a[j] \in Int
      /\ \A j \in 1..Len(b) : b[j] \in Int
  BY DEF Key
<1>2. Len(a) + 1 \in Differ
  BY <1>1
<1>3. PICK p \in Differ : \A q \in Differ : ~ (q < p)
  <2>1. Differ \in SUBSET Nat /\ Differ # {}
    BY <1>2
  <2> HIDE DEF Differ
  <2> QED  BY <2>1, LeastNumber
<1>4. \A j \in 1..(p - 1) : j <= Len(a) /\ j <= Len(b) /\ a[j] = b[j]
  BY <1>1, <1>3
<1>5. CASE p > Len(a) /\ p > Len(b)
  <2>1. Len(a) = Len(b) /\ \A j \in 1..Len(a) : a[j] = b[j]
    BY <1>1, <1>3, <1>4, <1>5
  <2>2. a \in Seq(Int) /\ b \in Seq(Int)
    BY DEF Key
  <2> QED  BY <2>1, <2>2, SeqEqual
<1>6. CASE p > Len(a) /\ p <= Len(b)
  BY <1>1, <1>3, <1>4, <1>6 DEF Less
<1>7. CASE p <= Len(a) /\ p > Len(b)
  BY <1>1, <1>3, <1>4, <1>7 DEF Less
<1>8. CASE p <= Len(a) /\ p <= Len(b)
  <2>1. p \in 1..Len(a) /\ p \in 1..Len(b) /\ (a[p] < b[p] \/ b[p] < a[p])
    BY <1>1, <1>3, <1>8
  <2>2. a[p] < b[p] => Less(a, b)
    BY <1>1, <1>4, <2>1 DEF Less
  <2>3. b[p] < a[p] => Less(b, a)
    BY <1>1, <1>4, <2>1 DEF Less
  <2> QED  BY <2>1, <2>2, <2>3
<1> QED  BY <1>1, <1>3, <1>5, <1>6, <1>7, <1>8

\* The empty key is above none.
LEMMA LessEmpty == \A a \in Key : ~ Less(a, << >>)
BY DEF Less, Key

\* What is below and what is not, next to each other.
LEMMA LessFacts ==
  ASSUME NEW a \in Key, NEW b \in Key
  PROVE  /\ ~ Less(a, a)
         /\ Less(a, b) => ~ Less(b, a) /\ a # b
         /\ ~ Less(a, b) => Less(b, a) \/ a = b
         /\ \A c \in Key : /\ Less(a, b) /\ Less(b, c) => Less(a, c)
                           /\ ~ Less(a, b) /\ ~ Less(b, c) => ~ Less(a, c)
                           /\ Less(a, b) /\ ~ Less(c, b) => Less(a, c)
                           /\ ~ Less(b, a) /\ Less(b, c) => Less(a, c)
<1>1. Less(a, b) => ~ Less(b, a) /\ a # b
  BY LessIrreflexive, LessTransitive
<1>2. ~ Less(a, b) => Less(b, a) \/ a = b
  BY LessTotal
<1>3. ASSUME NEW c \in Key
      PROVE /\ Less(a, b) /\ Less(b, c) => Less(a, c)
            /\ ~ Less(a, b) /\ ~ Less(b, c) => ~ Less(a, c)
            /\ Less(a, b) /\ ~ Less(c, b) => Less(a, c)
            /\ ~ Less(b, a) /\ Less(b, c) => Less(a, c)
  <2>1. Less(a, b) /\ Less(b, c) => Less(a, c)
    BY LessTransitive
  <2>2. Less(a, b) /\ ~ Less(c, b) => Less(a, c)
    BY LessTransitive, LessTotal
  <2>3. ~ Less(b, a) /\ Less(b, c) => Less(a, c)
    BY LessTransitive, LessTotal
  <2>4. ~ Less(a, b) /\ ~ Less(b, c) => ~ Less(a, c)
    BY <2>3, LessTransitive, LessTotal
  <2> QED  BY <2>1, <2>2, <2>3, <2>4
<1> QED  BY <1>1, <1>2, <1>3, LessIrreflexive

Entry == [key : Key, value : Nat]

\* The order of entries is strict and total too.
LEMMA BelowFacts ==
  ASSUME NEW d \in Entry, NEW e \in Entry
  PROVE  /\ ~ Below(d, d)
         /\ Below(d, e) => ~ Below(e, d) /\ ~ Less(e.key, d.key)
         /\ ~ Below(d, e) => Below(e, d) \/ d = e
         /\ \A f \in Entry : Below(d, e) /\ Below(e, f) => Below(d, f)
<1>1. d.key \in Key /\ e.key \in Key /\ d.value \in Nat /\ e.value \in Nat
  BY DEF Entry
<1>2. d.key = e.key /\ d.value = e.value => d = e
  BY DEF Entry
<1>3. /\ ~ Below(d, d)
      /\ Below(d, e) => ~ Below(e, d) /\ ~ Less(e.key, d.key)
      /\ ~ Below(d, e) => Below(e, d) \/ d = e
  BY <1>1, <1>2, LessFacts DEF Below
<1>4. ASSUME NEW f \in Entry, Below(d, e), Below(e, f) PROVE Below(d, f)
  <2>1. f.key \in Key /\ f.value \in Nat
    BY DEF Entry
  <2> QED  BY <1>1, <1>4, <2>1, LessTransitive DEF Below
<1> QED  BY <1>3, <1>4

----------------------------------------------------------------------------
(* Positions in sequences.                                                 *)

\* A set of positions with all those before them is counted by its last one.
LEMMA PrefixCount ==
  ASSUME NEW n \in Nat, NEW S \in SUBSET (1..n), \A i \in S : \A j \in 1..i : j \in S
  PROVE  /\ Cardinality(S) \in 0..n
         /\ \A i \in 1..n : i \in S <=> i <= Cardinality(S)
<1>1. PICK r \in 0..n : S = 1..r
  <2>1. CASE S = {}
    <3>1. 0 \in 0..n /\ 1..0 = {}
      OBVIOUS
    <3> QED  BY <2>1, <3>1
  <2>2. CASE S # {}
    <3>1. PICK r \in S : \A j \in S : j <= r
      BY <2>2, LastPosition
    <3>2. \A i \in 1..r : i \in S
      BY <3>1
    <3>3. \A i \in S : i \in 1..r
      BY <3>1
    <3>4. S = 1..r
      BY <3>2, <3>3
    <3>5. r \in 0..n
      BY <3>1
    <3> QED  BY <3>4, <3>5
  <2> QED  BY <2>1, <2>2
<1>2. Cardinality(1..r) = r
  <2>1. Cardinality(1..r) = IF 1 > r THEN 0 ELSE r - 1 + 1
    BY FS_Interval
  <2> QED  BY <2>1
<1> QED  BY <1>1, <1>2

\* The sequence s with x behind its first r elements.
Widened(t, s, r, x) ==
  /\ Len(t) = Len(s) + 1 /\ t[r + 1] = x
  /\ \A i \in 1..r : t[i] = s[i]
  /\ \A i \in (r + 1)..Len(s) : t[i + 1] = s[i]
  /\ \A i \in 1..(Len(s) + 1) : /\ i <= r => i \in 1..Len(s) /\ t[i] = s[i]
                                /\ i > r + 1 => i - 1 \in (r + 1)..Len(s) /\ t[i] = s[i - 1]

\* What InsertAt returns.
LEMMA InsertAtFacts ==
  ASSUME NEW T, NEW s \in Seq(T), NEW x \in T, NEW r \in 0..Len(s), NEW t, t = InsertAt(s, r + 1, x)
  PROVE  t \in Seq(T) /\ Widened(t, s, r, x)
<1> DEFINE a == SubSeq(s, 1, r)  b == SubSeq(s, r + 1, Len(s))  m == <<x>>
<1>1. Len(s) \in Nat /\ \A i \in 1..Len(s) : s[i] \in T
  OBVIOUS
<1>2. a \in Seq(T) /\ Len(a) = r /\ \A i \in 1..r : a[i] = s[i]
  BY <1>1
<1>3. b \in Seq(T) /\ Len(b) = Len(s) - r /\ \A i \in 1..(Len(s) - r) : b[i] = s[r + i]
  BY <1>1
<1>4. m \in Seq(T) /\ Len(m) = 1 /\ m[1] = x
  OBVIOUS
<1>5. InsertAt(s, r + 1, x) = (a \o m) \o b
  <2>1. (r + 1) - 1 = r
    OBVIOUS
  <2> QED  BY <2>1 DEF InsertAt
<1> HIDE DEF a, b, m
<1> DEFINE c == a \o m
<1>6. c \in Seq(T) /\ Len(c) = r + 1 /\ c[r + 1] = x /\ \A i \in 1..r : c[i] = s[i]
  <2>1. /\ c \in Seq(T) /\ Len(c) = Len(a) + Len(m)
        /\ \A i \in 1..Len(a) + Len(m) : c[i] = IF i <= Len(a) THEN a[i] ELSE m[i - Len(a)]
    BY <1>2, <1>4, ConcatProperties
  <2> HIDE DEF c
  <2>2. c[r + 1] = m[(r + 1) - r]
    BY <1>2, <1>4, <2>1
  <2>3. (r + 1) - r = 1
    OBVIOUS
  <2>4. \A i \in 1..r : i \in 1..Len(a) + Len(m) /\ i <= Len(a)
    BY <1>2, <1>4
  <2> QED  BY <1>2, <1>4, <2>1, <2>2, <2>3, <2>4
<1> HIDE DEF c
<1> DEFINE d == c \o b
<1>7. /\ d \in Seq(T) /\ Len(d) = Len(c) + Len(b)
      /\ \A i \in 1..Len(c) + Len(b) : d[i] = IF i <= Len(c) THEN c[i] ELSE b[i - Len(c)]
  BY <1>3, <1>6, ConcatProperties
<1>8. InsertAt(s, r + 1, x) = d
  BY <1>5 DEF c
<1> HIDE DEF d
<1>9. Len(d) = Len(s) + 1 /\ d[r + 1] = x /\ \A i \in 1..r : d[i] = s[i]
  <2>1. Len(c) + Len(b) = Len(s) + 1
    BY <1>1, <1>3, <1>6
  <2>2. \A i \in 1..(r + 1) : i \in 1..Len(c) + Len(b) /\ i <= Len(c) /\ d[i] = c[i]
    BY <1>1, <1>3, <1>6, <1>7
  <2>3. r + 1 \in 1..(r + 1) /\ \A i \in 1..r : i \in 1..(r + 1)
    OBVIOUS
  <2> QED  BY <1>6, <1>7, <2>1, <2>2, <2>3
<1>10. ASSUME NEW i \in (r + 1)..Len(s) PROVE d[i + 1] = s[i]
  <2>1. i + 1 \in 1..Len(c) + Len(b) /\ ~ (i + 1 <= Len(c)) /\ (i + 1) - Len(c) = i - r
    BY <1>1, <1>3, <1>6
  <2>2. d[i + 1] = b[i - r]
    BY <1>7, <2>1
  <2>3. i - r \in 1..(Len(s) - r) /\ r + (i - r) = i
    BY <1>1
  <2> QED  BY <1>3, <2>2, <2>3
<1>11. ASSUME NEW i \in 1..(Len(s) + 1)
       PROVE  /\ i <= r => i \in 1..Len(s) /\ d[i] = s[i]
              /\ i > r + 1 => i - 1 \in (r + 1)..Len(s) /\ d[i] = s[i - 1]
  <2>1. i > r + 1 => i - 1 \in (r + 1)..Len(s) /\ (i - 1) + 1 = i
    BY <1>1
  <2>2. i > r + 1 => d[(i - 1) + 1] = s[i - 1]
    BY <1>10, <2>1
  <2>3. i <= r => i \in 1..r /\ i \in 1..Len(s)
    BY <1>1
  <2> QED  BY <1>9, <2>1, <2>2, <2>3
<1>12. t = d
  BY <1>8
<1>13. d \in Seq(T)
  BY <1>7
<1> QED  BY <1>9, <1>10, <1>11, <1>12, <1>13 DEF Widened

\* What a part of a sequence holds.
LEMMA PartFacts ==
  ASSUME NEW T, NEW s \in Seq(T), NEW m \in 1..(Len(s) + 1), NEW n \in (m - 1)..Len(s)
  PROVE  /\ SubSeq(s, m, n) \in Seq(T)
         /\ Len(SubSeq(s, m, n)) = n - m + 1
         /\ \A i \in 1..(n - m + 1) : SubSeq(s, m, n)[i] = s[m + i - 1]
<1>1. Len(s) \in Nat /\ \A i \in m..n : s[i] \in T
  OBVIOUS
<1> QED  BY <1>1, SubSeqProperties

----------------------------------------------------------------------------
(* The shape of a tree.  Every node has a span, the keys that belong below *)
(* it, and a level, 0 at the leaves.                                       *)

LeafNode == [leaf : {TRUE}, entries : Seq(Entry), next : Nat]
InnerNode == [leaf : {FALSE}, keys : Seq(Key), children : Seq(Nat)]
Node == LeafNode \cup InnerNode

Sorted(es) == \A i, j \in DOMAIN es : i < j => Below(es[i], es[j])

\* The keys of a set that separators send to child i.
Slot(s, keys, i) == {k \in s : /\ i > 1 => ~ Less(k, keys[i - 1])
                               /\ i <= Len(keys) => Less(k, keys[i])}

LeafOk(node, s) ==
  Sorted(node.entries) /\ \A i \in DOMAIN node.entries : node.entries[i].key \in s

Ordered(keys) == \A i, j \in DOMAIN keys : i < j => Less(keys[i], keys[j])

InnerOk(node, s, l, level, span) ==
  /\ Ordered(node.keys) /\ \A i \in DOMAIN node.keys : node.keys[i] \in s
  /\ Len(node.children) = Len(node.keys) + 1
  /\ \A i \in DOMAIN node.children : /\ node.children[i] \in DOMAIN level
                                     /\ level[node.children[i]] = l - 1
                                     /\ span[node.children[i]] = Slot(s, node.keys, i)

\* The spans of a level are disjoint and leave no key out.
Frame(nodes, span, level, h) ==
  /\ nodes \in Seq(Node)
  /\ span \in [DOMAIN nodes -> SUBSET Key]
  /\ level \in [DOMAIN nodes -> 0..(h - 1)]
  /\ h \in 1..Len(nodes)
  /\ \A n \in DOMAIN nodes : span[n] # {} /\ (nodes[n] \in LeafNode <=> level[n] = 0)
  /\ \A m, n \in DOMAIN nodes : m # n /\ level[m] = level[n] => span[m] \cap span[n] = {}
  /\ \A k \in Key, l \in 0..(h - 1) : \E n \in DOMAIN nodes : level[n] = l /\ k \in span[n]

Stocked(nodes, span) == \A n \in DOMAIN nodes : nodes[n] \in LeafNode => LeafOk(nodes[n], span[n])

\* The children of a node share out its span; where one of them has just been
\* split, joined has the span of both halves.
Linked(nodes, span, level, joined) ==
  \A n \in DOMAIN nodes : nodes[n] \in InnerNode => InnerOk(nodes[n], span[n], level[n], level, joined)

Narrow(nodes) == \A n \in DOMAIN nodes : nodes[n] \in InnerNode => Len(nodes[n].keys) \in 1..InternalMax

\* The leaves, from left to right, are linked to one another.
Chained(nodes, span, chain) ==
  /\ chain \in Seq(DOMAIN nodes)
  /\ Len(chain) <= Len(nodes)
  /\ \A i \in DOMAIN chain :
       /\ nodes[chain[i]] \in LeafNode
       /\ nodes[chain[i]].next = IF i = Len(chain) THEN NoNode ELSE chain[i + 1]
  /\ \A n \in DOMAIN nodes : nodes[n] \in LeafNode => \E i \in DOMAIN chain : chain[i] = n
  /\ \A i, j \in DOMAIN chain : i < j => \A a \in span[chain[i]], b \in span[chain[j]] : Less(a, b)

OnList(s, e) == \E i \in DOMAIN s : s[i] = e
InLeaf(nodes, e) == \E n \in DOMAIN nodes : nodes[n] \in LeafNode /\ OnList(nodes[n].entries, e)

\* The entries of the leaves are these.
Holds(nodes, es) == es \subseteq Entry /\ \A e \in Entry : e \in es <=> InLeaf(nodes, e)

Sound(nodes, span, level, h, chain, es, joined) ==
  /\ Frame(nodes, span, level, h)
  /\ Stocked(nodes, span)
  /\ Linked(nodes, span, level, joined)
  /\ Chained(nodes, span, chain)
  /\ Holds(nodes, es)

Rooted(tree, span, level) ==
  /\ tree.root \in DOMAIN tree.nodes
  /\ span[tree.root] = Key
  /\ level[tree.root] = tree.height - 1

\* A node is of one kind, which its flag tells.
LEMMA NodeKinds ==
  /\ \A node \in Node : node \in LeafNode \/ node \in InnerNode
  /\ \A node \in LeafNode : node.leaf /\ node \notin InnerNode /\ node.entries \in Seq(Entry) /\ node.next \in Nat
  /\ \A node \in InnerNode : /\ ~ node.leaf /\ node \notin LeafNode
                             /\ node.keys \in Seq(Key) /\ node.children \in Seq(Nat)
<1>1. \A node \in LeafNode : node.leaf = TRUE /\ node.entries \in Seq(Entry) /\ node.next \in Nat
  BY DEF LeafNode
<1>2. \A node \in InnerNode : node.leaf = FALSE /\ node.keys \in Seq(Key) /\ node.children \in Seq(Nat)
  BY DEF InnerNode
<1> QED  BY <1>1, <1>2, Zenon DEF Node

\* What the constructors make.
LEMMA NodesMade ==
  /\ \A es \in Seq(Entry), next \in Nat :
       Leaf(es, next) \in LeafNode /\ Leaf(es, next).entries = es /\ Leaf(es, next).next = next
  /\ \A keys \in Seq(Key), children \in Seq(Nat) :
       /\ Internal(keys, children) \in InnerNode
       /\ Internal(keys, children).keys = keys /\ Internal(keys, children).children = children
BY DEF Leaf, Internal, LeafNode, InnerNode

\* The child a key is sent to is the one whose slot it is in.
LEMMA ChildFacts ==
  ASSUME NEW node \in InnerNode, NEW s \in SUBSET Key, NEW k \in s,
         Ordered(node.keys), Len(node.children) = Len(node.keys) + 1
  PROVE  \E i \in DOMAIN node.children : ChildFor(node, k) = node.children[i] /\ k \in Slot(s, node.keys, i)
<1> DEFINE S == {i \in DOMAIN node.keys : ~ Less(k, node.keys[i])}  r == Cardinality(S)
<1>1. node.keys \in Seq(Key) /\ node.children \in Seq(Nat) /\ k \in Key
  BY NodeKinds
<1>2. Len(node.keys) \in Nat /\ DOMAIN node.keys = 1..Len(node.keys) /\ \A i \in DOMAIN node.keys : node.keys[i] \in Key
  BY <1>1
<1>3. \A i \in S : \A j \in 1..i : j \in S
  <2> SUFFICES ASSUME NEW i \in S, NEW j \in 1..i PROVE ~ Less(k, node.keys[j]) /\ j \in DOMAIN node.keys
    OBVIOUS
  <2>1. j \in DOMAIN node.keys /\ i \in DOMAIN node.keys /\ (j = i \/ j < i)
    BY <1>2
  <2>2. j < i => Less(node.keys[j], node.keys[i])
    BY <2>1 DEF Ordered
  <2> QED  BY <1>1, <1>2, <2>1, <2>2, LessTransitive
<1>4. S \in SUBSET (1..Len(node.keys))
  BY <1>2
<1>5. r \in 0..Len(node.keys) /\ \A i \in 1..Len(node.keys) : i \in S <=> i <= r
  <2> HIDE DEF S
  <2> QED  BY <1>2, <1>3, <1>4, PrefixCount
<1>6. ChildFor(node, k) = node.children[1 + r]
  BY DEF ChildFor
<1> HIDE DEF r
<1>7. 1 + r \in DOMAIN node.children
  BY <1>1, <1>2, <1>5
<1>8. 1 + r > 1 => ~ Less(k, node.keys[(1 + r) - 1])
  <2>1. 1 + r > 1 => r \in S /\ (1 + r) - 1 = r
    BY <1>2, <1>5
  <2> QED  BY <2>1
<1>9. 1 + r <= Len(node.keys) => Less(k, node.keys[1 + r])
  BY <1>2, <1>5
<1>10. k \in Slot(s, node.keys, 1 + r)
  BY <1>8, <1>9 DEF Slot
<1> QED  BY <1>6, <1>7, <1>10

\* The slots of a node do not overlap.
LEMMA SlotsDisjoint ==
  ASSUME NEW s \in SUBSET Key, NEW keys \in Seq(Key), Ordered(keys),
         NEW i \in 1..(Len(keys) + 1), NEW j \in 1..(Len(keys) + 1), NEW k \in s,
         k \in Slot(s, keys, i), k \in Slot(s, keys, j)
  PROVE  i = j
<1> SUFFICES ASSUME NEW a \in 1..(Len(keys) + 1), NEW b \in 1..(Len(keys) + 1), a < b,
                    k \in Slot(s, keys, a), k \in Slot(s, keys, b)
             PROVE  FALSE
  <2>1. i < j \/ j < i \/ i = j
    OBVIOUS
  <2> QED  BY <2>1
<1>1. Len(keys) \in Nat /\ DOMAIN keys = 1..Len(keys) /\ \A n \in 1..Len(keys) : keys[n] \in Key
  OBVIOUS
<1>2. a \in 1..Len(keys) /\ b - 1 \in 1..Len(keys) /\ b > 1 /\ (a = b - 1 \/ a < b - 1)
  BY <1>1
<1>3. Less(k, keys[a]) /\ ~ Less(k, keys[b - 1])
  BY <1>2 DEF Slot
<1>4. a < b - 1 => Less(keys[a], keys[b - 1])
  BY <1>1, <1>2 DEF Ordered
<1> QED  BY <1>1, <1>2, <1>3, <1>4, LessTransitive

----------------------------------------------------------------------------
(* Splitting a node.                                                       *)

\* A node that has just been split, its right half and what separates them.
Halves(span, level, n, r, sep) ==
  /\ n \in DOMAIN span /\ r \in DOMAIN span /\ n # r /\ level[n] = level[r]
  /\ sep \in span[r]
  /\ \A k \in span[n] : Less(k, sep)
  /\ \A k \in span[r] : ~ Less(k, sep)

Joined(span, n, r) == [span EXCEPT ![n] = span[n] \cup span[r]]

\* The spans and levels once the right half of n is node r.
SplitSpan(span, n, r, sep) ==
  [m \in DOMAIN span \cup {r} |-> IF m = n THEN {k \in span[n] : Less(k, sep)}
                                  ELSE IF m = r THEN {k \in span[n] : ~ Less(k, sep)} ELSE span[m]]
SplitLevel(level, n, r) == [m \in DOMAIN level \cup {r} |-> IF m = r THEN level[n] ELSE level[m]]

SplitNodes(nodes, n, left, right) == Append([nodes EXCEPT ![n] = left], right)

\* The nodes with left in the place of n and right at their end.
Placed(new, nodes, n, left, right, r) ==
  /\ new \in Seq(Node) /\ Len(new) = r /\ DOMAIN new = DOMAIN nodes \cup {r}
  /\ r \notin DOMAIN nodes
  /\ new[n] = left /\ new[r] = right
  /\ \A m \in DOMAIN nodes \ {n} : new[m] = nodes[m]

\* Where the nodes are after a split.
LEMMA SplitNodesFacts ==
  ASSUME NEW nodes \in Seq(Node), NEW n \in 1..Len(nodes), NEW left \in Node, NEW right \in Node,
         NEW new, new = SplitNodes(nodes, n, left, right), NEW r, r = Len(nodes) + 1
  PROVE  Placed(new, nodes, n, left, right, r)
<1> DEFINE changed == [nodes EXCEPT ![n] = left]
<1>1. Len(nodes) \in Nat /\ DOMAIN nodes = 1..Len(nodes) /\ r \notin DOMAIN nodes
  OBVIOUS
<1>2. /\ changed \in Seq(Node) /\ Len(changed) = Len(nodes)
      /\ changed[n] = left /\ \A m \in DOMAIN nodes \ {n} : changed[m] = nodes[m]
  BY <1>1, ExceptSeq
<1> HIDE DEF changed
<1>3. new \in Seq(Node) /\ Len(new) = r /\ new[r] = right /\ \A m \in 1..Len(nodes) : new[m] = changed[m]
  <2>1. new = Append(changed, right)
    BY DEF SplitNodes, changed
  <2>2. /\ Append(changed, right) \in Seq(Node) /\ Len(Append(changed, right)) = Len(changed) + 1
        /\ \A m \in 1..Len(changed) : Append(changed, right)[m] = changed[m]
        /\ Append(changed, right)[Len(changed) + 1] = right
    <3>1. changed \in Seq(Node)
      BY <1>2
    <3> QED  BY <3>1, AppendProperties
  <2> QED  BY <1>2, <2>1, <2>2
<1>4. DOMAIN new = DOMAIN nodes \cup {r}
  <2>1. DOMAIN new = 1..(Len(nodes) + 1)
    BY <1>3
  <2> QED  BY <1>1, <2>1
<1>5. new[n] = left /\ \A m \in DOMAIN nodes \ {n} : new[m] = nodes[m]
  BY <1>1, <1>2, <1>3
<1> QED  BY <1>1, <1>3, <1>4, <1>5 DEF Placed

\* A split keeps the levels and shares out the span.
LEMMA SplitFrame ==
  ASSUME NEW nodes, NEW span, NEW level, NEW h, Frame(nodes, span, level, h),
         NEW n \in DOMAIN nodes, NEW sep \in span[n], NEW low \in span[n], Less(low, sep),
         NEW left \in Node, NEW right \in Node,
         left \in LeafNode <=> nodes[n] \in LeafNode, right \in LeafNode <=> nodes[n] \in LeafNode,
         NEW r, r = Len(nodes) + 1
  PROVE  /\ Frame(SplitNodes(nodes, n, left, right), SplitSpan(span, n, r, sep), SplitLevel(level, n, r), h)
         /\ Halves(SplitSpan(span, n, r, sep), SplitLevel(level, n, r), n, r, sep)
         /\ \A m \in DOMAIN nodes : /\ Joined(SplitSpan(span, n, r, sep), n, r)[m] = span[m]
                                    /\ SplitLevel(level, n, r)[m] = level[m]
<1> DEFINE new == SplitNodes(nodes, n, left, right)
           sp == SplitSpan(span, n, r, sep)
           lv == SplitLevel(level, n, r)
<1>1. /\ nodes \in Seq(Node)
      /\ span \in [DOMAIN nodes -> SUBSET Key]
      /\ level \in [DOMAIN nodes -> 0..(h - 1)]
      /\ h \in 1..Len(nodes)
      /\ \A m \in DOMAIN nodes : span[m] # {} /\ (nodes[m] \in LeafNode <=> level[m] = 0)
      /\ \A m, q \in DOMAIN nodes : m # q /\ level[m] = level[q] => span[m] \cap span[q] = {}
      /\ \A k \in Key, l \in 0..(h - 1) : \E m \in DOMAIN nodes : level[m] = l /\ k \in span[m]
  BY DEF Frame
<1>2. /\ new \in Seq(Node) /\ Len(new) = r /\ DOMAIN new = DOMAIN nodes \cup {r}
      /\ r \notin DOMAIN nodes
      /\ new[n] = left /\ new[r] = right
      /\ \A m \in DOMAIN nodes \ {n} : new[m] = nodes[m]
  <2>1. nodes \in Seq(Node)
    BY <1>1
  <2>2. n \in 1..Len(nodes)
    BY <2>1
  <2>3. new = SplitNodes(nodes, n, left, right)
    OBVIOUS
  <2> HIDE DEF new
  <2>4. Placed(new, nodes, n, left, right, r)
    BY <2>1, <2>2, <2>3, SplitNodesFacts
  <2> QED  BY <2>4 DEF Placed
<1>3. /\ DOMAIN sp = DOMAIN nodes \cup {r} /\ sp[n] = {k \in span[n] : Less(k, sep)}
      /\ sp[r] = {k \in span[n] : ~ Less(k, sep)}
      /\ \A m \in DOMAIN nodes \ {n} : sp[m] = span[m]
      /\ sp = [m \in DOMAIN nodes \cup {r} |-> sp[m]]
  <2>1. DOMAIN span = DOMAIN nodes /\ r # n /\ r \notin DOMAIN nodes
    BY <1>1, <1>2
  <2> HIDE DEF new, lv
  <2>2. /\ DOMAIN sp = DOMAIN nodes \cup {r} /\ sp[n] = {k \in span[n] : Less(k, sep)}
        /\ sp[r] = {k \in span[n] : ~ Less(k, sep)}
        /\ \A m \in DOMAIN nodes \ {n} : sp[m] = span[m]
    BY <2>1 DEF SplitSpan
  <2>3. sp = [m \in DOMAIN nodes \cup {r} |-> sp[m]]
    BY <2>1 DEF SplitSpan
  <2> QED  BY <2>2, <2>3
<1>4. /\ DOMAIN lv = DOMAIN nodes \cup {r} /\ lv[r] = level[n]
      /\ \A m \in DOMAIN nodes : lv[m] = level[m]
      /\ lv = [m \in DOMAIN nodes \cup {r} |-> lv[m]]
  BY <1>1, <1>2 DEF SplitLevel
<1> HIDE DEF new, sp, lv
<1>5. sep \in Key /\ low \in Key /\ span[n] \subseteq Key
  BY <1>1
<1>6. sep \in sp[r] /\ low \in sp[n] /\ sp[n] \subseteq span[n] /\ sp[r] \subseteq span[n]
      /\ sp[n] \cap sp[r] = {} /\ sp[n] \cup sp[r] = span[n]
  BY <1>3, <1>5, LessIrreflexive
<1>7. sp \in [DOMAIN new -> SUBSET Key]
  <2>1. \A m \in DOMAIN nodes \cup {r} : sp[m] \in SUBSET Key
    <3> TAKE m \in DOMAIN nodes \cup {r}
    <3>1. m = n \/ m = r => sp[m] \subseteq Key
      BY <1>5, <1>6
    <3>2. m # n /\ m # r => sp[m] \subseteq Key
      BY <1>1, <1>3
    <3> QED  BY <3>1, <3>2
  <2> QED  BY <1>2, <1>3, <2>1
<1>8. lv \in [DOMAIN new -> 0..(h - 1)]
  BY <1>1, <1>2, <1>4
<1>9. \A m \in DOMAIN new : sp[m] # {} /\ (new[m] \in LeafNode <=> lv[m] = 0)
  <2>1. sp[n] # {} /\ sp[r] # {} /\ \A m \in DOMAIN nodes \ {n} : sp[m] # {}
    BY <1>1, <1>3, <1>6
  <2>2. (new[n] \in LeafNode <=> lv[n] = 0) /\ (new[r] \in LeafNode <=> lv[r] = 0)
    BY <1>1, <1>2, <1>4
  <2>3. \A m \in DOMAIN nodes \ {n} : new[m] \in LeafNode <=> lv[m] = 0
    BY <1>1, <1>2, <1>4
  <2> QED  BY <1>2, <2>1, <2>2, <2>3
<1>10. \A m, q \in DOMAIN new : m # q /\ lv[m] = lv[q] => sp[m] \cap sp[q] = {}
  <2> DEFINE home(m) == IF m = r THEN n ELSE m
  <2>1. \A m \in DOMAIN new : home(m) \in DOMAIN nodes /\ sp[m] \subseteq span[home(m)] /\ lv[m] = level[home(m)]
    BY <1>2, <1>3, <1>4, <1>6
  <2>2. ASSUME NEW m \in DOMAIN new, NEW q \in DOMAIN new, m # q, lv[m] = lv[q] PROVE sp[m] \cap sp[q] = {}
    <3>1. CASE home(m) # home(q)
      <4>1. home(m) \in DOMAIN nodes /\ home(q) \in DOMAIN nodes /\ level[home(m)] = level[home(q)]
        BY <2>1, <2>2
      <4> HIDE DEF home
      <4>2. span[home(m)] \cap span[home(q)] = {}
        BY <1>1, <3>1, <4>1
      <4> QED  BY <2>1, <4>2
    <3>2. CASE home(m) = home(q)
      <4>1. (m = n /\ q = r) \/ (m = r /\ q = n)
        BY <1>2, <2>2, <3>2
      <4> QED  BY <1>6, <4>1
    <3> QED  BY <3>1, <3>2
  <2> QED  BY <2>2
<1>11. \A k \in Key, l \in 0..(h - 1) : \E m \in DOMAIN new : lv[m] = l /\ k \in sp[m]
  <2> TAKE k \in Key, l \in 0..(h - 1)
  <2>1. PICK m \in DOMAIN nodes : level[m] = l /\ k \in span[m]
    BY <1>1
  <2>2. CASE m # n
    BY <1>2, <1>3, <1>4, <2>1, <2>2
  <2>3. CASE m = n
    <3>1. k \in sp[n] \/ k \in sp[r]
      BY <1>6, <2>1, <2>3
    <3> QED  BY <1>2, <1>4, <2>1, <2>3, <3>1
  <2> QED  BY <2>2, <2>3
<1>12. h \in 1..Len(new)
  BY <1>1, <1>2
<1>13. Frame(new, sp, lv, h)
  BY <1>2, <1>7, <1>8, <1>9, <1>10, <1>11, <1>12 DEF Frame
<1>14. Halves(sp, lv, n, r, sep)
  BY <1>2, <1>3, <1>4, <1>6 DEF Halves
<1>15. \A m \in DOMAIN nodes : Joined(sp, n, r)[m] = span[m] /\ lv[m] = level[m]
  BY <1>2, <1>3, <1>4, <1>6 DEF Joined
<1> QED  BY <1>13, <1>14, <1>15 DEF new, sp, lv

\* The other inner nodes are linked as before.
LEMMA SplitLinked ==
  ASSUME NEW nodes, NEW span, NEW level, NEW h, Frame(nodes, span, level, h), Linked(nodes, span, level, span),
         NEW n \in DOMAIN nodes, NEW q \in DOMAIN nodes, q # n, nodes[q] \in InnerNode,
         NEW sp, NEW lv, NEW joined,
         sp[q] = span[q], DOMAIN level \subseteq DOMAIN lv,
         \A m \in DOMAIN nodes : joined[m] = span[m] /\ lv[m] = level[m]
  PROVE  InnerOk(nodes[q], sp[q], lv[q], lv, joined)
<1>1. InnerOk(nodes[q], span[q], level[q], level, span)
  BY DEF Linked
<1>2. DOMAIN level = DOMAIN nodes /\ lv[q] = level[q]
  BY DEF Frame
<1>3. ASSUME NEW i \in DOMAIN nodes[q].children
      PROVE  /\ nodes[q].children[i] \in DOMAIN lv
             /\ lv[nodes[q].children[i]] = lv[q] - 1
             /\ joined[nodes[q].children[i]] = Slot(sp[q], nodes[q].keys, i)
  BY <1>1, <1>2 DEF InnerOk
<1> QED  BY <1>1, <1>3 DEF InnerOk

----------------------------------------------------------------------------
(* A leaf takes an entry.                                                  *)

Inserted(es, old, new) ==
  /\ es \in Seq(Entry) /\ Len(es) = Len(old) + 1 /\ Sorted(es)
  /\ \A e \in Entry : OnList(es, e) <=> e = new \/ OnList(old, e)

\* An entry put behind the smaller ones keeps the list sorted.
LEMMA SortedInsert ==
  ASSUME NEW old \in Seq(Entry), Sorted(old), NEW new \in Entry, ~ OnList(old, new),
         NEW es, es = InsertAt(old, Cardinality({i \in DOMAIN old : Below(old[i], new)}) + 1, new)
  PROVE  Inserted(es, old, new)
<1> DEFINE S == {i \in DOMAIN old : Below(old[i], new)}  r == Cardinality(S)
<1>1. Len(old) \in Nat /\ DOMAIN old = 1..Len(old) /\ \A i \in 1..Len(old) : old[i] \in Entry
  OBVIOUS
<1>2. S \in SUBSET (1..Len(old)) /\ \A i \in S : \A j \in 1..i : j \in S
  <2>1. S \in SUBSET (1..Len(old))
    BY <1>1
  <2>2. ASSUME NEW i \in S, NEW j \in 1..i PROVE j \in S
    <3>1. j \in DOMAIN old /\ i \in DOMAIN old /\ (j = i \/ j < i) /\ Below(old[i], new)
      BY <1>1
    <3>2. j < i => Below(old[j], old[i])
      BY <3>1 DEF Sorted
    <3>3. Below(old[j], new)
      BY <1>1, <3>1, <3>2, BelowFacts
    <3> QED  BY <3>1, <3>3
  <2> QED  BY <2>1, <2>2
<1>3. r \in 0..Len(old) /\ \A i \in 1..Len(old) : i \in S <=> i <= r
  <2> HIDE DEF S
  <2> QED  BY <1>1, <1>2, PrefixCount
<1>4. \A i \in 1..Len(old) : IF i <= r THEN Below(old[i], new) ELSE Below(new, old[i])
  <2> SUFFICES ASSUME NEW i \in 1..Len(old) PROVE IF i <= r THEN Below(old[i], new) ELSE Below(new, old[i])
    OBVIOUS
  <2>1. i <= r <=> Below(old[i], new)
    BY <1>1, <1>3
  <2>2. old[i] # new /\ old[i] \in Entry
    BY <1>1 DEF OnList
  <2>3. ~ Below(old[i], new) => Below(new, old[i])
    BY <2>2, BelowFacts
  <2> QED  BY <2>1, <2>3
<1>5. es = InsertAt(old, r + 1, new)
  OBVIOUS
<1> HIDE DEF S, r
<1>0. r \in Nat /\ r <= Len(old) /\ Len(old) \in Nat
  BY <1>1, <1>3
<1>6. es \in Seq(Entry) /\ Widened(es, old, r, new)
  BY <1>3, <1>5, InsertAtFacts
<1>7. /\ Len(es) = Len(old) + 1 /\ es[r + 1] = new
      /\ \A i \in 1..r : es[i] = old[i]
      /\ \A i \in (r + 1)..Len(old) : es[i + 1] = old[i]
  BY <1>6 DEF Widened
<1>11. \A i \in 1..(Len(old) + 1) : /\ i <= r => i \in 1..Len(old) /\ es[i] = old[i]
                                    /\ i > r + 1 => i - 1 \in (r + 1)..Len(old) /\ es[i] = old[i - 1]
  BY <1>6 DEF Widened
<1>8. DOMAIN es = 1..(Len(old) + 1)
  BY <1>6, <1>7
<1>9. Sorted(es)
  <2> SUFFICES ASSUME NEW i \in 1..(Len(old) + 1), NEW j \in 1..(Len(old) + 1), i < j
               PROVE  Below(es[i], es[j])
    BY <1>8 DEF Sorted
  <2>1. CASE j <= r
    <3>1. i \in DOMAIN old /\ j \in DOMAIN old /\ es[i] = old[i] /\ es[j] = old[j]
      BY <1>0, <1>1, <1>11, <2>1
    <3> QED  BY <3>1 DEF Sorted
  <2>2. CASE j = r + 1
    BY <1>3, <1>4, <1>7, <1>11, <2>2
  <2>3. CASE j > r + 1 /\ i > r + 1
    <3>1. i - 1 \in DOMAIN old /\ j - 1 \in DOMAIN old /\ i - 1 < j - 1
      BY <1>1, <1>3, <1>11, <2>3
    <3>2. es[i] = old[i - 1] /\ es[j] = old[j - 1]
      BY <1>0, <1>11, <2>3
    <3>3. Below(old[i - 1], old[j - 1])
      BY <3>1 DEF Sorted
    <3> QED  BY <3>2, <3>3
  <2>4. CASE j > r + 1 /\ i = r + 1
    <3>1. j - 1 \in 1..Len(old) /\ ~ (j - 1 <= r)
      BY <1>1, <1>3, <1>11, <2>4
    <3> QED  BY <1>4, <1>7, <1>11, <2>4, <3>1
  <2>5. CASE j > r + 1 /\ i <= r
    <3>1. i \in DOMAIN old /\ j - 1 \in DOMAIN old /\ i < j - 1
      BY <1>1, <1>3, <1>11, <2>5
    <3>2. es[i] = old[i] /\ es[j] = old[j - 1]
      BY <1>0, <1>11, <2>5
    <3>3. Below(old[i], old[j - 1])
      BY <3>1 DEF Sorted
    <3> QED  BY <3>2, <3>3
  <2> QED  BY <1>3, <2>1, <2>2, <2>3, <2>4, <2>5
<1>10. ASSUME NEW e \in Entry PROVE OnList(es, e) <=> e = new \/ OnList(old, e)
  <2>1. ASSUME OnList(es, e) PROVE e = new \/ OnList(old, e)
    <3>1. PICK i \in 1..(Len(old) + 1) : es[i] = e
      BY <1>8, <2>1 DEF OnList
    <3>2. CASE i = r + 1
      BY <1>7, <3>1, <3>2
    <3>3. CASE i <= r
      <4>1. i \in 1..Len(old) /\ es[i] = old[i]
        BY <1>0, <1>11, <3>1, <3>3
      <4>2. i \in DOMAIN old /\ old[i] = e
        BY <1>1, <3>1, <4>1
      <4> QED  BY <4>2 DEF OnList
    <3>4. CASE i > r + 1
      <4>1. i - 1 \in DOMAIN old /\ old[i - 1] = e
        BY <1>0, <1>1, <1>11, <3>1, <3>4
      <4> QED  BY <4>1 DEF OnList
    <3> QED  BY <1>3, <3>2, <3>3, <3>4
  <2>2. ASSUME e = new PROVE OnList(es, e)
    <3>1. r + 1 \in DOMAIN es
      BY <1>1, <1>3, <1>8
    <3> QED  BY <1>7, <2>2, <3>1 DEF OnList
  <2>3. ASSUME OnList(old, e) PROVE OnList(es, e)
    <3>1. PICK i \in 1..Len(old) : old[i] = e
      BY <1>1, <2>3 DEF OnList
    <3>2. CASE i <= r
      <4>1. i \in DOMAIN es /\ es[i] = e
        BY <1>1, <1>3, <1>7, <1>8, <3>1, <3>2
      <4> QED  BY <4>1 DEF OnList
    <3>3. CASE i > r
      <4>1. i + 1 \in DOMAIN es /\ i \in (r + 1)..Len(old)
        BY <1>1, <1>3, <1>8, <3>3
      <4> QED  BY <1>7, <3>1, <4>1 DEF OnList
    <3> QED  BY <1>3, <3>2, <3>3
  <2> QED  BY <2>1, <2>2, <2>3
<1> QED  BY <1>6, <1>7, <1>9, <1>10 DEF Inserted

\* From the middle to the cut there is one key, and at the cut another begins.
Cut(es, m) ==
  /\ m \in 1..Len(es) /\ Len(es) \div 2 <= m
  /\ m < Len(es) => es[m].key # es[m + 1].key
  /\ \A l \in 1..(m - 1) : Len(es) \div 2 <= l => es[l].key = es[l + 1].key

\* There is a place to cut.
LEMMA CutPointFacts ==
  ASSUME NEW es \in Seq(Entry), Len(es) >= 2
  PROVE  Cut(es, CutPoint(es))
<1> DEFINE mid == Len(es) \div 2
           whole(m) == m = Len(es) \/ m = 0 \/ es[m].key # es[m + 1].key
           Good == {m \in mid..Len(es) : whole(m)}
<1>1. Len(es) \in Nat /\ mid \in Nat /\ mid >= 1 /\ mid <= Len(es)
  OBVIOUS
<1>2. PICK c \in Good : \A l \in Good : ~ (l < c)
  <2>1. Len(es) \in Good /\ Good \in SUBSET Nat
    BY <1>1
  <2> HIDE DEF Good
  <2> QED  BY <2>1, LeastNumber
<1>3. c \in mid..Len(es) /\ whole(c) /\ \A l \in mid..(c - 1) : ~ whole(l)
  <2>1. \A l \in mid..(c - 1) : l \in mid..Len(es) /\ l < c
    BY <1>1, <1>2
  <2> QED  BY <1>2, <2>1
<1> DEFINE p == CutPoint(es)
<1>4. p \in mid..Len(es) /\ whole(p) /\ \A l \in mid..(p - 1) : ~ whole(l)
  BY <1>3 DEF CutPoint
<1> HIDE DEF p
<1>5. p \in 1..Len(es) /\ mid <= p
  BY <1>1, <1>4
<1>6. p < Len(es) => es[p].key # es[p + 1].key
  BY <1>4, <1>5
<1>7. ASSUME NEW l \in 1..(p - 1), mid <= l PROVE es[l].key = es[l + 1].key
  <2>1. l \in mid..(p - 1) /\ l # 0 /\ l # Len(es)
    BY <1>1, <1>5, <1>7
  <2> QED  BY <1>4, <2>1
<1> QED  BY <1>5, <1>6, <1>7 DEF Cut, p

----------------------------------------------------------------------------
(* A leaf is split.                                                        *)

\* These nodes are those, with node r split off n at sep.
SplitOff(new, nodes, span, level, h, es, n, r, sep) ==
  \E sp, lv, ch : /\ Sound(new, sp, lv, h, ch, es, Joined(sp, n, r))
                  /\ Halves(sp, lv, n, r, sep)
                  /\ \A q \in DOMAIN nodes : Joined(sp, n, r)[q] = span[q] /\ lv[q] = level[q]

\* The chain takes the right half behind the left one.
LEMMA SplitChained ==
  ASSUME NEW nodes, NEW span, NEW level, NEW h, NEW chain,
         Frame(nodes, span, level, h), Chained(nodes, span, chain),
         NEW n \in DOMAIN nodes, nodes[n] \in LeafNode, NEW r, NEW left \in LeafNode, NEW right \in LeafNode,
         left.next = r, right.next = nodes[n].next,
         NEW new, Placed(new, nodes, n, left, right, r), Len(new) = Len(nodes) + 1,
         NEW sp, NEW lv, NEW sep, Halves(sp, lv, n, r, sep), sp[n] \subseteq span[n], sp[r] \subseteq span[n],
         sp[n] \subseteq Key, sp[r] \subseteq Key, sep \in Key,
         \A m \in DOMAIN nodes \ {n} : sp[m] = span[m]
  PROVE  \E ch : Chained(new, sp, ch)
<1>1. /\ chain \in Seq(DOMAIN nodes) /\ Len(chain) <= Len(nodes)
      /\ \A i \in DOMAIN chain :
           /\ nodes[chain[i]] \in LeafNode
           /\ nodes[chain[i]].next = IF i = Len(chain) THEN NoNode ELSE chain[i + 1]
      /\ \A m \in DOMAIN nodes : nodes[m] \in LeafNode => \E i \in DOMAIN chain : chain[i] = m
      /\ \A i, j \in DOMAIN chain : i < j => \A a \in span[chain[i]], b \in span[chain[j]] : Less(a, b)
  BY DEF Chained
<1>2. PICK p \in DOMAIN chain : chain[p] = n
  BY <1>1
<1>3. Len(chain) \in Nat /\ DOMAIN chain = 1..Len(chain) /\ \A i \in 1..Len(chain) : chain[i] \in DOMAIN nodes
  BY <1>1
<1>4. /\ Len(new) = r /\ DOMAIN new = DOMAIN nodes \cup {r} /\ r \notin DOMAIN nodes
      /\ new[n] = left /\ new[r] = right /\ \A m \in DOMAIN nodes \ {n} : new[m] = nodes[m]
  BY DEF Placed
<1>5. ASSUME NEW i \in DOMAIN chain, NEW j \in DOMAIN chain, i < j PROVE chain[i] # chain[j]
  <2>1. PICK a \in span[chain[i]] : TRUE
    BY <1>3, <1>5 DEF Frame
  <2>2. a \in Key
    BY <1>3, <1>5, <2>1 DEF Frame
  <2>3. chain[i] = chain[j] => Less(a, a)
    BY <1>1, <1>5, <2>1
  <2> QED  BY <2>2, <2>3, LessIrreflexive
<1>6. \A i \in DOMAIN chain : i # p => chain[i] # n
  <2> TAKE i \in DOMAIN chain
  <2>1. i < p \/ p < i \/ i = p
    BY <1>2, <1>3
  <2> QED  BY <1>2, <1>5, <2>1
<1> DEFINE ch == InsertAt(chain, p + 1, r)
<1>7. ch \in Seq(DOMAIN new) /\ Widened(ch, chain, p, r)
  <2>1. chain \in Seq(DOMAIN new) /\ r \in DOMAIN new /\ p \in 0..Len(chain)
    <3>1. DOMAIN nodes \subseteq DOMAIN new
      BY <1>4
    <3> HIDE DEF ch
    <3> QED  BY <1>1, <1>2, <1>3, <1>4, <3>1, SeqMonotonic
  <2>2. ch = InsertAt(chain, p + 1, r)
    OBVIOUS
  <2> HIDE DEF ch
  <2> QED  BY <2>1, <2>2, InsertAtFacts
<1> HIDE DEF ch
<1>8. /\ Len(ch) = Len(chain) + 1 /\ ch[p + 1] = r
      /\ \A i \in 1..(Len(chain) + 1) : /\ i <= p => i \in 1..Len(chain) /\ ch[i] = chain[i]
                                        /\ i > p + 1 => i - 1 \in (p + 1)..Len(chain) /\ ch[i] = chain[i - 1]
  BY <1>7 DEF Widened
<1>9. DOMAIN ch = 1..(Len(chain) + 1) /\ p \in 1..Len(chain) /\ ch[p] = n
  BY <1>2, <1>3, <1>7, <1>8

\* The place an element had.
<1> DEFINE home(i) == IF i <= p THEN i ELSE i - 1
<1>10. \A i \in 1..(Len(chain) + 1) : /\ home(i) \in 1..Len(chain) /\ (i # p + 1 => ch[i] = chain[home(i)])
                                      /\ i # p /\ i # p + 1 => home(i) # p
  BY <1>3, <1>8, <1>9
<1>18. \A i, j \in 1..(Len(chain) + 1) : i < j /\ ~ (home(i) < home(j)) => i = p /\ j = p + 1
  BY <1>3, <1>9
<1>11. \A i \in 1..(Len(chain) + 1) : ch[i] \in DOMAIN new /\ sp[ch[i]] \subseteq span[chain[home(i)]] /\ sp[ch[i]] \subseteq Key
  <2> TAKE i \in 1..(Len(chain) + 1)
  <2>1. CASE i = p + 1
    <3>1. home(i) = p /\ ch[i] = r
      BY <1>8, <1>9, <2>1
    <3> QED  BY <1>2, <1>4, <2>1, <3>1
  <2>2. CASE i = p
    BY <1>2, <1>4, <1>9, <2>2
  <2>3. CASE i # p + 1 /\ i # p
    <3>1. home(i) # p /\ home(i) \in DOMAIN chain /\ ch[i] = chain[home(i)]
      <4> HIDE DEF home
      <4> QED  BY <1>3, <1>10, <2>3
    <3> HIDE DEF home
    <3>2. ch[i] \in DOMAIN nodes \ {n}
      BY <1>3, <1>6, <3>1
    <3>3. sp[ch[i]] = span[chain[home(i)]] /\ span[ch[i]] \subseteq Key
      BY <3>1, <3>2 DEF Frame
    <3> QED  BY <1>4, <3>1, <3>2, <3>3
  <2> QED  BY <2>1, <2>2, <2>3
<1>12. ASSUME NEW i \in 1..(Len(chain) + 1), NEW j \in 1..(Len(chain) + 1), i < j,
              NEW a \in sp[ch[i]], NEW b \in sp[ch[j]]
       PROVE  Less(a, b)
  <2>1. CASE home(i) < home(j)
    <3> HIDE DEF home
    <3>1. home(i) \in DOMAIN chain /\ home(j) \in DOMAIN chain /\ a \in span[chain[home(i)]] /\ b \in span[chain[home(j)]]
      BY <1>3, <1>10, <1>11
    <3> QED  BY <1>1, <2>1, <3>1
  <2>2. CASE ~ (home(i) < home(j))
    <3>1. i = p /\ j = p + 1
      <4> HIDE DEF home
      <4> QED  BY <1>12, <1>18, <2>2
    <3>2. a \in sp[n] /\ b \in sp[r] /\ a \in Key /\ b \in Key
      BY <1>8, <1>9, <3>1
    <3>3. Less(a, sep) /\ ~ Less(b, sep)
      BY <3>2 DEF Halves
    <3> QED  BY <3>2, <3>3, LessFacts
  <2> QED  BY <2>1, <2>2
<1>13. ASSUME NEW i \in 1..(Len(chain) + 1)
       PROVE  /\ new[ch[i]] \in LeafNode
              /\ new[ch[i]].next = IF i = Len(chain) + 1 THEN NoNode ELSE ch[i + 1]
  <2>1. CASE i = p
    <3>1. new[ch[i]] = left /\ i # Len(chain) + 1 /\ ch[i + 1] = r
      BY <1>3, <1>4, <1>8, <1>9, <2>1
    <3> QED  BY <3>1
  <2>2. CASE i = p + 1
    <3>1. new[ch[i]] = right
      BY <1>4, <1>8, <2>2
    <3>2. nodes[n].next = IF p = Len(chain) THEN NoNode ELSE chain[p + 1]
      BY <1>1, <1>2
    <3>3. p # Len(chain) => ch[i + 1] = chain[p + 1] /\ i # Len(chain) + 1
      <4>1. p # Len(chain) => i + 1 \in 1..(Len(chain) + 1) /\ i + 1 > p + 1 /\ (i + 1) - 1 = p + 1
        BY <1>3, <1>9, <2>2
      <4>2. p # Len(chain) => ch[i + 1] = chain[(i + 1) - 1]
        BY <1>3, <1>8, <1>9, <4>1
      <4> QED  BY <1>3, <1>9, <2>2, <4>1, <4>2
    <3>4. p = Len(chain) => i = Len(chain) + 1
      BY <2>2
    <3> QED  BY <3>1, <3>2, <3>3, <3>4
  <2>3. CASE i # p /\ i # p + 1
    <3>1. home(i) # p /\ home(i) \in DOMAIN chain /\ ch[i] = chain[home(i)]
      <4> HIDE DEF home
      <4> QED  BY <1>3, <1>10, <2>3
    <3>2. chain[home(i)] \in DOMAIN nodes \ {n}
      <4> HIDE DEF home
      <4> QED  BY <1>3, <1>6, <3>1
    <3>3. new[ch[i]] = nodes[chain[home(i)]]
      <4> HIDE DEF home
      <4> QED  BY <1>4, <3>1, <3>2
    <3>4. home(i) = Len(chain) <=> i = Len(chain) + 1
      BY <1>3, <1>9, <2>3
    <3>5. home(i) # Len(chain) => ch[i + 1] = chain[home(i) + 1]
      <4>1. CASE i < p
        <5>1. i + 1 \in 1..(Len(chain) + 1) /\ i + 1 <= p /\ home(i) = i
          BY <1>3, <1>9, <4>1
        <5>2. ch[i + 1] = chain[i + 1]
          BY <1>3, <1>8, <1>9, <5>1
        <5> QED  BY <5>1, <5>2
      <4>2. CASE i > p + 1
        <5>1. home(i) = i - 1 /\ home(i) + 1 = i
          BY <1>9, <4>2
        <5>2. home(i) # Len(chain) => i + 1 \in 1..(Len(chain) + 1) /\ i + 1 > p + 1 /\ (i + 1) - 1 = i
          <6>1. i - 1 # Len(chain) => i + 1 \in 1..(Len(chain) + 1) /\ i + 1 > p + 1 /\ (i + 1) - 1 = i
            BY <1>3, <1>9, <4>2
          <6> HIDE DEF home
          <6> QED  BY <5>1, <6>1
        <5>3. home(i) # Len(chain) => ch[i + 1] = chain[(i + 1) - 1]
          BY <1>3, <1>8, <1>9, <5>2
        <5> QED  BY <5>1, <5>2, <5>3
      <4> QED  BY <1>9, <2>3, <4>1, <4>2
    <3>6. nodes[chain[home(i)]] \in LeafNode
          /\ nodes[chain[home(i)]].next = IF home(i) = Len(chain) THEN NoNode ELSE chain[home(i) + 1]
      <4> HIDE DEF home
      <4> QED  BY <1>1, <3>1
    <3> QED  BY <3>3, <3>4, <3>5, <3>6
  <2> QED  BY <2>1, <2>2, <2>3
<1>14. ASSUME NEW m \in DOMAIN new, new[m] \in LeafNode PROVE \E i \in DOMAIN ch : ch[i] = m
  <2>1. CASE m = r
    BY <1>8, <1>9, <2>1
  <2>2. CASE m = n
    BY <1>9, <2>2
  <2>3. CASE m # r /\ m # n
    <3>1. PICK i \in DOMAIN chain : chain[i] = m
      BY <1>1, <1>4, <1>14, <2>3
    <3>2. i # p /\ i \in 1..Len(chain)
      BY <1>2, <1>3, <2>3, <3>1
    <3>3. i < p => ch[i] = m /\ i \in DOMAIN ch
      BY <1>3, <1>8, <1>9, <3>1, <3>2
    <3>4. i > p => ch[i + 1] = m /\ i + 1 \in DOMAIN ch
      <4>1. i > p => i + 1 \in 1..(Len(chain) + 1) /\ i + 1 > p + 1 /\ (i + 1) - 1 = i
        BY <1>3, <1>9, <3>2
      <4>2. i > p => ch[i + 1] = chain[(i + 1) - 1]
        BY <1>3, <1>8, <1>9, <4>1
      <4> QED  BY <1>9, <3>1, <4>1, <4>2
    <3> QED  BY <1>9, <3>2, <3>3, <3>4
  <2> QED  BY <2>1, <2>2, <2>3
<1>15. Len(ch) <= Len(new)
  <2>1. Len(nodes) \in Nat
    BY DEF Frame
  <2> QED  BY <1>1, <1>3, <1>8, <2>1
<1>16. \A i, j \in DOMAIN ch : i < j => \A a \in sp[ch[i]], b \in sp[ch[j]] : Less(a, b)
  BY <1>9, <1>12
<1>17. \A i \in DOMAIN ch :
         /\ new[ch[i]] \in LeafNode
         /\ new[ch[i]].next = IF i = Len(ch) THEN NoNode ELSE ch[i + 1]
  BY <1>8, <1>9, <1>13
<1> QED  BY <1>7, <1>14, <1>15, <1>16, <1>17 DEF Chained

PartOf(part, es, m, n) ==
  /\ part \in Seq(Entry) /\ Len(part) = n - m + 1 /\ Sorted(part)
  /\ \A i \in 1..(n - m + 1) : part[i] = es[m + i - 1] /\ m + i - 1 \in m..n

\* A part of a sorted list is sorted, and has the elements of its positions.
LEMMA SortedPart ==
  ASSUME NEW es \in Seq(Entry), Sorted(es), NEW m \in Nat, NEW n \in Nat, 1 <= m, m <= n + 1, n <= Len(es),
         NEW part, part = SubSeq(es, m, n)
  PROVE  PartOf(part, es, m, n)
<1>1. Len(es) \in Nat /\ DOMAIN es = 1..Len(es)
  OBVIOUS
<1>2. part \in Seq(Entry) /\ Len(part) = n - m + 1 /\ \A i \in 1..(n - m + 1) : part[i] = es[m + i - 1]
  <2>1. m \in 1..(Len(es) + 1) /\ n \in (m - 1)..Len(es)
    BY <1>1
  <2> QED  BY <2>1, PartFacts
<1>3. DOMAIN part = 1..(n - m + 1)
  BY <1>2
<1>4. \A i \in 1..(n - m + 1) : m + i - 1 \in m..n /\ m + i - 1 \in DOMAIN es
  BY <1>1
<1>5. ASSUME NEW i \in 1..(n - m + 1), NEW j \in 1..(n - m + 1), i < j PROVE Below(part[i], part[j])
  <2>1. m + i - 1 \in DOMAIN es /\ m + j - 1 \in DOMAIN es /\ m + i - 1 < m + j - 1
    BY <1>4, <1>5
  <2>2. Below(es[m + i - 1], es[m + j - 1])
    BY <2>1 DEF Sorted
  <2> QED  BY <1>2, <2>2
<1> QED  BY <1>2, <1>3, <1>4, <1>5 DEF Sorted, PartOf

\* Places behind a cut.
LEMMA BehindCut ==
  \A m, len \in Nat : \A i \in 1..(len - m) : (m + 1) + i - 1 = m + i /\ m + i \in (m + 1)..len
OBVIOUS

\* A leaf cut between two keys makes two leaves, each with its span.
LEMMA LeafSplit ==
  ASSUME NEW nodes, NEW span, NEW level, NEW h, NEW chain, NEW es,
         Sound(nodes, span, level, h, chain, es, span),
         NEW n \in DOMAIN nodes, nodes[n] \in LeafNode, NEW E, E = nodes[n].entries,
         NEW m \in 1..(Len(E) - 1), E[m].key # E[m + 1].key, NEW sep, sep = E[m + 1].key,
         NEW r, r = Len(nodes) + 1,
         NEW new, new = SplitNodes(nodes, n, Leaf(SubSeq(E, 1, m), r),
                                             Leaf(SubSeq(E, m + 1, Len(E)), nodes[n].next))
  PROVE  SplitOff(new, nodes, span, level, h, es, n, r, sep)
<1> DEFINE a == SubSeq(E, 1, m)  b == SubSeq(E, m + 1, Len(E))
           left == Leaf(a, r)  right == Leaf(b, nodes[n].next)
           sp == SplitSpan(span, n, r, sep)
           lv == SplitLevel(level, n, r)
           joined == Joined(sp, n, r)
<1>1. Frame(nodes, span, level, h) /\ Stocked(nodes, span) /\ Linked(nodes, span, level, span)
      /\ Chained(nodes, span, chain) /\ Holds(nodes, es)
  BY DEF Sound
<1>2. nodes \in Seq(Node) /\ span \in [DOMAIN nodes -> SUBSET Key] /\ level \in [DOMAIN nodes -> 0..(h - 1)]
  BY <1>1 DEF Frame
<1>3. /\ E \in Seq(Entry) /\ Len(E) \in Nat /\ DOMAIN E = 1..Len(E) /\ Sorted(E)
      /\ \A i \in 1..Len(E) : E[i] \in Entry /\ E[i].key \in span[n] /\ E[i].key \in Key
      /\ nodes[n].next \in Nat
  <2>1. E \in Seq(Entry) /\ nodes[n].next \in Nat
    BY NodeKinds
  <2>2. Sorted(E) /\ \A i \in DOMAIN E : E[i].key \in span[n]
    BY <1>1 DEF Stocked, LeafOk
  <2>3. Len(E) \in Nat /\ DOMAIN E = 1..Len(E) /\ \A i \in 1..Len(E) : E[i] \in Entry
    BY <2>1
  <2>4. \A i \in 1..Len(E) : E[i].key \in Key
    BY <2>3 DEF Entry
  <2> QED  BY <2>1, <2>2, <2>3, <2>4
<1>4. m \in 1..Len(E) /\ m + 1 \in 1..Len(E) /\ sep \in span[n] /\ sep \in Key
  BY <1>3
<1>25. Len(E) \in Nat
  BY <1>3
<1>5. Less(E[m].key, sep)
  <2>1. Below(E[m], E[m + 1])
    <3>1. m \in DOMAIN E /\ m + 1 \in DOMAIN E /\ m < m + 1
      BY <1>3, <1>4
    <3>2. Sorted(E)
      BY <1>3
    <3> QED  BY <3>1, <3>2 DEF Sorted
  <2> QED  BY <2>1 DEF Below
<1>6. \A i \in 1..m : Less(E[i].key, sep)
  <2> TAKE i \in 1..m
  <2>1. i = m \/ (i < m /\ i \in 1..Len(E))
    BY <1>3, <1>4
  <2>2. i < m => Below(E[i], E[m])
    BY <1>3, <1>4, <2>1 DEF Sorted
  <2>3. i < m => ~ Less(E[m].key, E[i].key)
    BY <1>3, <1>4, <2>1, <2>2, BelowFacts
  <2>4. i < m => E[m].key \in Key /\ E[i].key \in Key
    BY <1>3, <1>4, <2>1
  <2> QED  BY <1>4, <1>5, <2>1, <2>3, <2>4, LessFacts
<1>7. \A i \in (m + 1)..Len(E) : ~ Less(E[i].key, sep)
  <2> TAKE i \in (m + 1)..Len(E)
  <2>1. i = m + 1 \/ (m + 1 < i /\ i \in 1..Len(E))
    BY <1>3, <1>4
  <2>2. m + 1 < i => Below(E[m + 1], E[i])
    BY <1>3, <1>4, <2>1 DEF Sorted
  <2>3. m + 1 < i => ~ Less(E[i].key, E[m + 1].key)
    BY <1>3, <1>4, <2>1, <2>2, BelowFacts
  <2> QED  BY <1>4, <2>1, <2>3, LessIrreflexive
<1>8. /\ a \in Seq(Entry) /\ Len(a) = m /\ Sorted(a)
      /\ \A i \in 1..m : a[i] = E[i]
  <2>1. m \in Nat /\ 1 <= m + 1 /\ m <= Len(E) /\ m - 1 + 1 = m
    BY <1>4
  <2>2. a = SubSeq(E, 1, m)
    OBVIOUS
  <2> HIDE DEF a
  <2>3. /\ a \in Seq(Entry) /\ Len(a) = m - 1 + 1 /\ Sorted(a)
        /\ \A i \in 1..(m - 1 + 1) : a[i] = E[1 + i - 1]
    <3>1. PICK one \in Nat : one = 1
      OBVIOUS
    <3>2. a = SubSeq(E, one, m) /\ 1 <= one /\ one <= m + 1
      BY <2>1, <2>2, <3>1
    <3>3. PartOf(a, E, one, m)
      BY <1>3, <2>1, <3>2, SortedPart
    <3> QED  BY <3>1, <3>3 DEF PartOf
  <2>4. \A i \in 1..m : 1 + i - 1 = i
    OBVIOUS
  <2> QED  BY <2>1, <2>3, <2>4
<1>9. /\ b \in Seq(Entry) /\ Len(b) = Len(E) - m /\ Sorted(b)
      /\ \A i \in 1..(Len(E) - m) : b[i] = E[m + i] /\ m + i \in (m + 1)..Len(E)
  <2>1. /\ m + 1 \in Nat /\ 1 <= m + 1 /\ m + 1 <= Len(E) + 1 /\ Len(E) \in Nat /\ Len(E) <= Len(E)
        /\ Len(E) - (m + 1) + 1 = Len(E) - m
    BY <1>4, <1>25
  <2>2. b = SubSeq(E, m + 1, Len(E))
    OBVIOUS
  <2> HIDE DEF b
  <2>3. /\ b \in Seq(Entry) /\ Len(b) = Len(E) - (m + 1) + 1 /\ Sorted(b)
        /\ \A i \in 1..(Len(E) - (m + 1) + 1) : b[i] = E[(m + 1) + i - 1]
    <3>1. PartOf(b, E, m + 1, Len(E))
      BY <1>3, <2>1, <2>2, SortedPart
    <3> QED  BY <3>1 DEF PartOf
  <2>4. \A i \in 1..(Len(E) - m) : (m + 1) + i - 1 = m + i /\ m + i \in (m + 1)..Len(E)
    <3>1. m \in Nat /\ Len(E) \in Nat
      BY <1>4, <1>25
    <3> QED  BY <3>1, BehindCut, Zenon
  <2> QED  BY <2>1, <2>3, <2>4
<1> HIDE DEF a, b
<1>10. Len(nodes) \in Nat /\ r \in Nat
  BY <1>2
<1>11. /\ left \in LeafNode /\ left.entries = a /\ left.next = r
       /\ right \in LeafNode /\ right.entries = b /\ right.next = nodes[n].next
  BY <1>3, <1>8, <1>9, <1>10, NodesMade
<1>12. new = SplitNodes(nodes, n, left, right)
  BY DEF a, b
<1> HIDE DEF left, right
<1>13. n \in 1..Len(nodes) /\ left \in Node /\ right \in Node
  BY <1>2, <1>11 DEF Node
<1>14. Placed(new, nodes, n, left, right, r) /\ Len(new) = Len(nodes) + 1
  <2>1. Placed(new, nodes, n, left, right, r)
    BY <1>2, <1>12, <1>13, SplitNodesFacts
  <2> QED  BY <2>1 DEF Placed
<1>15. /\ Frame(new, sp, lv, h)
       /\ Halves(sp, lv, n, r, sep)
       /\ \A q \in DOMAIN nodes : joined[q] = span[q] /\ lv[q] = level[q]
  <2>1. left \in LeafNode <=> nodes[n] \in LeafNode
    BY <1>11
  <2>2. right \in LeafNode <=> nodes[n] \in LeafNode
    BY <1>11
  <2>3. E[m].key \in span[n]
    BY <1>3, <1>4
  <2> QED  BY <1>1, <1>4, <1>5, <1>12, <1>13, <2>1, <2>2, <2>3, SplitFrame
<1>16. /\ DOMAIN sp = DOMAIN nodes \cup {r} /\ sp[n] = {k \in span[n] : Less(k, sep)}
       /\ sp[r] = {k \in span[n] : ~ Less(k, sep)}
       /\ \A q \in DOMAIN nodes \ {n} : sp[q] = span[q]
  <2>1. r \notin DOMAIN nodes
    BY <1>14 DEF Placed
  <2> QED  BY <1>2, <2>1 DEF SplitSpan
<1>17. DOMAIN level = DOMAIN nodes /\ DOMAIN level \subseteq DOMAIN lv
  BY <1>2 DEF SplitLevel
<1> HIDE DEF sp, lv, joined
<1>18. /\ DOMAIN new = DOMAIN nodes \cup {r} /\ r \notin DOMAIN nodes
       /\ new[n] = left /\ new[r] = right /\ \A q \in DOMAIN nodes \ {n} : new[q] = nodes[q]
  BY <1>14 DEF Placed
<1>19. Stocked(new, sp)
  <2>1. LeafOk(left, sp[n])
    <3>1. \A i \in DOMAIN a : a[i].key \in sp[n]
      BY <1>3, <1>4, <1>6, <1>8, <1>16
    <3> QED  BY <1>8, <1>11, <3>1 DEF LeafOk
  <2>2. LeafOk(right, sp[r])
    <3>1. \A i \in DOMAIN b : b[i].key \in sp[r]
      <4>1. DOMAIN b = 1..(Len(E) - m)
        BY <1>9
      <4>2. \A i \in (m + 1)..Len(E) : i \in 1..Len(E) /\ E[i].key \in sp[r]
        <5> TAKE i \in (m + 1)..Len(E)
        <5>1. i \in 1..Len(E)
          BY <1>3, <1>4
        <5>2. E[i].key \in span[n] /\ ~ Less(E[i].key, sep)
          BY <1>3, <1>7, <5>1
        <5> QED  BY <1>16, <5>1, <5>2
      <4> QED  BY <1>9, <4>1, <4>2
    <3> QED  BY <1>9, <1>11, <3>1 DEF LeafOk
  <2>3. \A q \in DOMAIN nodes \ {n} : new[q] \in LeafNode => LeafOk(new[q], sp[q])
    BY <1>1, <1>16, <1>18 DEF Stocked
  <2> QED  BY <1>18, <2>1, <2>2, <2>3 DEF Stocked
<1>20. Linked(new, sp, lv, joined)
  <2> SUFFICES ASSUME NEW q \in DOMAIN new, new[q] \in InnerNode
               PROVE  InnerOk(new[q], sp[q], lv[q], lv, joined)
    BY DEF Linked
  <2>1. q \in DOMAIN nodes /\ q # n /\ new[q] = nodes[q] /\ sp[q] = span[q]
    BY <1>11, <1>16, <1>18, NodeKinds
  <2> QED  BY <1>1, <1>15, <1>17, <2>1, SplitLinked
<1>21. \E ch : Chained(new, sp, ch)
  <2>1. sp[n] \subseteq span[n] /\ sp[r] \subseteq span[n] /\ span[n] \subseteq Key
    BY <1>2, <1>16
  <2> QED  BY <1>1, <1>4, <1>11, <1>14, <1>15, <1>16, <2>1, SplitChained
<1>22. Holds(new, es)
  <2>1. ASSUME NEW e \in Entry PROVE OnList(E, e) <=> OnList(a, e) \/ OnList(b, e)
    <3>1. ASSUME OnList(E, e) PROVE OnList(a, e) \/ OnList(b, e)
      <4>1. PICK i \in 1..Len(E) : E[i] = e
        BY <1>3, <3>1 DEF OnList
      <4>2. i <= m => i \in DOMAIN a /\ a[i] = e
        BY <1>8, <4>1
      <4>3. i > m => i - m \in DOMAIN b /\ b[i - m] = e
        <5>1. i > m => i - m \in 1..(Len(E) - m) /\ m + (i - m) = i
          BY <1>3, <4>1
        <5> QED  BY <1>9, <4>1, <5>1
      <4>4. i <= m \/ i > m
        OBVIOUS
      <4> QED  BY <4>2, <4>3, <4>4 DEF OnList
    <3>2. ASSUME OnList(a, e) PROVE OnList(E, e)
      <4>1. PICK i \in DOMAIN a : a[i] = e
        BY <3>2 DEF OnList
      <4>2. i \in 1..m /\ i \in DOMAIN E
        BY <1>3, <1>8, <4>1
      <4> QED  BY <1>8, <4>1, <4>2 DEF OnList
    <3>3. ASSUME OnList(b, e) PROVE OnList(E, e)
      <4>1. PICK i \in DOMAIN b : b[i] = e
        BY <3>3 DEF OnList
      <4>2. i \in 1..(Len(E) - m)
        BY <1>9, <4>1
      <4>3. m + i \in (m + 1)..Len(E) /\ E[m + i] = e
        BY <1>9, <4>1, <4>2
      <4>4. m + i \in DOMAIN E
        BY <1>3, <1>4, <4>3
      <4> QED  BY <4>3, <4>4 DEF OnList
    <3> QED  BY <3>1, <3>2, <3>3
  <2>2. ASSUME NEW e \in Entry PROVE InLeaf(new, e) <=> InLeaf(nodes, e)
    <3>1. ASSUME InLeaf(new, e) PROVE InLeaf(nodes, e)
      <4>1. PICK q \in DOMAIN new : new[q] \in LeafNode /\ OnList(new[q].entries, e)
        BY <3>1 DEF InLeaf
      <4>2. CASE q = n \/ q = r
        <5>1. OnList(E, e)
          BY <1>11, <1>18, <2>1, <4>1, <4>2
        <5> QED  BY <5>1 DEF InLeaf
      <4>3. CASE q # n /\ q # r
        BY <1>18, <4>1, <4>3 DEF InLeaf
      <4> QED  BY <4>2, <4>3
    <3>2. ASSUME InLeaf(nodes, e) PROVE InLeaf(new, e)
      <4>1. PICK q \in DOMAIN nodes : nodes[q] \in LeafNode /\ OnList(nodes[q].entries, e)
        BY <3>2 DEF InLeaf
      <4>2. CASE q = n
        <5>1. OnList(a, e) \/ OnList(b, e)
          BY <2>1, <4>1, <4>2
        <5> QED  BY <1>11, <1>18, <5>1 DEF InLeaf
      <4>3. CASE q # n
        BY <1>18, <4>1, <4>3 DEF InLeaf
      <4> QED  BY <4>2, <4>3
    <3> QED  BY <3>1, <3>2
  <2> QED  BY <1>1, <2>2 DEF Holds
<1>23. PICK ch : Chained(new, sp, ch)
  BY <1>21
<1>24. Sound(new, sp, lv, h, ch, es, joined)
  BY <1>15, <1>19, <1>20, <1>22, <1>23 DEF Sound
<1> QED  BY <1>15, <1>24 DEF SplitOff, joined

----------------------------------------------------------------------------
(* The leaf an entry goes to.                                              *)

\* The nodes with one of them changed.
Changed(new, nodes, n, node) ==
  /\ new \in Seq(Node) /\ Len(new) = Len(nodes) /\ DOMAIN new = DOMAIN nodes
  /\ new[n] = node
  /\ \A m \in DOMAIN nodes \ {n} : new[m] = nodes[m]

LEMMA ChangedFacts ==
  ASSUME NEW nodes \in Seq(Node), NEW n \in 1..Len(nodes), NEW node \in Node,
         NEW new, new = [nodes EXCEPT ![n] = node]
  PROVE  Changed(new, nodes, n, node)
<1>1. new \in Seq(Node) /\ Len(new) = Len(nodes)
  BY ExceptSeq
<1>2. DOMAIN nodes = 1..Len(nodes) /\ DOMAIN new = 1..Len(nodes)
  BY <1>1
<1>3. new[n] = node /\ \A m \in DOMAIN nodes \ {n} : new[m] = nodes[m]
  BY <1>2
<1> QED  BY <1>1, <1>2, <1>3 DEF Changed

\* A changed node of the same kind leaves the frame as it is.
LEMMA ChangedFrame ==
  ASSUME NEW nodes, NEW span, NEW level, NEW h, Frame(nodes, span, level, h),
         NEW n \in DOMAIN nodes, NEW node, node \in LeafNode <=> nodes[n] \in LeafNode,
         NEW new, Changed(new, nodes, n, node)
  PROVE  Frame(new, span, level, h)
<1>1. /\ new \in Seq(Node) /\ Len(new) = Len(nodes) /\ DOMAIN new = DOMAIN nodes
      /\ \A m \in DOMAIN nodes : new[m] \in LeafNode <=> nodes[m] \in LeafNode
  BY DEF Changed
<1>2. \A m \in DOMAIN new : span[m] # {} /\ (new[m] \in LeafNode <=> level[m] = 0)
  BY <1>1 DEF Frame
<1> QED  BY <1>1, <1>2 DEF Frame

\* A leaf with one more entry of its span.
LEMMA LeafFilled ==
  ASSUME NEW nodes, NEW span, NEW level, NEW h, NEW chain, NEW es,
         Sound(nodes, span, level, h, chain, es, span),
         NEW n \in DOMAIN nodes, nodes[n] \in LeafNode,
         NEW e \in Entry, e.key \in span[n],
         NEW list, Inserted(list, nodes[n].entries, e),
         NEW new, Changed(new, nodes, n, Leaf(list, nodes[n].next))
  PROVE  Sound(new, span, level, h, chain, es \cup {e}, span)
<1> DEFINE leaf == Leaf(list, nodes[n].next)
<1>1. Frame(nodes, span, level, h) /\ Stocked(nodes, span) /\ Linked(nodes, span, level, span)
      /\ Chained(nodes, span, chain) /\ Holds(nodes, es)
  BY DEF Sound
<1>2. /\ list \in Seq(Entry) /\ Sorted(list)
      /\ \A f \in Entry : OnList(list, f) <=> f = e \/ OnList(nodes[n].entries, f)
  BY DEF Inserted
<1>3. leaf \in LeafNode /\ leaf.entries = list /\ leaf.next = nodes[n].next
  BY <1>2, NodeKinds, NodesMade
<1> HIDE DEF leaf
<1>4. /\ DOMAIN new = DOMAIN nodes /\ new[n] = leaf /\ Len(new) = Len(nodes)
      /\ \A m \in DOMAIN nodes \ {n} : new[m] = nodes[m]
  BY DEF Changed, leaf
<1>5. Frame(new, span, level, h)
  <2>1. leaf \in LeafNode <=> nodes[n] \in LeafNode
    BY <1>3
  <2>2. Changed(new, nodes, n, leaf)
    BY DEF leaf
  <2> QED  BY <1>1, <2>1, <2>2, ChangedFrame
<1>6. Stocked(new, span)
  <2>1. LeafOk(leaf, span[n])
    <3>1. ASSUME NEW i \in DOMAIN list PROVE list[i].key \in span[n]
      <4>1. list[i] \in Entry /\ OnList(list, list[i])
        BY <1>2, <3>1 DEF OnList
      <4>2. list[i] = e \/ OnList(nodes[n].entries, list[i])
        BY <1>2, <4>1
      <4>3. ASSUME OnList(nodes[n].entries, list[i]) PROVE list[i].key \in span[n]
        BY <1>1, <4>3 DEF OnList, Stocked, LeafOk
      <4> QED  BY <4>2, <4>3
    <3> QED  BY <1>2, <1>3, <3>1 DEF LeafOk
  <2> QED  BY <1>1, <1>4, <2>1 DEF Stocked
<1>7. Linked(new, span, level, span)
  <2> SUFFICES ASSUME NEW q \in DOMAIN new, new[q] \in InnerNode
               PROVE  InnerOk(new[q], span[q], level[q], level, span)
    BY DEF Linked
  <2>1. q \in DOMAIN nodes /\ new[q] = nodes[q]
    BY <1>3, <1>4, NodeKinds
  <2> QED  BY <1>1, <2>1 DEF Linked
<1>8. Chained(new, span, chain)
  <2>1. \A m \in DOMAIN nodes : (new[m] \in LeafNode <=> nodes[m] \in LeafNode) /\ new[m].next = nodes[m].next
    BY <1>3, <1>4
  <2>2. DOMAIN new = DOMAIN nodes /\ Len(new) = Len(nodes) /\ Chained(nodes, span, chain)
    BY <1>1, <1>4
  <2>3. /\ chain \in Seq(DOMAIN nodes) /\ Len(chain) <= Len(nodes)
        /\ \A i \in DOMAIN chain : nodes[chain[i]] \in LeafNode
                                 /\ nodes[chain[i]].next = IF i = Len(chain) THEN NoNode ELSE chain[i + 1]
        /\ \A q \in DOMAIN nodes : nodes[q] \in LeafNode => \E i \in DOMAIN chain : chain[i] = q
        /\ \A i, j \in DOMAIN chain : i < j => \A c \in span[chain[i]], d \in span[chain[j]] : Less(c, d)
    BY <2>2 DEF Chained
  <2>4. \A i \in DOMAIN chain : new[chain[i]] \in LeafNode
                              /\ new[chain[i]].next = IF i = Len(chain) THEN NoNode ELSE chain[i + 1]
    <3> TAKE i \in DOMAIN chain
    <3>1. chain[i] \in DOMAIN nodes
      BY <2>3
    <3> QED  BY <2>1, <2>3, <3>1
  <2>5. \A q \in DOMAIN new : new[q] \in LeafNode => \E i \in DOMAIN chain : chain[i] = q
    BY <2>1, <2>2, <2>3
  <2> QED  BY <2>2, <2>3, <2>4, <2>5, Zenon DEF Chained
<1>9. Holds(new, es \cup {e})
  <2>1. ASSUME NEW f \in Entry PROVE InLeaf(new, f) <=> f = e \/ InLeaf(nodes, f)
    <3>1. ASSUME InLeaf(new, f) PROVE f = e \/ InLeaf(nodes, f)
      <4>1. PICK q \in DOMAIN new : new[q] \in LeafNode /\ OnList(new[q].entries, f)
        BY <3>1 DEF InLeaf
      <4>2. CASE q = n
        <5>1. f = e \/ OnList(nodes[n].entries, f)
          BY <1>2, <1>3, <1>4, <4>1, <4>2
        <5> QED  BY <5>1 DEF InLeaf
      <4>3. CASE q # n
        BY <1>4, <4>1, <4>3 DEF InLeaf
      <4> QED  BY <4>2, <4>3
    <3>2. ASSUME f = e PROVE InLeaf(new, f)
      <4>1. OnList(list, f)
        BY <1>2, <3>2
      <4> QED  BY <1>3, <1>4, <4>1 DEF InLeaf
    <3>3. ASSUME InLeaf(nodes, f) PROVE InLeaf(new, f)
      <4>1. PICK q \in DOMAIN nodes : nodes[q] \in LeafNode /\ OnList(nodes[q].entries, f)
        BY <3>3 DEF InLeaf
      <4>2. CASE q = n
        <5>1. OnList(list, f)
          BY <1>2, <4>1, <4>2
        <5> QED  BY <1>3, <1>4, <5>1 DEF InLeaf
      <4>3. CASE q # n
        BY <1>4, <4>1, <4>3 DEF InLeaf
      <4> QED  BY <4>2, <4>3
    <3> QED  BY <3>1, <3>2, <3>3
  <2> QED  BY <1>1, <2>1 DEF Holds
<1> QED  BY <1>5, <1>6, <1>7, <1>8, <1>9 DEF Sound

Settled(new, nodes, span, level, h, es) ==
  \E sp, lv, ch : /\ Sound(new, sp, lv, h, ch, es, sp)
                  /\ \A q \in DOMAIN nodes : sp[q] = span[q] /\ lv[q] = level[q]

\* What inserting into a node leaves: a tree, or a tree with that node split.
Outcome(res, nodes, span, level, h, es, n) ==
  /\ res.split.is => SplitOff(res.nodes, nodes, span, level, h, es, n, res.split.right, res.split.sep)
  /\ ~ res.split.is => Settled(res.nodes, nodes, span, level, h, es)
  /\ res.nodes \in Seq(Node)
  /\ Len(nodes) <= Len(res.nodes)
  /\ \A q \in DOMAIN nodes \ {n} : res.nodes[q] = nodes[q]

\* No leaf is longer than LeafMax, or some key has a run of more than half that.
Roomy(nodes) == \A n \in DOMAIN nodes : nodes[n] \in LeafNode => Len(nodes[n].entries) <= LeafMax
Heavy(es) == \E e \in es : 2 * Cardinality({f \in es : f.key = e.key}) > LeafMax + 1

\* The two ways insert_leaf ends.
LeafWhole(res, nodes, n, list) ==
  /\ res.nodes = [nodes EXCEPT ![n] = Leaf(list, nodes[n].next)]
  /\ ~ res.split.is
LeafCut(res, nodes, n, list, m) ==
  /\ res.nodes = SplitNodes(nodes, n, Leaf(SubSeq(list, 1, m), Len(nodes) + 1),
                                      Leaf(SubSeq(list, m + 1, Len(list)), nodes[n].next))
  /\ res.split.is /\ res.split.sep = list[m + 1].key /\ res.split.right = Len(nodes) + 1

LEMMA InsertLeafCases ==
  ASSUME NEW nodes, NEW n, NEW key, NEW value, NEW e, e = [key |-> key, value |-> value],
         nodes[n].entries \in Seq(Entry), Sorted(nodes[n].entries), e \in Entry, ~ OnList(nodes[n].entries, e),
         NEW res, res = InsertLeaf(nodes, n, key, value)
  PROVE  \E list : /\ Inserted(list, nodes[n].entries, e)
                   /\ \/ LeafWhole(res, nodes, n, list) /\ (Len(list) <= LeafMax \/ CutPoint(list) = Len(list))
                      \/ LeafCut(res, nodes, n, list, CutPoint(list)) /\ Len(list) > LeafMax /\ CutPoint(list) # Len(list)
<1> DEFINE old == nodes[n].entries
           list == InsertAt(old, Cardinality({i \in DOMAIN old : Below(old[i], e)}) + 1, e)
           m == CutPoint(list)
           whole == Len(list) <= LeafMax \/ m = Len(list)
<1>1. Inserted(list, old, e)
  <2>1. old \in Seq(Entry) /\ Sorted(old) /\ e \in Entry /\ ~ OnList(old, e)
    OBVIOUS
  <2>2. list = InsertAt(old, Cardinality({i \in DOMAIN old : Below(old[i], e)}) + 1, e)
    OBVIOUS
  <2> HIDE DEF list, old
  <2> QED  BY <2>1, <2>2, SortedInsert
<1>2. res = IF whole
            THEN [nodes |-> [nodes EXCEPT ![n] = Leaf(list, nodes[n].next)], split |-> NoSplit]
            ELSE [nodes |-> Append([nodes EXCEPT ![n] = Leaf(SubSeq(list, 1, m), Len(nodes) + 1)],
                                   Leaf(SubSeq(list, m + 1, Len(list)), nodes[n].next)),
                  split |-> Split(list[m + 1].key, Len(nodes) + 1)]
  BY DEF InsertLeaf
<1>3. Len(list) \in Nat
  BY <1>1 DEF Inserted
<1> HIDE DEF list
<1>4. CASE whole
  <2>1. res.nodes = [nodes EXCEPT ![n] = Leaf(list, nodes[n].next)] /\ res.split = NoSplit
    BY <1>2, <1>4
  <2>2. ~ res.split.is
    BY <2>1 DEF NoSplit
  <2>3. LeafWhole(res, nodes, n, list)
    BY <2>1, <2>2 DEF LeafWhole
  <2> QED  BY <1>1, <1>4, <2>3
<1>5. CASE ~ whole
  <2>1. /\ res.nodes = Append([nodes EXCEPT ![n] = Leaf(SubSeq(list, 1, m), Len(nodes) + 1)],
                              Leaf(SubSeq(list, m + 1, Len(list)), nodes[n].next))
        /\ res.split = Split(list[m + 1].key, Len(nodes) + 1)
    BY <1>2, <1>5
  <2>2. res.split.is /\ res.split.sep = list[m + 1].key /\ res.split.right = Len(nodes) + 1
    BY <2>1 DEF Split
  <2>3. LeafCut(res, nodes, n, list, m)
    BY <2>1, <2>2 DEF LeafCut, SplitNodes
  <2>4. Len(list) > LeafMax /\ m # Len(list)
    BY <1>3, <1>5, TreeBounds
  <2> QED  BY <1>1, <2>3, <2>4
<1> QED  BY <1>4, <1>5

\* insert_leaf keeps the tree sound, splitting the leaf or not.
LEMMA LeafOutcome ==
  ASSUME NEW nodes, NEW span, NEW level, NEW h, NEW chain, NEW es,
         Sound(nodes, span, level, h, chain, es, span),
         NEW n \in DOMAIN nodes, nodes[n] \in LeafNode,
         NEW key \in span[n], NEW value \in Nat, NEW e, e = [key |-> key, value |-> value], e \notin es,
         NEW res, res = InsertLeaf(nodes, n, key, value)
  PROVE  Outcome(res, nodes, span, level, h, es \cup {e}, n) /\ res.nodes[n] \in LeafNode
<1>1. Frame(nodes, span, level, h) /\ Stocked(nodes, span) /\ Holds(nodes, es)
  BY DEF Sound
<1>2. nodes \in Seq(Node) /\ key \in Key /\ Len(nodes) \in Nat /\ n \in 1..Len(nodes)
  BY <1>1 DEF Frame
<1>3. e \in Entry /\ e.key \in span[n]
  BY <1>2 DEF Entry
<1>4. ~ OnList(nodes[n].entries, e)
  BY <1>1, <1>3 DEF Holds, InLeaf
<1>5. nodes[n].entries \in Seq(Entry) /\ Sorted(nodes[n].entries) /\ nodes[n].next \in Nat
  BY <1>1, NodeKinds DEF Stocked, LeafOk
<1>6. PICK list : /\ Inserted(list, nodes[n].entries, e)
                  /\ \/ LeafWhole(res, nodes, n, list) /\ (Len(list) <= LeafMax \/ CutPoint(list) = Len(list))
                     \/ /\ LeafCut(res, nodes, n, list, CutPoint(list))
                        /\ Len(list) > LeafMax /\ CutPoint(list) # Len(list)
  BY <1>3, <1>4, <1>5, InsertLeafCases
<1>7. list \in Seq(Entry) /\ Len(list) \in Nat
  BY <1>6 DEF Inserted
<1> DEFINE leaf == Leaf(list, nodes[n].next)  one == [nodes EXCEPT ![n] = leaf]
<1>8. leaf \in LeafNode /\ leaf.entries = list /\ leaf.next = nodes[n].next
  BY <1>5, <1>7, NodesMade
<1>9. Changed(one, nodes, n, leaf)
  <2>1. leaf \in Node
    BY <1>8 DEF Node
  <2>2. one = [nodes EXCEPT ![n] = leaf]
    OBVIOUS
  <2> HIDE DEF one, leaf
  <2> QED  BY <1>2, <2>1, <2>2, ChangedFacts
<1>10. Sound(one, span, level, h, chain, es \cup {e}, span)
  <2> HIDE DEF one
  <2> QED  BY <1>3, <1>6, <1>9, LeafFilled
<1>11. CASE LeafWhole(res, nodes, n, list)
  <2>1. res.nodes = one /\ ~ res.split.is
    BY <1>11 DEF LeafWhole
  <2> HIDE DEF one, leaf
  <2>2. Settled(res.nodes, nodes, span, level, h, es \cup {e})
    BY <1>10, <2>1 DEF Settled
  <2>3. /\ res.nodes \in Seq(Node) /\ Len(nodes) <= Len(res.nodes)
        /\ \A q \in DOMAIN nodes \ {n} : res.nodes[q] = nodes[q]
        /\ res.nodes[n] \in LeafNode
    BY <1>2, <1>8, <1>9, <2>1 DEF Changed
  <2> QED  BY <2>1, <2>2, <2>3 DEF Outcome
<1>12. CASE LeafCut(res, nodes, n, list, CutPoint(list)) /\ Len(list) > LeafMax /\ CutPoint(list) # Len(list)
  <2> DEFINE m == CutPoint(list)  r == Len(nodes) + 1
             left == Leaf(SubSeq(list, 1, m), r)  right == Leaf(SubSeq(list, m + 1, Len(list)), nodes[n].next)
  <2>1. Len(list) >= 2
    BY <1>7, <1>12, TreeBounds
  <2>2. Cut(list, m)
    BY <1>7, <2>1, CutPointFacts
  <2>3. m \in 1..(Len(list) - 1) /\ list[m].key # list[m + 1].key
    BY <1>7, <1>12, <2>2 DEF Cut
  <2>4. res.nodes = SplitNodes(nodes, n, left, right) /\ res.split.is /\ res.split.sep = list[m + 1].key /\ res.split.right = r
    BY <1>12 DEF LeafCut
  <2>5. SplitNodes(nodes, n, left, right) = SplitNodes(one, n, left, right)
    <3>1. [one EXCEPT ![n] = left] = [nodes EXCEPT ![n] = left]
      <4> HIDE DEF left, leaf
      <4> QED  BY <1>2
    <3> HIDE DEF left, right, leaf, one
    <3> QED  BY <3>1 DEF SplitNodes
  <2>6. SplitOff(res.nodes, one, span, level, h, es \cup {e}, n, r, list[m + 1].key)
    <3>1. /\ n \in DOMAIN one /\ one[n] = leaf /\ Len(one) = Len(nodes)
      BY <1>2, <1>9 DEF Changed
    <3>2. one[n] \in LeafNode /\ list = one[n].entries /\ one[n].next = nodes[n].next
      <4> HIDE DEF one, leaf
      <4> QED  BY <1>8, <3>1
    <3>3. r = Len(one) + 1
      <4> HIDE DEF one, leaf
      <4> QED  BY <3>1
    <3>4. res.nodes = SplitNodes(one, n, Leaf(SubSeq(list, 1, m), r), Leaf(SubSeq(list, m + 1, Len(list)), one[n].next))
      <4> HIDE DEF one, leaf, m, r
      <4> QED  BY <2>4, <2>5, <3>2
    <3> HIDE DEF one, leaf, m, r
    <3> QED  BY <1>10, <2>3, <3>1, <3>2, <3>3, <3>4, LeafSplit
  <2>7. SplitOff(res.nodes, nodes, span, level, h, es \cup {e}, n, r, list[m + 1].key)
    <3>1. DOMAIN one = DOMAIN nodes
      BY <1>9 DEF Changed
    <3> HIDE DEF one, leaf, m, r
    <3> QED  BY <2>6, <3>1 DEF SplitOff
  <2>8. left \in LeafNode /\ right \in LeafNode
    <3>1. SubSeq(list, 1, m) \in Seq(Entry) /\ SubSeq(list, m + 1, Len(list)) \in Seq(Entry)
      <4>1. \A i \in 1..Len(list) : list[i] \in Entry
        BY <1>7
      <4> HIDE DEF m
      <4>2. (\A i \in 1..m : list[i] \in Entry) /\ (\A i \in (m + 1)..Len(list) : list[i] \in Entry)
        BY <1>7, <2>3, <4>1
      <4> QED  BY <1>7, <2>3, <4>2, SubSeqProperties
    <3>2. r \in Nat
      BY <1>2
    <3> DEFINE a == SubSeq(list, 1, m)  b == SubSeq(list, m + 1, Len(list))
    <3> HIDE DEF m, r
    <3>3. a \in Seq(Entry) /\ b \in Seq(Entry) /\ left = Leaf(a, r) /\ right = Leaf(b, nodes[n].next)
      BY <3>1
    <3> HIDE DEF a, b, left, right
    <3> QED  BY <1>5, <3>2, <3>3, NodesMade
  <2>9. Placed(res.nodes, nodes, n, left, right, r)
    <3>1. left \in Node /\ right \in Node
      BY <2>8 DEF Node
    <3>2. r = Len(nodes) + 1
      OBVIOUS
    <3> HIDE DEF left, right, r
    <3> QED  BY <1>2, <2>4, <3>1, <3>2, SplitNodesFacts
  <2> HIDE DEF left, right, m
  <2>10. /\ res.nodes \in Seq(Node) /\ Len(nodes) <= Len(res.nodes)
         /\ \A q \in DOMAIN nodes \ {n} : res.nodes[q] = nodes[q]
         /\ res.nodes[n] \in LeafNode
    BY <1>2, <2>8, <2>9 DEF Placed
  <2> QED  BY <2>4, <2>7, <2>10 DEF Outcome
<1> QED  BY <1>6, <1>11, <1>12

----------------------------------------------------------------------------
(* How long leaves get.                                                    *)

\* More entries leave a heavy run heavy.
LEMMA HeavyGrows ==
  ASSUME NEW es, IsFiniteSet(es), NEW e, Heavy(es)
  PROVE  Heavy(es \cup {e})
<1>1. PICK d \in es : 2 * Cardinality({f \in es : f.key = d.key}) > LeafMax + 1
  BY DEF Heavy
<1> DEFINE small == {f \in es : f.key = d.key}  big == {f \in es \cup {e} : f.key = d.key}
<1>2. IsFiniteSet(big)
  <2>1. IsFiniteSet(es \cup {e}) /\ big \in SUBSET (es \cup {e})
    BY FS_AddElement
  <2> HIDE DEF big
  <2> QED  BY <2>1, FS_Subset
<1>3. small \in SUBSET big
  OBVIOUS
<1> HIDE DEF small, big
<1>4. IsFiniteSet(small) /\ Cardinality(small) <= Cardinality(big)
  BY <1>2, <1>3, FS_Subset
<1>5. Cardinality(small) \in Nat /\ Cardinality(big) \in Nat
  BY <1>2, <1>4, FS_CardinalityType
<1>6. 2 * Cardinality(big) > LeafMax + 1
  <2>1. 2 * Cardinality(small) > LeafMax + 1
    BY <1>1 DEF small
  <2> QED  BY <1>4, <1>5, <2>1, TreeBounds
<1>7. d \in es \cup {e} /\ 2 * Cardinality({f \in es \cup {e} : f.key = d.key}) > LeafMax + 1
  BY <1>6 DEF big
<1> QED  BY <1>7 DEF Heavy

\* A leaf that cannot be cut has one key in its second half.
LEMMA RunIsHeavy ==
  ASSUME NEW list \in Seq(Entry), Sorted(list), Len(list) > LeafMax, Cut(list, Len(list)),
         NEW es, IsFiniteSet(es), \A i \in DOMAIN list : list[i] \in es
  PROVE  Heavy(es)
<1> DEFINE n == Len(list)  mid == n \div 2  d == list[n]
           F == {f \in es : f.key = d.key}
           D == {i \in 0..(n - mid) : list[n - i].key = d.key}
<1>1. n \in Nat /\ n >= 2 /\ mid \in Nat /\ mid >= 1 /\ mid <= n /\ 2 * mid <= n /\ n > LeafMax
  BY TreeBounds
<1>2. \A l \in mid..(n - 1) : list[l].key = list[l + 1].key
  <2>1. \A l \in mid..(n - 1) : l \in 1..(n - 1) /\ mid <= l
    BY <1>1
  <2> QED  BY <2>1 DEF Cut
<1>3. \A i \in 0..(n - mid) : i \in D
  <2>1. 0 \in D
    BY <1>1
  <2>2. ASSUME NEW i \in 0..(n - mid - 1), i \in D PROVE i + 1 \in D
    <3>1. n - (i + 1) \in mid..(n - 1) /\ (n - (i + 1)) + 1 = n - i
      BY <1>1
    <3>2. list[n - (i + 1)].key = list[n - i].key
      BY <1>2, <3>1
    <3> QED  BY <1>1, <2>2, <3>2
  <2>3. n - mid \in Nat
    BY <1>1
  <2> HIDE DEF D, mid, n
  <2> QED  BY <2>1, <2>2, <2>3, InductionTo
<1>4. \A i \in mid..n : list[i] \in F
  <2> TAKE i \in mid..n
  <2>1. n - i \in 0..(n - mid) /\ n - (n - i) = i
    BY <1>1
  <2>2. list[n - (n - i)].key = d.key
    <3> HIDE DEF n, mid, d
    <3> QED  BY <1>3, <2>1 DEF D
  <2>3. list[i].key = d.key
    BY <2>1, <2>2
  <2>4. i \in DOMAIN list
    BY <1>1
  <2> QED  BY <2>3, <2>4
<1>5. d \in es
  BY <1>1
<1>6. IsFiniteSet(F) /\ Cardinality(F) \in Nat
  <2>1. F \in SUBSET es
    OBVIOUS
  <2> HIDE DEF F
  <2> QED  BY <2>1, FS_Subset, FS_CardinalityType
<1>7. IsFiniteSet(mid..n) /\ Cardinality(mid..n) = n - mid + 1
  <2> HIDE DEF mid, n
  <2>1. mid \in Int /\ n \in Int /\ ~ (mid > n)
    BY <1>1
  <2> QED  BY <2>1, FS_Interval
<1>8. ~ (Cardinality(F) < Cardinality(mid..n))
  <2> SUFFICES ASSUME Cardinality(F) < Cardinality(mid..n) PROVE FALSE
    OBVIOUS
  <2> DEFINE g == [i \in mid..n |-> list[i]]
  <2>1. g \in [mid..n -> F]
    <3> HIDE DEF F, mid, n
    <3> QED  BY <1>4
  <2>2. \A i \in mid..n : g[i] = list[i] /\ i \in DOMAIN list /\ list[i] \in Entry
    BY <1>1
  <2> HIDE DEF g, F, mid, n
  <2>3. PICK i \in mid..n, j \in mid..n : i # j /\ g[i] = g[j]
    BY <1>6, <1>7, <2>1, FS_PigeonHole
  <2>4. i < j \/ j < i
    BY <1>1, <2>3
  <2>5. Below(list[i], list[j]) \/ Below(list[j], list[i])
    BY <2>2, <2>4 DEF Sorted
  <2> QED  BY <2>2, <2>3, <2>5, BelowFacts
<1>9. 2 * Cardinality(F) > LeafMax + 1
  <2> HIDE DEF F, mid, n
  <2> QED  BY <1>1, <1>6, <1>7, <1>8, TreeBounds
<1> QED  BY <1>5, <1>9 DEF Heavy

\* Where insert_leaf leaves its leaf or leaves.
LEMMA LeafPlaces ==
  ASSUME NEW nodes \in Seq(Node), NEW n \in DOMAIN nodes, nodes[n] \in LeafNode, Sorted(nodes[n].entries),
         NEW key, NEW value, NEW e \in Entry, e = [key |-> key, value |-> value],
         ~ OnList(nodes[n].entries, e),
         NEW res, res = InsertLeaf(nodes, n, key, value)
  PROVE  \E list : /\ Inserted(list, nodes[n].entries, e)
                   /\ \/ \E leaf \in LeafNode :
                           /\ leaf.entries = list /\ Changed(res.nodes, nodes, n, leaf)
                           /\ Len(list) <= LeafMax \/ Cut(list, Len(list))
                      \/ \E left, right \in LeafNode, m \in 1..(Len(list) - 1) :
                           /\ Len(left.entries) = m /\ Len(right.entries) = Len(list) - m
                           /\ Placed(res.nodes, nodes, n, left, right, Len(nodes) + 1)
<1>1. Len(nodes) \in Nat /\ n \in 1..Len(nodes) /\ nodes[n].entries \in Seq(Entry) /\ nodes[n].next \in Nat
  BY NodeKinds
<1>2. PICK list : /\ Inserted(list, nodes[n].entries, e)
                  /\ \/ LeafWhole(res, nodes, n, list) /\ (Len(list) <= LeafMax \/ CutPoint(list) = Len(list))
                     \/ /\ LeafCut(res, nodes, n, list, CutPoint(list))
                        /\ Len(list) > LeafMax /\ CutPoint(list) # Len(list)
  BY <1>1, InsertLeafCases
<1>3. list \in Seq(Entry) /\ Len(list) \in Nat
  BY <1>2 DEF Inserted
<1>4. CASE LeafWhole(res, nodes, n, list) /\ (Len(list) <= LeafMax \/ CutPoint(list) = Len(list))
  <2> DEFINE leaf == Leaf(list, nodes[n].next)
  <2>1. leaf \in LeafNode /\ leaf.entries = list /\ leaf \in Node
    BY <1>1, <1>3, NodesMade DEF Node
  <2>2. res.nodes = [nodes EXCEPT ![n] = leaf]
    BY <1>4 DEF LeafWhole
  <2> HIDE DEF leaf
  <2>3. Changed(res.nodes, nodes, n, leaf)
    BY <1>1, <2>1, <2>2, ChangedFacts
  <2>4. Len(list) <= LeafMax \/ Cut(list, Len(list))
    <3>1. Len(list) <= LeafMax \/ Len(list) >= 2
      BY <1>3, TreeBounds
    <3> QED  BY <1>3, <1>4, <3>1, CutPointFacts
  <2> QED  BY <1>2, <2>1, <2>3, <2>4
<1>5. CASE LeafCut(res, nodes, n, list, CutPoint(list)) /\ Len(list) > LeafMax /\ CutPoint(list) # Len(list)
  <2> DEFINE m == CutPoint(list)  r == Len(nodes) + 1  a == SubSeq(list, 1, m)  b == SubSeq(list, m + 1, Len(list))
             left == Leaf(a, r)  right == Leaf(b, nodes[n].next)
  <2>1. Len(list) >= 2
    BY <1>3, <1>5, TreeBounds
  <2>2. Cut(list, m)
    BY <1>3, <2>1, CutPointFacts
  <2>3. m \in 1..(Len(list) - 1) /\ r \in Nat
    BY <1>1, <1>3, <1>5, <2>2 DEF Cut
  <2>4. res.nodes = SplitNodes(nodes, n, left, right)
    BY <1>5 DEF LeafCut
  <2>5. a \in Seq(Entry) /\ Len(a) = m
    <3> HIDE DEF m
    <3>1. 1 \in 1..(Len(list) + 1) /\ m \in (1 - 1)..Len(list) /\ m - 1 + 1 = m
      BY <1>3, <2>3
    <3> QED  BY <1>3, <3>1, PartFacts
  <2>6. b \in Seq(Entry) /\ Len(b) = Len(list) - m
    <3> HIDE DEF m
    <3>1. m + 1 \in 1..(Len(list) + 1) /\ Len(list) \in ((m + 1) - 1)..Len(list) /\ Len(list) - (m + 1) + 1 = Len(list) - m
      BY <1>3, <2>3
    <3> QED  BY <1>3, <3>1, PartFacts
  <2> HIDE DEF a, b, m
  <2>7. /\ left \in LeafNode /\ left \in Node /\ left.entries = a
        /\ right \in LeafNode /\ right \in Node /\ right.entries = b
    <3> HIDE DEF r
    <3> QED  BY <1>1, <2>3, <2>5, <2>6, NodesMade DEF Node
  <2> HIDE DEF left, right
  <2>8. r = Len(nodes) + 1
    OBVIOUS
  <2>9. Placed(res.nodes, nodes, n, left, right, r)
    <3> HIDE DEF r
    <3> QED  BY <1>1, <2>4, <2>7, <2>8, SplitNodesFacts
  <2> QED  BY <1>2, <2>3, <2>5, <2>6, <2>7, <2>9
<1> QED  BY <1>2, <1>4, <1>5

\* Leaves stay short unless there is a heavy run, and insert_leaf leaves the
\* internal nodes alone.
LEMMA LeafRoomy ==
  ASSUME NEW nodes, NEW span, NEW level, NEW h, NEW chain, NEW es,
         Sound(nodes, span, level, h, chain, es, span), IsFiniteSet(es), Roomy(nodes) \/ Heavy(es),
         NEW n \in DOMAIN nodes, nodes[n] \in LeafNode,
         NEW key \in span[n], NEW value \in Nat, NEW e, e = [key |-> key, value |-> value], e \notin es,
         NEW res, res = InsertLeaf(nodes, n, key, value)
  PROVE  /\ Roomy(res.nodes) \/ Heavy(es \cup {e})
         /\ Narrow(nodes) => Narrow(res.nodes)
<1>1. Frame(nodes, span, level, h) /\ Stocked(nodes, span) /\ Holds(nodes, es)
  BY DEF Sound
<1>2. nodes \in Seq(Node) /\ key \in Key /\ Len(nodes) \in Nat /\ n \in 1..Len(nodes)
  BY <1>1 DEF Frame
<1>3. e \in Entry
  BY <1>2 DEF Entry
<1>4. ~ OnList(nodes[n].entries, e)
  BY <1>1, <1>3 DEF Holds, InLeaf
<1>5. nodes[n].entries \in Seq(Entry) /\ Sorted(nodes[n].entries) /\ Len(nodes[n].entries) \in Nat
  BY <1>1, NodeKinds DEF Stocked, LeafOk
<1>6. PICK list : /\ Inserted(list, nodes[n].entries, e)
                  /\ \/ \E leaf \in LeafNode :
                           /\ leaf.entries = list /\ Changed(res.nodes, nodes, n, leaf)
                           /\ Len(list) <= LeafMax \/ Cut(list, Len(list))
                     \/ \E left, right \in LeafNode, m \in 1..(Len(list) - 1) :
                           /\ Len(left.entries) = m /\ Len(right.entries) = Len(list) - m
                           /\ Placed(res.nodes, nodes, n, left, right, Len(nodes) + 1)
  BY <1>2, <1>3, <1>4, <1>5, LeafPlaces
<1>7. list \in Seq(Entry) /\ Sorted(list) /\ Len(list) = Len(nodes[n].entries) + 1 /\ Len(list) \in Nat
  BY <1>6 DEF Inserted
<1>8. CASE \E leaf \in LeafNode :
             /\ leaf.entries = list /\ Changed(res.nodes, nodes, n, leaf)
             /\ Len(list) <= LeafMax \/ Cut(list, Len(list))
  <2>1. PICK leaf \in LeafNode :
             /\ leaf.entries = list /\ Changed(res.nodes, nodes, n, leaf)
             /\ Len(list) <= LeafMax \/ Cut(list, Len(list))
    BY <1>8
  <2>2. DOMAIN res.nodes = DOMAIN nodes /\ res.nodes[n] = leaf /\ \A q \in DOMAIN nodes \ {n} : res.nodes[q] = nodes[q]
    BY <2>1 DEF Changed
  <2>3. Narrow(nodes) => Narrow(res.nodes)
    <3>1. \A q \in DOMAIN res.nodes : res.nodes[q] \in InnerNode => q \in DOMAIN nodes /\ res.nodes[q] = nodes[q]
      BY <2>2, NodeKinds
    <3> QED  BY <3>1 DEF Narrow
  <2>4. Len(list) <= LeafMax /\ Roomy(nodes) => Roomy(res.nodes)
    BY <2>1, <2>2 DEF Roomy
  <2>5. ASSUME ~ (Len(list) <= LeafMax) PROVE Heavy(es \cup {e})
    <3>1. Cut(list, Len(list)) /\ Len(list) > LeafMax
      BY <1>7, <2>1, <2>5, TreeBounds
    <3>2. ASSUME NEW i \in DOMAIN list PROVE list[i] \in es \cup {e}
      <4>1. list[i] \in Entry /\ OnList(list, list[i])
        BY <1>7 DEF OnList
      <4>2. list[i] = e \/ OnList(nodes[n].entries, list[i])
        BY <1>6, <4>1 DEF Inserted
      <4>3. OnList(nodes[n].entries, list[i]) => InLeaf(nodes, list[i])
        BY DEF InLeaf
      <4> QED  BY <1>1, <4>1, <4>2, <4>3 DEF Holds
    <3>3. IsFiniteSet(es \cup {e})
      BY FS_AddElement
    <3> QED  BY <1>7, <3>1, <3>2, <3>3, RunIsHeavy
  <2>6. Heavy(es) => Heavy(es \cup {e})
    BY HeavyGrows
  <2> QED  BY <2>3, <2>4, <2>5, <2>6
<1>9. CASE \E left, right \in LeafNode, m \in 1..(Len(list) - 1) :
             /\ Len(left.entries) = m /\ Len(right.entries) = Len(list) - m
             /\ Placed(res.nodes, nodes, n, left, right, Len(nodes) + 1)
  <2>1. PICK left \in LeafNode, right \in LeafNode, m \in 1..(Len(list) - 1) :
             /\ Len(left.entries) = m /\ Len(right.entries) = Len(list) - m
             /\ Placed(res.nodes, nodes, n, left, right, Len(nodes) + 1)
    BY <1>9
  <2> DEFINE r == Len(nodes) + 1
  <2>2. /\ DOMAIN res.nodes = DOMAIN nodes \cup {r} /\ res.nodes[n] = left /\ res.nodes[r] = right
        /\ \A q \in DOMAIN nodes \ {n} : res.nodes[q] = nodes[q]
    BY <2>1 DEF Placed
  <2> HIDE DEF r
  <2>3. Narrow(nodes) => Narrow(res.nodes)
    <3>1. \A q \in DOMAIN res.nodes : res.nodes[q] \in InnerNode => q \in DOMAIN nodes /\ res.nodes[q] = nodes[q]
      BY <2>2, NodeKinds
    <3> QED  BY <3>1 DEF Narrow
  <2>4. Roomy(nodes) => Roomy(res.nodes)
    <3>1. Len(nodes[n].entries) <= LeafMax => Len(left.entries) <= LeafMax /\ Len(right.entries) <= LeafMax
      BY <1>5, <1>7, <2>1, TreeBounds
    <3> QED  BY <2>2, <3>1 DEF Roomy
  <2>5. Heavy(es) => Heavy(es \cup {e})
    BY HeavyGrows
  <2> QED  BY <2>3, <2>4, <2>5
<1> QED  BY <1>6, <1>8, <1>9

----------------------------------------------------------------------------
(* A node takes the right half of one of its children.                     *)

\* Node n is child i of node p, and its right half is r.
HalfChild(nodes, span, level, n, r, sep, p, i) ==
  /\ Halves(span, level, n, r, sep)
  /\ p \in DOMAIN nodes /\ nodes[p] \in InnerNode
  /\ Linked(nodes, span, level, Joined(span, n, r))
  /\ i \in DOMAIN nodes[p].children /\ nodes[p].children[i] = n

\* What separates the halves of a child goes between the separators around it.
LEMMA SeparatorBetween ==
  ASSUME NEW nodes, NEW span, NEW level, NEW h, Frame(nodes, span, level, h),
         NEW n, NEW r, NEW sep, NEW p, NEW i, HalfChild(nodes, span, level, n, r, sep, p, i),
         NEW keys, keys = nodes[p].keys, NEW s, s = span[p]
  PROVE  /\ span[n] \cup span[r] = Slot(s, keys, i) /\ sep \in s /\ sep \in Key
         /\ span[n] = {k \in Slot(s, keys, i) : Less(k, sep)}
         /\ span[r] = {k \in Slot(s, keys, i) : ~ Less(k, sep)}
         /\ \A j \in DOMAIN keys : IF j < i THEN Less(keys[j], sep) ELSE Less(sep, keys[j])
<1>1. InnerOk(nodes[p], s, level[p], level, Joined(span, n, r))
  BY DEF HalfChild, Linked
<1>2. keys \in Seq(Key) /\ nodes[p].children \in Seq(Nat) /\ s \subseteq Key /\ n \in DOMAIN span /\ r \in DOMAIN span
  BY NodeKinds DEF HalfChild, Halves, Frame
<1>3. Joined(span, n, r)[n] = span[n] \cup span[r]
  BY <1>2 DEF Joined
<1>4. span[n] \cup span[r] = Slot(s, keys, i)
  BY <1>1, <1>3 DEF HalfChild, InnerOk
<1>5. sep \in span[r] /\ (\A k \in span[n] : Less(k, sep)) /\ (\A k \in span[r] : ~ Less(k, sep))
  BY DEF HalfChild, Halves
<1>6. Slot(s, keys, i) \subseteq s
  BY DEF Slot
<1>7. PICK low \in span[n] : low \in Key /\ Less(low, sep)
  BY <1>2, <1>5 DEF Frame
<1>8. sep \in Key /\ sep \in s /\ sep \in Slot(s, keys, i) /\ low \in Slot(s, keys, i)
  BY <1>2, <1>4, <1>5, <1>6
<1>9. /\ Len(keys) \in Nat /\ DOMAIN keys = 1..Len(keys) /\ \A j \in 1..Len(keys) : keys[j] \in Key
      /\ i \in 1..(Len(keys) + 1)
  <2>1. Len(nodes[p].children) = Len(keys) + 1 /\ i \in DOMAIN nodes[p].children
    BY <1>1 DEF InnerOk, HalfChild
  <2>2. Len(keys) \in Nat /\ DOMAIN keys = 1..Len(keys) /\ \A j \in 1..Len(keys) : keys[j] \in Key
    BY <1>2
  <2>3. DOMAIN nodes[p].children = 1..Len(nodes[p].children)
    BY <1>2
  <2>4. i \in 1..(Len(keys) + 1)
    BY <2>1, <2>3
  <2> QED  BY <2>2, <2>4
<1>10. i > 1 => Less(keys[i - 1], sep)
  <2>1. i > 1 => i - 1 \in 1..Len(keys) /\ ~ Less(low, keys[i - 1])
    BY <1>8, <1>9 DEF Slot
  <2> QED  BY <1>7, <1>8, <1>9, <2>1, LessFacts
<1>11. i <= Len(keys) => Less(sep, keys[i])
  BY <1>8 DEF Slot
<1>12. ASSUME NEW j \in 1..Len(keys) PROVE IF j < i THEN Less(keys[j], sep) ELSE Less(sep, keys[j])
  <2>1. CASE j < i
    <3>1. i > 1 /\ i - 1 \in DOMAIN keys /\ (j = i - 1 \/ j < i - 1)
      <4>1. Len(keys) \in Nat /\ i \in 1..(Len(keys) + 1)
        BY <1>9
      <4>2. i > 1 /\ i - 1 \in 1..Len(keys) /\ (j = i - 1 \/ j < i - 1)
        BY <2>1, <4>1
      <4> QED  BY <1>9, <4>2
    <3>2. j < i - 1 => Less(keys[j], keys[i - 1])
      BY <1>1, <1>9, <3>1 DEF InnerOk, Ordered
    <3>3. keys[j] \in Key /\ keys[i - 1] \in Key
      BY <1>9, <3>1
    <3>4. Less(keys[j], sep)
      BY <1>8, <1>10, <3>1, <3>2, <3>3, LessFacts
    <3> QED  BY <2>1, <3>4
  <2>2. CASE ~ (j < i)
    <3>1. i <= Len(keys) /\ i \in DOMAIN keys /\ (j = i \/ i < j)
      BY <1>9, <2>2
    <3>2. i < j => Less(keys[i], keys[j])
      BY <1>1, <1>9, <3>1 DEF InnerOk, Ordered
    <3>3. keys[j] \in Key /\ keys[i] \in Key
      BY <1>9, <3>1
    <3>4. Less(sep, keys[j])
      BY <1>8, <1>11, <3>1, <3>2, <3>3, LessFacts
    <3> QED  BY <2>2, <3>4
  <2> QED  BY <2>1, <2>2
<1>13. span[n] = {k \in Slot(s, keys, i) : Less(k, sep)} /\ span[r] = {k \in Slot(s, keys, i) : ~ Less(k, sep)}
  BY <1>4, <1>5
<1> QED  BY <1>4, <1>8, <1>9, <1>12, <1>13

\* The node halved is a child once.
LEMMA OneParent ==
  ASSUME NEW nodes, NEW span, NEW level, NEW h, Frame(nodes, span, level, h),
         NEW n, NEW r, NEW sep, NEW p, NEW i, HalfChild(nodes, span, level, n, r, sep, p, i),
         NEW q \in DOMAIN nodes, nodes[q] \in InnerNode, NEW j \in DOMAIN nodes[q].children, nodes[q].children[j] = n
  PROVE  q = p /\ j = i
<1> DEFINE joined == Joined(span, n, r)
<1>1. InnerOk(nodes[p], span[p], level[p], level, joined) /\ InnerOk(nodes[q], span[q], level[q], level, joined)
  BY DEF HalfChild, Linked
<1>2. joined[n] = Slot(span[p], nodes[p].keys, i) /\ joined[n] = Slot(span[q], nodes[q].keys, j)
  BY <1>1 DEF InnerOk, HalfChild
<1>3. level[n] = level[p] - 1 /\ level[n] = level[q] - 1
  BY <1>1 DEF InnerOk, HalfChild
<1>4. p \in DOMAIN nodes /\ level[p] \in Int /\ level[q] \in Int
  BY DEF Frame, HalfChild
<1>5. level[p] = level[q]
  BY <1>3, <1>4
<1>6. PICK k \in joined[n] : TRUE
  <2>1. n \in DOMAIN span /\ joined[n] = span[n] \cup span[r] /\ sep \in span[r]
    BY DEF HalfChild, Halves, Joined
  <2> QED  BY <2>1
<1> HIDE DEF joined
<1>7. k \in span[p] /\ k \in span[q] /\ k \in Slot(span[p], nodes[p].keys, i) /\ k \in Slot(span[q], nodes[q].keys, j)
  BY <1>2, <1>6 DEF Slot
<1>8. q = p
  BY <1>4, <1>5, <1>7 DEF Frame
<1>9. span[p] \in SUBSET Key
  BY <1>4 DEF Frame
<1>10. nodes[p].keys \in Seq(Key) /\ nodes[p].children \in Seq(Nat)
  BY NodeKinds DEF HalfChild
<1>11. i \in 1..(Len(nodes[p].keys) + 1) /\ j \in 1..(Len(nodes[p].keys) + 1)
  <2>1. Len(nodes[p].children) = Len(nodes[p].keys) + 1 /\ i \in DOMAIN nodes[p].children /\ j \in DOMAIN nodes[p].children
    BY <1>1, <1>8 DEF InnerOk, HalfChild
  <2>2. DOMAIN nodes[p].children = 1..Len(nodes[p].children) /\ Len(nodes[p].keys) \in Nat
    BY <1>10
  <2> QED  BY <2>1, <2>2
<1>12. Ordered(nodes[p].keys)
  BY <1>1 DEF InnerOk
<1>13. i = j
  BY <1>7, <1>8, <1>9, <1>10, <1>11, <1>12, SlotsDisjoint
<1> QED  BY <1>8, <1>13

\* The node with the separator and the right half where insert_separator puts them.
LEMMA SeparatorIn ==
  ASSUME NEW nodes, NEW span, NEW level, NEW h, Frame(nodes, span, level, h),
         NEW n, NEW r, NEW sep, NEW p, NEW i, HalfChild(nodes, span, level, n, r, sep, p, i),
         NEW ks \in Seq(Key), Widened(ks, nodes[p].keys, i - 1, sep),
         NEW cs \in Seq(Nat), Widened(cs, nodes[p].children, i, r)
  PROVE  InnerOk(Internal(ks, cs), span[p], level[p], level, span)
<1> DEFINE keys == nodes[p].keys  children == nodes[p].children  s == span[p]  L == Len(nodes[p].keys)
           joined == Joined(span, n, r)
<1>1. InnerOk(nodes[p], s, level[p], level, joined)
  BY DEF HalfChild, Linked
<1>2. /\ keys \in Seq(Key) /\ children \in Seq(Nat) /\ L \in Nat /\ DOMAIN keys = 1..L
      /\ Len(children) = L + 1 /\ DOMAIN children = 1..(L + 1) /\ i \in 1..(L + 1)
      /\ children[i] = n
  <2>1. keys \in Seq(Key) /\ children \in Seq(Nat)
    BY NodeKinds DEF HalfChild
  <2>2. Len(children) = L + 1 /\ i \in DOMAIN children /\ children[i] = n
    BY <1>1 DEF InnerOk, HalfChild
  <2>3. L \in Nat /\ DOMAIN keys = 1..L
    BY <2>1
  <2>4. DOMAIN children = 1..Len(children)
    BY <2>1
  <2> HIDE DEF L, keys, children
  <2> QED  BY <2>1, <2>2, <2>3, <2>4
<1>3. /\ Len(ks) = L + 1 /\ ks[i] = sep
      /\ \A j \in 1..(L + 1) : /\ j < i => j \in 1..L /\ ks[j] = keys[j]
                               /\ j > i => j - 1 \in i..L /\ ks[j] = keys[j - 1]
  <2>1. L \in Nat /\ i \in 1..(L + 1)
    BY <1>2
  <2>2. (i - 1) + 1 = i /\ \A j \in 1..(L + 1) : (j < i => j <= i - 1) /\ (j > i => j > (i - 1) + 1)
    <3> HIDE DEF L
    <3> QED  BY <2>1
  <2>3. /\ Len(ks) = L + 1 /\ ks[(i - 1) + 1] = sep
        /\ \A j \in 1..(L + 1) : /\ j <= i - 1 => j \in 1..L /\ ks[j] = keys[j]
                                 /\ j > (i - 1) + 1 => j - 1 \in ((i - 1) + 1)..L /\ ks[j] = keys[j - 1]
    BY DEF Widened
  <2> HIDE DEF L, keys
  <2> QED  BY <2>2, <2>3
<1>4. /\ Len(cs) = L + 2 /\ cs[i + 1] = r
      /\ \A j \in 1..(L + 2) : /\ j <= i => j \in 1..(L + 1) /\ cs[j] = children[j]
                               /\ j > i + 1 => j - 1 \in (i + 1)..(L + 1) /\ cs[j] = children[j - 1]
  <2>1. (L + 1) + 1 = L + 2
    BY <1>2
  <2>2. /\ Len(cs) = Len(children) + 1 /\ cs[i + 1] = r
        /\ \A j \in 1..(Len(children) + 1) :
             /\ j <= i => j \in 1..Len(children) /\ cs[j] = children[j]
             /\ j > i + 1 => j - 1 \in (i + 1)..Len(children) /\ cs[j] = children[j - 1]
    BY DEF Widened
  <2> HIDE DEF L, children
  <2> QED  BY <1>2, <2>1, <2>2
<1>5. /\ span[n] \cup span[r] = Slot(s, keys, i) /\ sep \in s /\ sep \in Key
      /\ span[n] = {k \in Slot(s, keys, i) : Less(k, sep)}
      /\ span[r] = {k \in Slot(s, keys, i) : ~ Less(k, sep)}
      /\ \A j \in DOMAIN keys : IF j < i THEN Less(keys[j], sep) ELSE Less(sep, keys[j])
  BY SeparatorBetween
<1>6. ASSUME NEW j \in 1..(L + 1), j # i
      PROVE  /\ children[j] \in DOMAIN level /\ level[children[j]] = level[p] - 1
             /\ span[children[j]] = Slot(s, keys, j)
  <2>1. /\ children[j] \in DOMAIN level /\ level[children[j]] = level[p] - 1
        /\ joined[children[j]] = Slot(s, keys, j)
    BY <1>1, <1>2 DEF InnerOk
  <2>2. children[j] # n
    <3>1. p \in DOMAIN nodes /\ nodes[p] \in InnerNode /\ j \in DOMAIN nodes[p].children
      BY <1>2, <1>6 DEF HalfChild
    <3> QED  BY <1>6, <3>1, OneParent
  <2>3. children[j] \in DOMAIN span
    BY <2>1 DEF Frame
  <2> QED  BY <2>1, <2>2, <2>3 DEF Joined
<1>7. /\ n \in DOMAIN level /\ r \in DOMAIN level /\ level[n] = level[p] - 1 /\ level[r] = level[p] - 1
  <2>1. n \in DOMAIN level /\ level[n] = level[p] - 1
    BY <1>1, <1>2 DEF InnerOk
  <2>2. r \in DOMAIN level /\ level[r] = level[n]
    BY DEF HalfChild, Halves, Frame
  <2> QED  BY <2>1, <2>2
<1>8. s \subseteq Key /\ \A j \in 1..L : keys[j] \in Key /\ keys[j] \in s
  <2>1. p \in DOMAIN nodes
    BY DEF HalfChild
  <2>2. \A j \in 1..L : keys[j] \in s
    BY <1>1, <1>2 DEF InnerOk
  <2> QED  BY <1>2, <2>1, <2>2 DEF Frame
<1>9. Ordered(keys)
  BY <1>1 DEF InnerOk
<1>10. Len(cs) = Len(ks) + 1 /\ DOMAIN cs = 1..(L + 2) /\ DOMAIN ks = 1..(L + 1)
  BY <1>2, <1>3, <1>4
<1> HIDE DEF keys, children, s, L, joined
<1>11. \A j \in DOMAIN ks : ks[j] \in s
  <2> SUFFICES ASSUME NEW j \in 1..(L + 1) PROVE ks[j] \in s
    BY <1>10
  <2>1. CASE j < i
    BY <1>3, <1>8, <2>1
  <2>2. CASE j = i
    BY <1>3, <1>5, <2>2
  <2>3. CASE j > i
    <3>1. j - 1 \in 1..L
      BY <1>2, <1>3, <2>3
    <3> QED  BY <1>3, <1>8, <2>3, <3>1
  <2> QED  BY <1>2, <2>1, <2>2, <2>3
<1>12. Ordered(ks)
  <2> SUFFICES ASSUME NEW a \in 1..(L + 1), NEW b \in 1..(L + 1), a < b PROVE Less(ks[a], ks[b])
    BY <1>10 DEF Ordered
  <2>1. CASE b < i
    <3>1. a \in 1..L /\ b \in 1..L /\ ks[a] = keys[a] /\ ks[b] = keys[b]
      BY <1>2, <1>3, <2>1
    <3> QED  BY <1>2, <1>9, <3>1 DEF Ordered
  <2>2. CASE b = i
    <3>1. a < i /\ a \in DOMAIN keys /\ ks[a] = keys[a]
      BY <1>2, <1>3, <2>2
    <3> QED  BY <1>3, <1>5, <2>2, <3>1
  <2>3. CASE b > i /\ a < i
    <3>1. a \in DOMAIN keys /\ b - 1 \in DOMAIN keys /\ a < b - 1
      BY <1>2, <1>3, <2>3
    <3>2. Less(keys[a], keys[b - 1])
      BY <1>9, <3>1 DEF Ordered
    <3> QED  BY <1>3, <2>3, <3>2
  <2>4. CASE b > i /\ a = i
    <3>1. b - 1 \in DOMAIN keys /\ ~ (b - 1 < i)
      BY <1>2, <1>3, <2>4
    <3> QED  BY <1>3, <1>5, <2>4, <3>1
  <2>5. CASE b > i /\ a > i
    <3>1. a - 1 \in DOMAIN keys /\ b - 1 \in DOMAIN keys /\ a - 1 < b - 1
      BY <1>2, <1>3, <2>5
    <3>2. Less(keys[a - 1], keys[b - 1])
      BY <1>9, <3>1 DEF Ordered
    <3> QED  BY <1>3, <2>5, <3>2
  <2> QED  BY <1>2, <2>1, <2>2, <2>3, <2>4, <2>5
<1>17. L \in Nat /\ i \in 1..(L + 1) /\ Len(ks) = L + 1
  BY <1>2, <1>3
<1>18. Len(keys) = L
  BY DEF L, keys
<1>13. ASSUME NEW j \in 1..(L + 2)
       PROVE  cs[j] \in DOMAIN level /\ level[cs[j]] = level[p] - 1 /\ span[cs[j]] = Slot(s, ks, j)
  <2>1. CASE j < i
    <3>1. j \in 1..(L + 1) /\ j # i /\ cs[j] = children[j]
      <4>1. j \in 1..(L + 1) /\ j # i /\ j <= i
        BY <1>17, <2>1
      <4>2. cs[j] = children[j]
        BY <1>4, <4>1
      <4> QED  BY <4>1, <4>2
    <3>2. cs[j] \in DOMAIN level /\ level[cs[j]] = level[p] - 1 /\ span[cs[j]] = Slot(s, keys, j)
      BY <1>6, <3>1
    <3>3. j \in 1..L /\ j <= L + 1 /\ j <= L /\ ks[j] = keys[j]
      <4>1. j \in 1..(L + 1) /\ j \in 1..L /\ j <= L
        BY <1>17, <2>1
      <4> QED  BY <1>2, <1>3, <2>1, <4>1
    <3>4. j > 1 => ks[j - 1] = keys[j - 1]
      <4>1. j > 1 => j - 1 \in 1..(L + 1) /\ j - 1 < i
        BY <1>17, <2>1
      <4> QED  BY <1>3, <4>1
    <3>5. Slot(s, ks, j) = Slot(s, keys, j)
      <4>1. j <= Len(keys) /\ j <= Len(ks)
        BY <1>3, <3>3 DEF L, keys
      <4> QED  BY <3>3, <3>4, <4>1 DEF Slot
    <3> QED  BY <3>2, <3>5
  <2>2. CASE j = i
    <3>1. cs[j] = n
      BY <1>2, <1>4, <2>2
    <3>2. j > 1 => ks[j - 1] = keys[j - 1]
      <4>1. j > 1 => j - 1 \in 1..(L + 1) /\ j - 1 < i
        BY <1>17, <2>2
      <4> QED  BY <1>3, <4>1
    <3>3. j <= Len(ks) /\ ks[j] = sep
      BY <1>2, <1>3, <2>2
    <3>4. j <= Len(keys) => j \in DOMAIN keys /\ Less(sep, keys[j]) /\ keys[j] \in Key
      <4>1. j <= Len(keys) => j \in 1..L /\ ~ (j < i)
        BY <1>2, <2>2 DEF L, keys
      <4> QED  BY <1>2, <1>5, <1>8, <4>1
    <3>5. \A k \in s : k \in Slot(s, ks, j) <=> k \in Slot(s, keys, i) /\ Less(k, sep)
      <4> TAKE k \in s
      <4>1. k \in Key
        BY <1>8
      <4>2. j <= Len(keys) /\ Less(k, sep) => Less(k, keys[j])
        BY <1>5, <3>4, <4>1, LessTransitive
      <4> QED  BY <2>2, <3>2, <3>3, <4>2 DEF Slot
    <3>6. Slot(s, ks, j) = span[n]
      <4>1. Slot(s, ks, j) \subseteq s /\ Slot(s, keys, i) \subseteq s
        BY DEF Slot
      <4> QED  BY <1>5, <3>5, <4>1
    <3> QED  BY <1>7, <3>1, <3>6
  <2>3. CASE j = i + 1
    <3>1. cs[j] = r
      BY <1>4, <2>3
    <3>2. j > 1 /\ ks[j - 1] = sep /\ j - 1 = i
      BY <1>2, <1>3, <2>3
    <3>3. i > 1 => i - 1 \in DOMAIN keys /\ Less(keys[i - 1], sep) /\ keys[i - 1] \in Key
      <4>1. i > 1 => i - 1 \in 1..L /\ i - 1 < i
        BY <1>17
      <4> QED  BY <1>2, <1>5, <1>8, <4>1
    <3>4. j <= Len(ks) <=> i <= Len(keys)
      BY <1>17, <1>18, <2>3
    <3>5. j <= Len(ks) => ks[j] = keys[i]
      <4>1. j <= Len(ks) => j \in 1..(L + 1) /\ j > i /\ j - 1 = i
        BY <1>2, <1>3, <2>3
      <4> QED  BY <1>3, <4>1
    <3>6. \A k \in s : k \in Slot(s, ks, j) <=> k \in Slot(s, keys, i) /\ ~ Less(k, sep)
      <4> TAKE k \in s
      <4>1. k \in Key
        BY <1>8
      <4>2. i > 1 /\ ~ Less(k, sep) => ~ Less(k, keys[i - 1])
        BY <1>5, <3>3, <4>1, LessTransitive
      <4> QED  BY <3>2, <3>4, <3>5, <4>2 DEF Slot
    <3>7. Slot(s, ks, j) = span[r]
      <4>1. Slot(s, ks, j) \subseteq s /\ Slot(s, keys, i) \subseteq s
        BY DEF Slot
      <4> QED  BY <1>5, <3>6, <4>1
    <3> QED  BY <1>7, <3>1, <3>7
  <2>4. CASE j > i + 1
    <3>1. j - 1 \in 1..(L + 1) /\ j - 1 # i /\ cs[j] = children[j - 1]
      BY <1>2, <1>4, <2>4
    <3>2. cs[j] \in DOMAIN level /\ level[cs[j]] = level[p] - 1 /\ span[cs[j]] = Slot(s, keys, j - 1)
      BY <1>6, <3>1
    <3>3. j > 1 /\ j - 1 > 1 /\ ks[j - 1] = keys[(j - 1) - 1]
      <4>1. j - 1 \in 1..(L + 1) /\ j - 1 > i
        BY <1>2, <2>4
      <4> QED  BY <1>2, <1>3, <4>1
    <3>4. j <= Len(ks) <=> j - 1 <= Len(keys)
      BY <1>17, <1>18, <2>4
    <3>5. j <= Len(ks) => ks[j] = keys[j - 1]
      <4>1. j <= Len(ks) => j \in 1..(L + 1) /\ j > i
        BY <1>2, <1>3, <2>4
      <4> QED  BY <1>3, <4>1
    <3>6. Slot(s, ks, j) = Slot(s, keys, j - 1)
      BY <3>3, <3>4, <3>5 DEF Slot
    <3> QED  BY <3>2, <3>6
  <2> QED  BY <1>17, <2>1, <2>2, <2>3, <2>4
<1>14. Internal(ks, cs).keys = ks /\ Internal(ks, cs).children = cs
  BY NodesMade
<1>15. \A j \in DOMAIN cs : /\ cs[j] \in DOMAIN level /\ level[cs[j]] = level[p] - 1
                            /\ span[cs[j]] = Slot(s, ks, j)
  BY <1>10, <1>13
<1>16. InnerOk(Internal(ks, cs), s, level[p], level, span)
  BY <1>10, <1>11, <1>12, <1>14, <1>15 DEF InnerOk
<1> QED  BY <1>16 DEF s

----------------------------------------------------------------------------
(* Internal nodes change.                                                  *)

\* The leaves of one tree are those of the other.
SameLeaves(new, nodes, sp, span) ==
  /\ DOMAIN nodes \subseteq DOMAIN new /\ Len(nodes) <= Len(new) /\ Len(nodes) \in Nat /\ Len(new) \in Nat
  /\ \A q \in DOMAIN nodes : nodes[q] \in LeafNode => new[q] = nodes[q] /\ sp[q] = span[q]
  /\ \A q \in DOMAIN new : new[q] \in LeafNode => q \in DOMAIN nodes /\ nodes[q] \in LeafNode

\* What is said of the leaves holds of the same leaves.
LEMMA LeavesKept ==
  ASSUME NEW nodes, NEW span, NEW chain, NEW es,
         Stocked(nodes, span), Chained(nodes, span, chain), Holds(nodes, es),
         NEW new, NEW sp, SameLeaves(new, nodes, sp, span)
  PROVE  Stocked(new, sp) /\ Chained(new, sp, chain) /\ Holds(new, es)
<1>1. /\ DOMAIN nodes \subseteq DOMAIN new /\ Len(nodes) <= Len(new) /\ Len(nodes) \in Nat /\ Len(new) \in Nat
      /\ \A q \in DOMAIN nodes : nodes[q] \in LeafNode => new[q] = nodes[q] /\ sp[q] = span[q]
      /\ \A q \in DOMAIN new : new[q] \in LeafNode => q \in DOMAIN nodes /\ nodes[q] \in LeafNode
  BY DEF SameLeaves
<1>2. Stocked(new, sp)
  <2> SUFFICES ASSUME NEW q \in DOMAIN new, new[q] \in LeafNode PROVE LeafOk(new[q], sp[q])
    BY DEF Stocked
  <2> QED  BY <1>1 DEF Stocked
<1>3. Chained(new, sp, chain)
  <2>1. /\ chain \in Seq(DOMAIN nodes) /\ Len(chain) <= Len(nodes)
        /\ \A i \in DOMAIN chain :
             /\ nodes[chain[i]] \in LeafNode
             /\ nodes[chain[i]].next = IF i = Len(chain) THEN NoNode ELSE chain[i + 1]
        /\ \A m \in DOMAIN nodes : nodes[m] \in LeafNode => \E i \in DOMAIN chain : chain[i] = m
        /\ \A i, j \in DOMAIN chain : i < j => \A a \in span[chain[i]], b \in span[chain[j]] : Less(a, b)
    BY DEF Chained
  <2>2. \A i \in DOMAIN chain : chain[i] \in DOMAIN nodes /\ new[chain[i]] = nodes[chain[i]] /\ sp[chain[i]] = span[chain[i]]
    BY <1>1, <2>1
  <2>3. chain \in Seq(DOMAIN new)
    BY <1>1, <2>1, SeqMonotonic
  <2>4. Len(chain) <= Len(new)
    <3>1. Len(chain) \in Nat
      BY <2>1
    <3> QED  BY <1>1, <2>1, <3>1
  <2>5. \A i \in DOMAIN chain :
             /\ new[chain[i]] \in LeafNode
             /\ new[chain[i]].next = IF i = Len(chain) THEN NoNode ELSE chain[i + 1]
    BY <2>1, <2>2
  <2>6. \A m \in DOMAIN new : new[m] \in LeafNode => \E i \in DOMAIN chain : chain[i] = m
    BY <1>1, <2>1
  <2>7. \A i, j \in DOMAIN chain : i < j => \A a \in sp[chain[i]], b \in sp[chain[j]] : Less(a, b)
    BY <2>1, <2>2
  <2> QED  BY <2>3, <2>4, <2>5, <2>6, <2>7 DEF Chained
<1>4. Holds(new, es)
  <2>1. \A e \in Entry : InLeaf(new, e) <=> InLeaf(nodes, e)
    BY <1>1 DEF InLeaf
  <2> QED  BY <2>1 DEF Holds
<1> QED  BY <1>2, <1>3, <1>4

\* So are their lengths.
LEMMA LeavesRoomy ==
  ASSUME NEW nodes, NEW span, NEW new, NEW sp, SameLeaves(new, nodes, sp, span), Roomy(nodes)
  PROVE  Roomy(new)
BY DEF SameLeaves, Roomy

\* The parent of a split node takes in its right half.
LEMMA SeparatorAbsorbed ==
  ASSUME NEW nodes, NEW span, NEW level, NEW h, NEW chain, NEW es, NEW n, NEW r, NEW sep,
         Sound(nodes, span, level, h, chain, es, Joined(span, n, r)),
         NEW p, NEW i, HalfChild(nodes, span, level, n, r, sep, p, i),
         NEW ks \in Seq(Key), Widened(ks, nodes[p].keys, i - 1, sep),
         NEW cs \in Seq(Nat), Widened(cs, nodes[p].children, i, r),
         NEW new, Changed(new, nodes, p, Internal(ks, cs))
  PROVE  Sound(new, span, level, h, chain, es, span) /\ SameLeaves(new, nodes, span, span)
<1> DEFINE wide == Internal(ks, cs)
<1>1. Frame(nodes, span, level, h) /\ Stocked(nodes, span) /\ Linked(nodes, span, level, Joined(span, n, r))
      /\ Chained(nodes, span, chain) /\ Holds(nodes, es)
  BY DEF Sound
<1>2. wide \in InnerNode
  BY NodesMade
<1>3. p \in DOMAIN nodes /\ nodes[p] \in InnerNode
  BY DEF HalfChild
<1>4. InnerOk(wide, span[p], level[p], level, span)
  BY <1>1, SeparatorIn
<1> HIDE DEF wide
<1>5. Changed(new, nodes, p, wide)
  BY DEF wide
<1>6. /\ new \in Seq(Node) /\ DOMAIN new = DOMAIN nodes /\ Len(new) = Len(nodes)
      /\ new[p] = wide /\ \A m \in DOMAIN nodes \ {p} : new[m] = nodes[m]
  BY <1>5 DEF Changed
<1>7. Frame(new, span, level, h)
  <2>1. wide \in LeafNode <=> nodes[p] \in LeafNode
    BY <1>2, <1>3, NodeKinds
  <2> QED  BY <1>1, <1>3, <1>5, <2>1, ChangedFrame
<1>8. SameLeaves(new, nodes, span, span)
  <2>1. Len(nodes) \in Nat
    BY <1>1 DEF Frame
  <2>2. Len(nodes) <= Len(new) /\ Len(new) \in Nat
    BY <1>6, <2>1
  <2>3. \A q \in DOMAIN nodes : nodes[q] \in LeafNode => new[q] = nodes[q]
    BY <1>3, <1>6, NodeKinds
  <2>4. \A q \in DOMAIN new : new[q] \in LeafNode => q \in DOMAIN nodes /\ nodes[q] \in LeafNode
    BY <1>2, <1>6, NodeKinds
  <2> QED  BY <1>6, <2>1, <2>2, <2>3, <2>4 DEF SameLeaves
<1>9. Linked(new, span, level, span)
  <2> SUFFICES ASSUME NEW q \in DOMAIN new, new[q] \in InnerNode
               PROVE  InnerOk(new[q], span[q], level[q], level, span)
    BY DEF Linked
  <2>1. CASE q = p
    BY <1>4, <1>6, <2>1
  <2>2. CASE q # p
    <3>1. new[q] = nodes[q] /\ q \in DOMAIN nodes /\ nodes[q] \in InnerNode
      BY <1>6, <2>2
    <3>2. InnerOk(nodes[q], span[q], level[q], level, Joined(span, n, r))
      BY <1>1, <3>1 DEF Linked
    <3>3. ASSUME NEW j \in DOMAIN nodes[q].children
          PROVE  /\ nodes[q].children[j] \in DOMAIN level /\ level[nodes[q].children[j]] = level[q] - 1
                 /\ span[nodes[q].children[j]] = Slot(span[q], nodes[q].keys, j)
      <4>1. /\ nodes[q].children[j] \in DOMAIN level /\ level[nodes[q].children[j]] = level[q] - 1
            /\ Joined(span, n, r)[nodes[q].children[j]] = Slot(span[q], nodes[q].keys, j)
        BY <3>2 DEF InnerOk
      <4>2. nodes[q].children[j] # n
        BY <1>1, <2>2, <3>1, OneParent
      <4>3. nodes[q].children[j] \in DOMAIN span
        BY <1>1, <4>1 DEF Frame
      <4> QED  BY <4>1, <4>2, <4>3 DEF Joined
    <3> QED  BY <3>1, <3>2, <3>3 DEF InnerOk
  <2> QED  BY <2>1, <2>2
<1>10. Stocked(new, span) /\ Chained(new, span, chain) /\ Holds(new, es)
  BY <1>1, <1>8, LeavesKept
<1> QED  BY <1>7, <1>8, <1>9, <1>10 DEF Sound

----------------------------------------------------------------------------
(* An internal node is split.                                              *)

\* The first elements of a sequence.
LEMMA PrefixFacts ==
  ASSUME NEW T, NEW s \in Seq(T), NEW n \in Nat, n <= Len(s), NEW part, part = SubSeq(s, 1, n)
  PROVE  part \in Seq(T) /\ Len(part) = n /\ \A i \in 1..n : part[i] = s[i]
<1>1. Len(s) \in Nat
  OBVIOUS
<1>2. /\ SubSeq(s, 1, n) \in Seq(T) /\ Len(SubSeq(s, 1, n)) = n - 1 + 1
      /\ \A i \in 1..(n - 1 + 1) : SubSeq(s, 1, n)[i] = s[1 + i - 1]
  <2>1. 1 \in 1..(Len(s) + 1) /\ n \in (1 - 1)..Len(s)
    BY <1>1
  <2> QED  BY <2>1, PartFacts
<1>3. n - 1 + 1 = n /\ \A i \in 1..n : 1 + i - 1 = i
  OBVIOUS
<1> QED  BY <1>2, <1>3

\* Those that follow the first m.
LEMMA SuffixFacts ==
  ASSUME NEW T, NEW s \in Seq(T), NEW m \in Nat, m <= Len(s), NEW part, part = SubSeq(s, m + 1, Len(s))
  PROVE  part \in Seq(T) /\ Len(part) = Len(s) - m /\ \A i \in 1..(Len(s) - m) : part[i] = s[m + i]
<1>1. Len(s) \in Nat
  OBVIOUS
<1>2. /\ part \in Seq(T) /\ Len(part) = Len(s) - (m + 1) + 1
      /\ \A i \in 1..(Len(s) - (m + 1) + 1) : part[i] = s[(m + 1) + i - 1]
  <2>1. m + 1 \in 1..(Len(s) + 1) /\ Len(s) \in ((m + 1) - 1)..Len(s)
    BY <1>1
  <2> QED  BY <2>1, PartFacts
<1>3. Len(s) - (m + 1) + 1 = Len(s) - m
  BY <1>1
<1>4. part \in Seq(T) /\ Len(part) = Len(s) - m
  BY <1>2, <1>3, Zenon
<1>5. ASSUME NEW i \in 1..(Len(s) - m) PROVE part[i] = s[m + i]
  <2>1. i \in 1..(Len(s) - (m + 1) + 1)
    BY <1>3
  <2>2. part[i] = s[(m + 1) + i - 1]
    BY <1>2, <2>1
  <2>3. (m + 1) + i - 1 = m + i
    BY <1>1
  <2> QED  BY <2>2, <2>3
<1> QED  BY <1>4, <1>5

\* The separators on both sides of the one that moves up.
KeyParts(K, L, mid, sep, ka, kb) ==
  /\ sep \in Key /\ sep = K[mid + 1] /\ L = Len(K)
  /\ ka \in Seq(Key) /\ Len(ka) = mid /\ DOMAIN ka = 1..mid /\ Ordered(ka)
  /\ \A i \in 1..mid : ka[i] = K[i] /\ K[i] \in Key /\ Less(K[i], sep)
  /\ kb \in Seq(Key) /\ Len(kb) = L - mid - 1 /\ DOMAIN kb = 1..(L - mid - 1) /\ Ordered(kb)
  /\ \A i \in 1..(L - mid - 1) : kb[i] = K[mid + 1 + i] /\ K[mid + 1 + i] \in Key /\ Less(sep, K[mid + 1 + i])

LEMMA KeysParted ==
  ASSUME NEW K \in Seq(Key), Ordered(K), NEW L \in Nat, L = Len(K), NEW mid \in Nat, mid >= 1, mid + 2 <= L,
         NEW up, up = mid + 1,
         NEW ka, ka = SubSeq(K, 1, mid), NEW kb, kb = SubSeq(K, up + 1, L)
  PROVE  KeyParts(K, L, mid, K[up], ka, kb)
<1>1. DOMAIN K = 1..L /\ \A i \in 1..L : K[i] \in Key
  OBVIOUS
<1>2. up \in Nat /\ up <= L /\ up \in 1..L /\ mid <= L
  OBVIOUS
<1>3. \A i, j \in 1..L : i < j => Less(K[i], K[j])
  BY <1>1 DEF Ordered
<1>4. ka \in Seq(Key) /\ Len(ka) = mid /\ \A i \in 1..mid : ka[i] = K[i]
  BY <1>2, PrefixFacts
<1>5. kb \in Seq(Key) /\ Len(kb) = L - up /\ \A i \in 1..(L - up) : kb[i] = K[up + i]
  BY <1>2, SuffixFacts
<1>6. L - up = L - mid - 1 /\ \A i \in 1..(L - mid - 1) : up + i = mid + 1 + i /\ up + i \in 1..L /\ up < up + i
  OBVIOUS
<1>7. \A i \in 1..mid : i \in 1..L /\ i < up
  OBVIOUS
<1>8. DOMAIN ka = 1..mid /\ DOMAIN kb = 1..(L - mid - 1)
  BY <1>4, <1>5, <1>6
<1>9. \A i \in 1..mid : ka[i] = K[i] /\ K[i] \in Key /\ Less(K[i], K[up])
  BY <1>1, <1>2, <1>3, <1>4, <1>7
<1>10. \A i \in 1..(L - mid - 1) : kb[i] = K[mid + 1 + i] /\ K[mid + 1 + i] \in Key /\ Less(K[up], K[mid + 1 + i])
  <2> TAKE i \in 1..(L - mid - 1)
  <2>1. up + i = mid + 1 + i /\ up + i \in 1..L /\ up < up + i
    BY <1>6
  <2>2. kb[i] = K[up + i]
    BY <1>5, <1>6
  <2>3. Less(K[up], K[up + i])
    BY <1>2, <1>3, <2>1
  <2> QED  BY <1>1, <2>1, <2>2, <2>3
<1>11. Ordered(ka)
  BY <1>3, <1>4, <1>7, <1>8 DEF Ordered
<1>12. Ordered(kb)
  <2> SUFFICES ASSUME NEW i \in 1..(L - mid - 1), NEW j \in 1..(L - mid - 1), i < j PROVE Less(kb[i], kb[j])
    BY <1>8 DEF Ordered
  <2>1. up + i \in 1..L /\ up + j \in 1..L /\ up + i < up + j
    BY <1>6
  <2>2. Less(K[up + i], K[up + j])
    BY <1>3, <2>1
  <2> QED  BY <1>5, <1>6, <2>2
<1> QED  BY <1>1, <1>2, <1>4, <1>5, <1>6, <1>8, <1>9, <1>10, <1>11, <1>12 DEF KeyParts

Low(s, sep) == {k \in s : Less(k, sep)}
High(s, sep) == {k \in s : ~ Less(k, sep)}

SlotsOfHalves(K, L, mid, sep, ka, kb, s) ==
  /\ \A i \in 1..(mid + 1) : Slot(Low(s, sep), ka, i) = Slot(s, K, i)
  /\ \A i \in 1..(L - mid) : Slot(High(s, sep), kb, i) = Slot(s, K, mid + 1 + i)

\* The slots of the halves are those of the node.
LEMMA SlotsParted ==
  ASSUME NEW K \in Seq(Key), NEW L \in Nat, L = Len(K), NEW mid \in Nat, mid >= 1, mid + 2 <= L,
         NEW sep, NEW ka, NEW kb, KeyParts(K, L, mid, sep, ka, kb), NEW s \in SUBSET Key
  PROVE  SlotsOfHalves(K, L, mid, sep, ka, kb, s)
<1> DEFINE low == Low(s, sep)  high == High(s, sep)  up == mid + 1
<1>0. sep = K[up] /\ low = {k \in s : Less(k, sep)} /\ high = {k \in s : ~ Less(k, sep)} /\ up = mid + 1 /\ up \in Nat
  BY DEF KeyParts, Low, High
<1> HIDE DEF low, high, up
<1>1. /\ sep \in Key /\ Len(ka) = mid /\ Len(kb) = L - mid - 1
      /\ \A i \in 1..mid : ka[i] = K[i] /\ K[i] \in Key /\ Less(K[i], sep)
  BY DEF KeyParts
<1>2. \A i \in 1..(L - mid - 1) : kb[i] = K[up + i] /\ K[up + i] \in Key /\ Less(sep, K[up + i])
  BY <1>0 DEF KeyParts
<1>3. ASSUME NEW i \in 1..up PROVE Slot(low, ka, i) = Slot(s, K, i)
  <2>1. i > 1 => ka[i - 1] = K[i - 1]
    <3>1. i > 1 => i - 1 \in 1..mid
      BY <1>0
    <3> QED  BY <1>1, <3>1
  <2>2. CASE i <= mid
    <3>1. i \in 1..mid /\ i <= Len(ka) /\ i <= Len(K)
      BY <1>0, <1>1, <2>2
    <3>2. ka[i] = K[i] /\ \A k \in Key : Less(k, K[i]) => Less(k, sep)
      BY <1>1, <3>1, LessTransitive
    <3>3. \A k \in s : k \in Slot(low, ka, i) <=> k \in Slot(s, K, i)
      BY <1>0, <2>1, <3>1, <3>2 DEF Slot
    <3>4. Slot(low, ka, i) \subseteq s /\ Slot(s, K, i) \subseteq s
      BY <1>0 DEF Slot
    <3> QED  BY <3>3, <3>4
  <2>3. CASE ~ (i <= mid)
    <3>1. i = up /\ ~ (i <= Len(ka)) /\ i <= Len(K)
      BY <1>0, <1>1, <2>3
    <3>3. \A k \in s : k \in Slot(low, ka, i) <=> k \in Slot(s, K, i)
      BY <1>0, <2>1, <3>1 DEF Slot
    <3>4. Slot(low, ka, i) \subseteq s /\ Slot(s, K, i) \subseteq s
      BY <1>0 DEF Slot
    <3> QED  BY <3>3, <3>4
  <2> QED  BY <2>2, <2>3
<1>4. ASSUME NEW i \in 1..(L - mid), NEW j, j = up + i PROVE Slot(high, kb, i) = Slot(s, K, j)
  <2>1. j > 1 /\ j - 1 = mid + i
    BY <1>0, <1>4
  <2>2. i <= Len(kb) <=> j <= Len(K)
    BY <1>0, <1>1, <1>4
  <2>3. i <= Len(kb) => kb[i] = K[j]
    <3>1. i <= Len(kb) => i \in 1..(L - mid - 1)
      BY <1>1
    <3> QED  BY <1>2, <1>4, <3>1
  <2>4. Slot(high, kb, i) \subseteq s /\ Slot(s, K, j) \subseteq s
    BY <1>0 DEF Slot
  <2>5. CASE i = 1
    <3>1. j - 1 = up /\ ~ (i > 1)
      BY <1>0, <1>4, <2>5
    <3>2. \A k \in s : k \in Slot(high, kb, i) <=> k \in Slot(s, K, j)
      BY <1>0, <2>1, <2>2, <2>3, <3>1 DEF Slot
    <3> QED  BY <2>4, <3>2
  <2>6. CASE i # 1
    <3>1. i > 1 /\ i - 1 \in 1..(L - mid - 1) /\ up + (i - 1) = j - 1
      BY <1>0, <1>4, <2>6
    <3>2. kb[i - 1] = K[j - 1] /\ K[j - 1] \in Key /\ Less(sep, K[j - 1])
      BY <1>2, <3>1
    <3>3. \A k \in Key : ~ Less(k, K[j - 1]) => ~ Less(k, sep)
      BY <1>1, <3>2, LessTransitive
    <3>4. \A k \in s : k \in Slot(high, kb, i) <=> k \in Slot(s, K, j)
      BY <1>0, <2>1, <2>2, <2>3, <3>1, <3>2, <3>3 DEF Slot
    <3> QED  BY <2>4, <3>4
  <2> QED  BY <2>5, <2>6
<1>5. \A i \in 1..(L - mid) : Slot(high, kb, i) = Slot(s, K, up + i)
  BY <1>4
<1> QED  BY <1>3, <1>5 DEF low, high, up, SlotsOfHalves

\* A node's separators and children, but for the one separator, are shared out.
Halved(node, L, mid, sep, left, right) ==
  /\ node \in InnerNode /\ left \in InnerNode /\ right \in InnerNode
  /\ L \in Nat /\ mid \in Nat /\ mid >= 1 /\ mid + 2 <= L
  /\ Len(node.keys) = L /\ sep = node.keys[mid + 1] /\ KeyParts(node.keys, L, mid, sep, left.keys, right.keys)
  /\ Len(left.children) = mid + 1
  /\ \A i \in 1..(mid + 1) : left.children[i] = node.children[i]
  /\ Len(right.children) = L - mid
  /\ \A i \in 1..(L - mid) : right.children[i] = node.children[mid + 1 + i]

\* The halves of an inner node are linked to its children.
LEMMA HalvesLinked ==
  ASSUME NEW node, NEW s \in SUBSET Key, NEW l, NEW level, NEW span, InnerOk(node, s, l, level, span),
         NEW L, NEW mid, NEW sep, NEW left, NEW right, Halved(node, L, mid, sep, left, right),
         NEW lv, NEW joined, DOMAIN level \subseteq DOMAIN lv,
         \A q \in DOMAIN level : joined[q] = span[q] /\ lv[q] = level[q]
  PROVE  InnerOk(left, Low(s, sep), l, lv, joined) /\ InnerOk(right, High(s, sep), l, lv, joined)
<1> DEFINE low == Low(s, sep)  high == High(s, sep)
            K == node.keys  C == node.children  A == left.children  B == right.children  up == mid + 1
<1>1. /\ L \in Nat /\ mid \in Nat /\ mid >= 1 /\ mid + 2 <= L
      /\ Len(K) = L /\ sep = K[up] /\ KeyParts(K, L, mid, sep, left.keys, right.keys)
      /\ Len(A) = up /\ \A i \in 1..up : A[i] = C[i]
      /\ Len(B) = L - mid /\ \A i \in 1..(L - mid) : B[i] = C[up + i]
  BY DEF Halved
<1>2. K \in Seq(Key) /\ C \in Seq(Nat) /\ A \in Seq(Nat) /\ B \in Seq(Nat)
  BY NodeKinds DEF Halved
<1>3. /\ Len(C) = Len(K) + 1 /\ \A i \in DOMAIN K : K[i] \in s
      /\ \A i \in DOMAIN C : /\ C[i] \in DOMAIN level /\ level[C[i]] = l - 1
                             /\ span[C[i]] = Slot(s, K, i)
  BY DEF InnerOk
<1>4. up = mid + 1 /\ up \in Nat /\ low = {k \in s : Less(k, sep)} /\ high = {k \in s : ~ Less(k, sep)}
  BY <1>1 DEF Low, High
<1>5. /\ sep \in Key
      /\ Len(left.keys) = mid /\ DOMAIN left.keys = 1..mid /\ Ordered(left.keys)
      /\ \A i \in 1..mid : left.keys[i] = K[i] /\ K[i] \in Key /\ Less(K[i], sep)
      /\ Len(right.keys) = L - mid - 1 /\ DOMAIN right.keys = 1..(L - mid - 1) /\ Ordered(right.keys)
      /\ \A i \in 1..(L - mid - 1) :
           right.keys[i] = K[mid + 1 + i] /\ K[mid + 1 + i] \in Key /\ Less(sep, K[mid + 1 + i])
  BY <1>1 DEF KeyParts
<1>8. /\ \A i \in 1..up : Slot(low, left.keys, i) = Slot(s, K, i)
      /\ \A i \in 1..(L - mid) : Slot(high, right.keys, i) = Slot(s, K, up + i)
  <2> HIDE DEF K, C, A, B
  <2>1. SlotsOfHalves(K, L, mid, sep, left.keys, right.keys, s)
    BY <1>1, <1>2, SlotsParted
  <2> QED  BY <2>1 DEF SlotsOfHalves
<1> HIDE DEF K, C, A, B, up, low, high
<1>6. DOMAIN K = 1..L /\ DOMAIN C = 1..(L + 1) /\ DOMAIN A = 1..up /\ DOMAIN B = 1..(L - mid)
  <2>1. DOMAIN K = 1..Len(K) /\ DOMAIN C = 1..Len(C)
    BY <1>2
  <2>2. DOMAIN A = 1..Len(A) /\ DOMAIN B = 1..Len(B)
    BY <1>2
  <2> QED  BY <1>1, <1>3, <2>1, <2>2
<1>7. \A i \in 1..(L + 1) : C[i] \in DOMAIN lv /\ lv[C[i]] = l - 1 /\ joined[C[i]] = Slot(s, K, i)
  BY <1>3, <1>6
<1>9. InnerOk(left, low, l, lv, joined)
  <2>1. Len(A) = Len(left.keys) + 1
    BY <1>1, <1>4, <1>5
  <2>2. \A i \in 1..mid : i \in 1..L
    BY <1>1
  <2>3. \A i \in DOMAIN left.keys : left.keys[i] \in low
    BY <1>3, <1>4, <1>5, <1>6, <2>2
  <2>4. \A i \in 1..up : i \in 1..(L + 1)
    BY <1>1, <1>4
  <2>5. ASSUME NEW i \in 1..up PROVE A[i] \in DOMAIN lv /\ lv[A[i]] = l - 1 /\ joined[A[i]] = Slot(low, left.keys, i)
    BY <1>1, <1>7, <1>8, <2>4
  <2> QED  BY <1>5, <1>6, <2>1, <2>3, <2>5 DEF InnerOk, A
<1>10. InnerOk(right, high, l, lv, joined)
  <2>1. Len(B) = Len(right.keys) + 1
    BY <1>1, <1>5
  <2>2. \A i \in 1..(L - mid - 1) : mid + 1 + i \in 1..L
    BY <1>1
  <2>3. ASSUME NEW i \in 1..(L - mid - 1) PROVE right.keys[i] \in high
    <3>1. /\ right.keys[i] = K[mid + 1 + i] /\ K[mid + 1 + i] \in Key /\ Less(sep, K[mid + 1 + i])
          /\ K[mid + 1 + i] \in s
      BY <1>3, <1>5, <1>6, <2>2
    <3> QED  BY <1>4, <1>5, <3>1, LessFacts
  <2>4. \A i \in 1..(L - mid) : up + i \in 1..(L + 1)
    BY <1>1, <1>4
  <2>5. ASSUME NEW i \in 1..(L - mid)
        PROVE  B[i] \in DOMAIN lv /\ lv[B[i]] = l - 1 /\ joined[B[i]] = Slot(high, right.keys, i)
    <3>1. B[i] = C[up + i] /\ up + i \in 1..(L + 1) /\ Slot(high, right.keys, i) = Slot(s, K, up + i)
      BY <1>1, <1>8, <2>4
    <3> QED  BY <1>7, <3>1
  <2> QED  BY <1>5, <1>6, <2>1, <2>3, <2>5 DEF InnerOk, B
<1> QED  BY <1>9, <1>10 DEF low, high

\* An internal node is split at one of its separators, which neither half keeps.
LEMMA InnerSplit ==
  ASSUME NEW nodes, NEW span, NEW level, NEW h, NEW chain, NEW es,
         Sound(nodes, span, level, h, chain, es, span),
         NEW p \in DOMAIN nodes,
         NEW L, NEW mid, NEW sep, NEW left, NEW right, Halved(nodes[p], L, mid, sep, left, right),
         NEW r, r = Len(nodes) + 1, NEW new, new = SplitNodes(nodes, p, left, right)
  PROVE  /\ SplitOff(new, nodes, span, level, h, es, p, r, sep)
         /\ \E sp : SameLeaves(new, nodes, sp, span)
         /\ Placed(new, nodes, p, left, right, r)
<1> DEFINE sp == SplitSpan(span, p, r, sep)
           lv == SplitLevel(level, p, r)
           joined == Joined(sp, p, r)
<1>1. Frame(nodes, span, level, h) /\ Stocked(nodes, span) /\ Linked(nodes, span, level, span)
      /\ Chained(nodes, span, chain) /\ Holds(nodes, es)
  BY DEF Sound
<1>2. nodes \in Seq(Node) /\ span \in [DOMAIN nodes -> SUBSET Key] /\ level \in [DOMAIN nodes -> 0..(h - 1)]
  BY <1>1 DEF Frame
<1>3. nodes[p] \in InnerNode /\ left \in InnerNode /\ right \in InnerNode
  BY DEF Halved
<1>4. Len(nodes) \in Nat /\ p \in 1..Len(nodes) /\ left \in Node /\ right \in Node
  BY <1>2, <1>3 DEF Node
<1>5. InnerOk(nodes[p], span[p], level[p], level, span)
  BY <1>1, <1>3 DEF Linked
<1>6. \E low \in span[p] : sep \in span[p] /\ Less(low, sep)
  <2> DEFINE K == nodes[p].keys
  <2>1. K \in Seq(Key) /\ \A i \in DOMAIN K : K[i] \in span[p]
    BY <1>3, <1>5, NodeKinds DEF InnerOk
  <2>2. /\ L \in Nat /\ mid \in Nat /\ mid >= 1 /\ mid + 2 <= L /\ Len(K) = L /\ sep = K[mid + 1]
        /\ \A i \in 1..mid : Less(K[i], sep)
    BY DEF Halved, KeyParts
  <2> HIDE DEF K
  <2>3. DOMAIN K = 1..L /\ mid \in 1..mid /\ mid \in 1..L /\ mid + 1 \in 1..L
    BY <2>1, <2>2
  <2> QED  BY <2>1, <2>2, <2>3
<1>7. Placed(new, nodes, p, left, right, r)
  BY <1>2, <1>4, SplitNodesFacts
<1>8. /\ Frame(new, sp, lv, h)
      /\ Halves(sp, lv, p, r, sep)
      /\ \A q \in DOMAIN nodes : joined[q] = span[q] /\ lv[q] = level[q]
  <2>1. (left \in LeafNode <=> nodes[p] \in LeafNode) /\ (right \in LeafNode <=> nodes[p] \in LeafNode)
    BY <1>3, NodeKinds
  <2>2. PICK low \in span[p] : sep \in span[p] /\ Less(low, sep)
    BY <1>6
  <2> QED  BY <1>1, <1>4, <2>1, <2>2, SplitFrame
<1>9. /\ DOMAIN new = DOMAIN nodes \cup {r} /\ r \notin DOMAIN nodes /\ Len(new) = r
      /\ new[p] = left /\ new[r] = right /\ \A q \in DOMAIN nodes \ {p} : new[q] = nodes[q]
  BY <1>7 DEF Placed
<1>10. /\ sp[p] = Low(span[p], sep) /\ sp[r] = High(span[p], sep)
       /\ \A q \in DOMAIN nodes \ {p} : sp[q] = span[q]
  BY <1>2, <1>9 DEF SplitSpan, Low, High
<1>11. /\ DOMAIN level = DOMAIN nodes /\ DOMAIN level \subseteq DOMAIN lv
       /\ lv[p] = level[p] /\ lv[r] = level[p]
  BY <1>2, <1>9 DEF SplitLevel
<1> HIDE DEF sp, lv, joined
<1>12. InnerOk(left, sp[p], level[p], lv, joined) /\ InnerOk(right, sp[r], level[p], lv, joined)
  <2>1. span[p] \in SUBSET Key /\ \A q \in DOMAIN level : joined[q] = span[q] /\ lv[q] = level[q]
    BY <1>2, <1>8, <1>11
  <2> QED  BY <1>5, <1>10, <1>11, <2>1, HalvesLinked
<1>13. Linked(new, sp, lv, joined)
  <2> SUFFICES ASSUME NEW q \in DOMAIN new, new[q] \in InnerNode
               PROVE  InnerOk(new[q], sp[q], lv[q], lv, joined)
    BY DEF Linked
  <2>1. CASE q = p
    BY <1>9, <1>11, <1>12, <2>1
  <2>2. CASE q = r
    BY <1>9, <1>11, <1>12, <2>2
  <2>3. CASE q # p /\ q # r
    <3>1. q \in DOMAIN nodes /\ new[q] = nodes[q] /\ sp[q] = span[q] /\ nodes[q] \in InnerNode
      BY <1>9, <1>10, <2>3
    <3>2. InnerOk(nodes[q], sp[q], lv[q], lv, joined)
      BY <1>1, <1>8, <1>11, <2>3, <3>1, SplitLinked
    <3> QED  BY <3>1, <3>2
  <2> QED  BY <2>1, <2>2, <2>3
<1>14. SameLeaves(new, nodes, sp, span)
  <2>1. Len(nodes) <= Len(new) /\ Len(new) \in Nat
    BY <1>4, <1>9
  <2>2. \A q \in DOMAIN nodes : nodes[q] \in LeafNode => new[q] = nodes[q] /\ sp[q] = span[q]
    BY <1>3, <1>9, <1>10, NodeKinds
  <2>3. \A q \in DOMAIN new : new[q] \in LeafNode => q \in DOMAIN nodes /\ nodes[q] \in LeafNode
    BY <1>3, <1>9, NodeKinds
  <2> QED  BY <1>4, <1>9, <2>1, <2>2, <2>3 DEF SameLeaves
<1>15. Stocked(new, sp) /\ Chained(new, sp, chain) /\ Holds(new, es)
  BY <1>1, <1>14, LeavesKept
<1>16. Sound(new, sp, lv, h, chain, es, joined)
  BY <1>8, <1>13, <1>15 DEF Sound
<1>17. SplitOff(new, nodes, span, level, h, es, p, r, sep)
  BY <1>8, <1>16 DEF SplitOff, joined
<1> QED  BY <1>7, <1>14, <1>17

\* The children on both sides.
ChildParts(C, up, ca, cb) ==
  /\ ca \in Seq(Nat) /\ Len(ca) = up /\ \A i \in 1..up : ca[i] = C[i]
  /\ cb \in Seq(Nat) /\ Len(cb) = Len(C) - up /\ \A i \in 1..(Len(C) - up) : cb[i] = C[up + i]

LEMMA ChildrenParted ==
  \A C \in Seq(Nat), up \in Nat : up <= Len(C) => ChildParts(C, up, SubSeq(C, 1, up), SubSeq(C, up + 1, Len(C)))
<1> SUFFICES ASSUME NEW C \in Seq(Nat), NEW up \in Nat, up <= Len(C)
             PROVE  ChildParts(C, up, SubSeq(C, 1, up), SubSeq(C, up + 1, Len(C)))
  OBVIOUS
<1>1. \A ca : ca = SubSeq(C, 1, up) => ca \in Seq(Nat) /\ Len(ca) = up /\ \A i \in 1..up : ca[i] = C[i]
  BY PrefixFacts
<1>2. \A cb : cb = SubSeq(C, up + 1, Len(C)) =>
        cb \in Seq(Nat) /\ Len(cb) = Len(C) - up /\ \A i \in 1..(Len(C) - up) : cb[i] = C[up + i]
  BY SuffixFacts
<1> QED  BY <1>1, <1>2, Zenon DEF ChildParts

\* How insert_separator shares out a node that got too wide.
LEMMA HalvedIs ==
  ASSUME NEW K \in Seq(Key), Ordered(K), NEW C \in Seq(Nat), NEW L \in Nat, Len(K) = L, Len(C) = L + 1,
         NEW mid \in Nat, mid >= 1, mid + 2 <= L,
         NEW ka, ka = SubSeq(K, 1, mid), NEW kb, kb = SubSeq(K, mid + 2, L),
         NEW ca, ca = SubSeq(C, 1, mid + 1), NEW cb, cb = SubSeq(C, mid + 2, L + 1)
  PROVE  Halved(Internal(K, C), L, mid, K[mid + 1], Internal(ka, ca), Internal(kb, cb))
<1>1. PICK up \in Nat : up = mid + 1
  OBVIOUS
<1>2. up + 1 = mid + 2 /\ up <= Len(C) /\ L - mid = Len(C) - up
  BY <1>1
<1>3. KeyParts(K, L, mid, K[up], ka, kb)
  <2>1. kb = SubSeq(K, up + 1, L)
    BY <1>2
  <2> QED  BY <1>1, <2>1, KeysParted
<1>4. ChildParts(C, up, ca, cb)
  <2>1. ca = SubSeq(C, 1, up) /\ cb = SubSeq(C, up + 1, Len(C))
    BY <1>1, <1>2
  <2>2. ChildParts(C, up, SubSeq(C, 1, up), SubSeq(C, up + 1, Len(C)))
    BY <1>2, ChildrenParted, Zenon
  <2> QED  BY <2>1, <2>2, Zenon
<1>5. \A ks \in Seq(Key), cs \in Seq(Nat) :
        Internal(ks, cs) \in InnerNode /\ Internal(ks, cs).keys = ks /\ Internal(ks, cs).children = cs
  BY NodesMade
<1>6. ka \in Seq(Key) /\ kb \in Seq(Key) /\ ca \in Seq(Nat) /\ cb \in Seq(Nat)
  BY <1>3, <1>4, Zenon DEF KeyParts, ChildParts
<1>7. Internal(ka, ca) \in InnerNode /\ Internal(ka, ca).keys = ka /\ Internal(ka, ca).children = ca
  BY <1>5, <1>6, Zenon
<1>8. Internal(kb, cb) \in InnerNode /\ Internal(kb, cb).keys = kb /\ Internal(kb, cb).children = cb
  BY <1>5, <1>6, Zenon
<1>9. Internal(K, C) \in InnerNode /\ Internal(K, C).keys = K /\ Internal(K, C).children = C
  BY <1>5, Zenon
<1>10. /\ Len(ca) = mid + 1 /\ \A i \in 1..(mid + 1) : ca[i] = C[i]
       /\ Len(cb) = L - mid /\ \A i \in 1..(L - mid) : cb[i] = C[mid + 1 + i]
  <2>1. up = mid + 1 /\ Len(C) - up = L - mid
    BY <1>1, <1>2
  <2> QED  BY <1>4, <2>1, Zenon DEF ChildParts
<1>11. KeyParts(K, L, mid, K[mid + 1], ka, kb)
  BY <1>1, <1>3
<1> QED  BY <1>7, <1>8, <1>9, <1>10, <1>11, Zenon DEF Halved

\* The two ways insert_separator ends.
SeparatorWhole(res, nodes, p, ks, cs) ==
  res.nodes = [nodes EXCEPT ![p] = Internal(ks, cs)] /\ ~ res.split.is
SeparatorCut(res, nodes, p, ks, cs, mid) ==
  /\ res.nodes = SplitNodes(nodes, p, Internal(SubSeq(ks, 1, mid), SubSeq(cs, 1, mid + 1)),
                                      Internal(SubSeq(ks, mid + 2, Len(ks)), SubSeq(cs, mid + 2, Len(cs))))
  /\ res.split.is /\ res.split.sep = ks[mid + 1] /\ res.split.right = Len(nodes) + 1

LEMMA InsertSeparatorCases ==
  ASSUME NEW nodes, NEW span, NEW level, NEW h, Frame(nodes, span, level, h),
         NEW n, NEW r, NEW sep, NEW p, NEW i, HalfChild(nodes, span, level, n, r, sep, p, i),
         NEW res, res = InsertSeparator(nodes, p, sep, r)
  PROVE  \E ks \in Seq(Key), cs \in Seq(Nat) :
           /\ Widened(ks, nodes[p].keys, i - 1, sep) /\ Widened(cs, nodes[p].children, i, r)
           /\ \/ SeparatorWhole(res, nodes, p, ks, cs) /\ Len(ks) <= InternalMax
              \/ SeparatorCut(res, nodes, p, ks, cs, Len(ks) \div 2) /\ Len(ks) > InternalMax
<1> DEFINE keys == nodes[p].keys  children == nodes[p].children
           S == {j \in DOMAIN keys : Less(keys[j], sep)}  pos == Cardinality(S)
           ks == InsertAt(keys, pos + 1, sep)  cs == InsertAt(children, pos + 2, r)
           mid == Len(ks) \div 2
<1>1. res = IF Len(ks) <= InternalMax
            THEN [nodes |-> [nodes EXCEPT ![p] = Internal(ks, cs)], split |-> NoSplit]
            ELSE [nodes |-> Append([nodes EXCEPT ![p] = Internal(SubSeq(ks, 1, mid), SubSeq(cs, 1, mid + 1))],
                                   Internal(SubSeq(ks, mid + 2, Len(ks)), SubSeq(cs, mid + 2, Len(cs)))),
                  split |-> Split(ks[mid + 1], Len(nodes) + 1)]
  BY DEF InsertSeparator
<1>2. nodes[p] \in InnerNode /\ keys \in Seq(Key) /\ children \in Seq(Nat)
  BY NodeKinds DEF HalfChild
<1>3. Len(children) = Len(keys) + 1 /\ i \in DOMAIN children
  BY DEF HalfChild, Linked, InnerOk
<1>4. sep \in Key /\ \A j \in DOMAIN keys : IF j < i THEN Less(keys[j], sep) ELSE Less(sep, keys[j])
  BY SeparatorBetween
<1>5. r \in Nat
  <2>1. r \in DOMAIN nodes /\ nodes \in Seq(Node)
    BY DEF HalfChild, Halves, Frame
  <2> QED  BY <2>1
<1> HIDE DEF keys, children
<1>6. DOMAIN keys = 1..Len(keys) /\ Len(keys) \in Nat /\ DOMAIN children = 1..Len(children)
  BY <1>2
<1>7. i \in 1..(Len(keys) + 1)
  BY <1>3, <1>6
<1>8. \A j \in 1..Len(keys) : j \in S <=> j < i
  <2> TAKE j \in 1..Len(keys)
  <2>1. keys[j] \in Key
    BY <1>2
  <2> QED  BY <1>4, <1>6, <2>1, LessFacts
<1>9. pos = i - 1
  <2>1. S = 1..(i - 1)
    <3>1. \A j \in 1..(i - 1) : j \in 1..Len(keys) /\ j < i
      BY <1>6, <1>7
    <3>2. \A j \in 1..Len(keys) : j < i => j \in 1..(i - 1)
      BY <1>6, <1>7
    <3>3. S \subseteq 1..Len(keys)
      BY <1>6
    <3> HIDE DEF S
    <3> QED  BY <1>8, <3>1, <3>2, <3>3
  <2>2. Cardinality(1..(i - 1)) = IF 1 > i - 1 THEN 0 ELSE i - 1 - 1 + 1
    <3>1. 1 \in Int /\ i - 1 \in Int
      BY <1>7
    <3> QED  BY <3>1, FS_Interval
  <2>3. pos = Cardinality(1..(i - 1))
    BY <2>1
  <2> HIDE DEF pos
  <2>4. (IF 1 > i - 1 THEN 0 ELSE i - 1 - 1 + 1) = i - 1
    BY <1>6, <1>7
  <2> QED  BY <2>2, <2>3, <2>4
<1>10. ks \in Seq(Key) /\ Widened(ks, keys, i - 1, sep)
  <2>1. i - 1 \in 0..Len(keys) /\ ks = InsertAt(keys, (i - 1) + 1, sep)
    <3>1. i - 1 \in 0..Len(keys)
      BY <1>6, <1>7
    <3> HIDE DEF pos
    <3> QED  BY <1>9, <3>1
  <2> HIDE DEF ks
  <2> QED  BY <1>2, <1>4, <2>1, InsertAtFacts
<1>11. cs \in Seq(Nat) /\ Widened(cs, children, i, r)
  <2>1. i \in 0..Len(children) /\ cs = InsertAt(children, i + 1, r)
    <3>1. i \in 0..Len(children) /\ (i - 1) + 2 = i + 1
      BY <1>3, <1>6, <1>7
    <3> HIDE DEF pos
    <3> QED  BY <1>9, <3>1
  <2> HIDE DEF cs
  <2> QED  BY <1>2, <1>5, <2>1, InsertAtFacts
<1> HIDE DEF ks, cs
<1>12. Len(ks) \in Nat
  BY <1>10
<1>13. CASE Len(ks) <= InternalMax
  <2>1. res.nodes = [nodes EXCEPT ![p] = Internal(ks, cs)] /\ res.split = NoSplit
    BY <1>1, <1>13
  <2>2. SeparatorWhole(res, nodes, p, ks, cs)
    BY <2>1 DEF SeparatorWhole, NoSplit
  <2> QED  BY <1>10, <1>11, <1>13, <2>2 DEF keys, children
<1>14. CASE ~ (Len(ks) <= InternalMax)
  <2>1. /\ res.nodes = Append([nodes EXCEPT ![p] = Internal(SubSeq(ks, 1, mid), SubSeq(cs, 1, mid + 1))],
                              Internal(SubSeq(ks, mid + 2, Len(ks)), SubSeq(cs, mid + 2, Len(cs))))
        /\ res.split = Split(ks[mid + 1], Len(nodes) + 1)
    BY <1>1, <1>14
  <2>2. res.split.is /\ res.split.sep = ks[mid + 1] /\ res.split.right = Len(nodes) + 1
    BY <2>1 DEF Split
  <2>3. SeparatorCut(res, nodes, p, ks, cs, mid)
    BY <2>1, <2>2 DEF SeparatorCut, SplitNodes
  <2>4. Len(ks) > InternalMax
    BY <1>12, <1>14, TreeBounds
  <2> QED  BY <1>10, <1>11, <2>3, <2>4 DEF keys, children
<1> QED  BY <1>13, <1>14

\* These nodes are those once p has taken the separator.
Absorbed(res, nodes, span, level, h, chain, es, p) ==
  /\ res.split.is => SplitOff(res.nodes, nodes, span, level, h, es, p, res.split.right, res.split.sep)
  /\ ~ res.split.is => Sound(res.nodes, span, level, h, chain, es, span)
  /\ Narrow(res.nodes) /\ Len(nodes) <= Len(res.nodes)
  /\ \A q \in DOMAIN nodes \ {p} : res.nodes[q] = nodes[q]
  /\ Roomy(nodes) => Roomy(res.nodes)

\* insert_separator settles the split of a child, splitting its node or not.
LEMMA SeparatorOutcome ==
  ASSUME NEW nodes, NEW span, NEW level, NEW h, NEW chain, NEW es, NEW n, NEW r, NEW sep,
         Sound(nodes, span, level, h, chain, es, Joined(span, n, r)), Narrow(nodes),
         NEW p, NEW i, HalfChild(nodes, span, level, n, r, sep, p, i),
         NEW res, res = InsertSeparator(nodes, p, sep, r)
  PROVE  Absorbed(res, nodes, span, level, h, chain, es, p)
<1>1. Frame(nodes, span, level, h)
  BY DEF Sound
<1>2. PICK ks \in Seq(Key), cs \in Seq(Nat) :
           /\ Widened(ks, nodes[p].keys, i - 1, sep) /\ Widened(cs, nodes[p].children, i, r)
           /\ \/ SeparatorWhole(res, nodes, p, ks, cs) /\ Len(ks) <= InternalMax
              \/ SeparatorCut(res, nodes, p, ks, cs, Len(ks) \div 2) /\ Len(ks) > InternalMax
  BY <1>1, InsertSeparatorCases
<1> DEFINE wide == Internal(ks, cs)  one == [nodes EXCEPT ![p] = wide]  L == Len(ks)  mid == L \div 2
<1>3. wide \in InnerNode /\ wide.keys = ks /\ wide.children = cs /\ wide \in Node
  BY NodesMade DEF Node
<1>4. nodes \in Seq(Node) /\ Len(nodes) \in Nat /\ p \in 1..Len(nodes) /\ p \in DOMAIN nodes /\ nodes[p] \in InnerNode
  BY <1>1 DEF Frame, HalfChild
<1>5. Changed(one, nodes, p, wide)
  <2>1. one = [nodes EXCEPT ![p] = wide]
    OBVIOUS
  <2> HIDE DEF one, wide
  <2> QED  BY <1>3, <1>4, <2>1, ChangedFacts
<1>6. Sound(one, span, level, h, chain, es, span) /\ SameLeaves(one, nodes, span, span)
  <2> HIDE DEF one
  <2> QED  BY <1>2, <1>5, SeparatorAbsorbed
<1>7. /\ DOMAIN one = DOMAIN nodes /\ Len(one) = Len(nodes) /\ one[p] = wide
      /\ \A q \in DOMAIN nodes \ {p} : one[q] = nodes[q]
  <2> HIDE DEF one, wide
  <2> QED  BY <1>5 DEF Changed
<1>8. Roomy(nodes) => Roomy(one)
  <2> HIDE DEF one, wide
  <2> QED  BY <1>6, LeavesRoomy
<1> HIDE DEF wide
<1>9. L \in Nat /\ L = Len(nodes[p].keys) + 1 /\ Len(nodes[p].keys) \in 1..InternalMax
  <2>1. Len(nodes[p].keys) \in 1..InternalMax
    BY <1>4 DEF Narrow
  <2>2. Len(ks) = Len(nodes[p].keys) + 1
    BY <1>2 DEF Widened
  <2> QED  BY <2>1, <2>2
<1>10. CASE SeparatorWhole(res, nodes, p, ks, cs) /\ Len(ks) <= InternalMax
  <2>1. res.nodes = one /\ ~ res.split.is
    BY <1>10 DEF SeparatorWhole, wide
  <2> HIDE DEF one
  <2>2. Narrow(one)
    <3>1. L \in 1..InternalMax
      BY <1>9, <1>10
    <3> QED  BY <1>3, <1>7, <3>1 DEF Narrow
  <2>3. Len(nodes) <= Len(one)
    BY <1>4, <1>7
  <2> QED  BY <1>6, <1>7, <1>8, <2>1, <2>2, <2>3 DEF Absorbed
<1>11. CASE SeparatorCut(res, nodes, p, ks, cs, Len(ks) \div 2) /\ Len(ks) > InternalMax
  <2> DEFINE left == Internal(SubSeq(ks, 1, mid), SubSeq(cs, 1, mid + 1))
             right == Internal(SubSeq(ks, mid + 2, L), SubSeq(cs, mid + 2, L + 1))
             r2 == Len(nodes) + 1
  <2>1. L = InternalMax + 1 /\ mid \in Nat /\ mid >= 1 /\ mid + 2 <= L /\ L \in Nat
    <3>1. L > InternalMax
      BY <1>11
    <3> HIDE DEF L
    <3>2. L \in Nat /\ L <= InternalMax + 1 /\ InternalMax \in Nat /\ InternalMax >= 2
      BY <1>9, TreeBounds
    <3>3. L = InternalMax + 1 /\ L >= 3
      BY <3>1, <3>2
    <3> QED  BY <3>2, <3>3
  <2>2. InnerOk(wide, span[p], level[p], level, span)
    <3> HIDE DEF one
    <3> QED  BY <1>3, <1>4, <1>6, <1>7 DEF Sound, Linked
  <2>3. Ordered(ks) /\ Len(cs) = L + 1
    BY <1>3, <2>2 DEF InnerOk
  <2>4. /\ res.nodes = SplitNodes(nodes, p, left, right)
        /\ res.split.is /\ res.split.sep = ks[mid + 1] /\ res.split.right = r2
    BY <1>11, <2>3 DEF SeparatorCut
  <2>5. Halved(wide, L, mid, ks[mid + 1], left, right)
    <3>1. Len(ks) = L
      OBVIOUS
    <3> HIDE DEF left, right, mid, L
    <3>2. Halved(Internal(ks, cs), L, mid, ks[mid + 1],
                 Internal(SubSeq(ks, 1, mid), SubSeq(cs, 1, mid + 1)),
                 Internal(SubSeq(ks, mid + 2, L), SubSeq(cs, mid + 2, L + 1)))
      BY <2>1, <2>3, <3>1, HalvedIs
    <3> QED  BY <3>2, Zenon DEF wide, left, right
  <2> HIDE DEF left, right
  <2>6. SplitNodes(nodes, p, left, right) = SplitNodes(one, p, left, right)
    <3>1. [one EXCEPT ![p] = left] = [nodes EXCEPT ![p] = left]
      BY <1>4
    <3> HIDE DEF one
    <3> QED  BY <3>1 DEF SplitNodes
  <2> HIDE DEF one, mid, L
  <2>7. r2 = Len(one) + 1 /\ res.nodes = SplitNodes(one, p, left, right) /\ p \in DOMAIN one
    BY <1>4, <1>7, <2>4, <2>6
  <2> HIDE DEF r2
  <2>8. /\ SplitOff(res.nodes, one, span, level, h, es, p, r2, ks[mid + 1])
        /\ \E sp : SameLeaves(res.nodes, one, sp, span)
        /\ Placed(res.nodes, one, p, left, right, r2)
    BY <1>6, <1>7, <2>5, <2>7, InnerSplit
  <2>9. SplitOff(res.nodes, nodes, span, level, h, es, p, r2, ks[mid + 1])
    BY <1>7, <2>8 DEF SplitOff
  <2>10. Roomy(one) => Roomy(res.nodes)
    BY <2>8, LeavesRoomy
  <2>11. /\ DOMAIN res.nodes = DOMAIN nodes \cup {r2} /\ Len(res.nodes) = r2
         /\ res.nodes[p] = left /\ res.nodes[r2] = right
         /\ \A q \in DOMAIN nodes \ {p} : res.nodes[q] = nodes[q]
    BY <1>7, <2>8 DEF Placed
  <2>12. Narrow(res.nodes)
    <3>1. Len(left.keys) = mid /\ Len(right.keys) = L - mid - 1
      BY <2>5 DEF Halved, KeyParts
    <3>2. mid \in 1..InternalMax /\ L - mid - 1 \in 1..InternalMax
      <4>1. InternalMax \in Nat
        BY TreeBounds
      <4> QED  BY <2>1, <4>1
    <3> QED  BY <2>11, <3>1, <3>2 DEF Narrow
  <2>13. Len(nodes) <= Len(res.nodes)
    <3>1. r2 = Len(nodes) + 1
      BY DEF r2
    <3> QED  BY <1>4, <2>11, <3>1
  <2> QED  BY <1>8, <2>4, <2>9, <2>10, <2>11, <2>12, <2>13 DEF Absorbed
<1> QED  BY <1>2, <1>10, <1>11

----------------------------------------------------------------------------
(* An insertion, from its leaf up to the root.                             *)

\* What the spans are while the split of n is to be settled.
Merged(b, sp, n) == IF b.split.is THEN Joined(sp, n, b.split.right) ELSE sp

\* On the way back, when n is done: the nodes are sound but for the split of n,
\* and those above n are as they were.
Unwound(b, sp, lv, ch, nodes, span, level, h, es, n) ==
  /\ Sound(b.nodes, sp, lv, h, ch, es, Merged(b, sp, n))
  /\ b.split.is => Halves(sp, lv, n, b.split.right, b.split.sep)
  /\ Narrow(b.nodes) /\ (Roomy(b.nodes) \/ Heavy(es)) /\ Len(nodes) <= Len(b.nodes)
  /\ \A q \in DOMAIN nodes : /\ q \in DOMAIN b.nodes /\ lv[q] = level[q]
                             /\ level[q] >= level[n] => Merged(b, sp, n)[q] = span[q]
                             /\ level[q] > level[n] => b.nodes[q] = nodes[q]

Underway(b, nodes, span, level, h, es, n) ==
  \E sp, lv, ch : Unwound(b, sp, lv, ch, nodes, span, level, h, es, n)

\* A longer sequence has the indexes of a shorter one.
LEMMA LongerDomain ==
  \A s, t \in Seq(Node) : Len(s) <= Len(t) => DOMAIN s \subseteq DOMAIN t
OBVIOUS

\* It begins with the leaf.
LEMMA InsertionBegins ==
  ASSUME NEW nodes, NEW span, NEW level, NEW h, NEW chain, NEW es,
         Sound(nodes, span, level, h, chain, es, span), IsFiniteSet(es), Narrow(nodes), Roomy(nodes) \/ Heavy(es),
         NEW n \in DOMAIN nodes, nodes[n] \in LeafNode,
         NEW key \in span[n], NEW value \in Nat, NEW e, e = [key |-> key, value |-> value], e \notin es,
         NEW res, res = InsertLeaf(nodes, n, key, value)
  PROVE  Underway(res, nodes, span, level, h, es \cup {e}, n)
<1>1. Outcome(res, nodes, span, level, h, es \cup {e}, n)
  BY LeafOutcome
<1>2. (Roomy(res.nodes) \/ Heavy(es \cup {e})) /\ Narrow(res.nodes)
  BY LeafRoomy
<1>3. nodes \in Seq(Node) /\ level \in [DOMAIN nodes -> 0..(h - 1)]
  BY DEF Sound, Frame
<1>4. res.nodes \in Seq(Node) /\ Len(nodes) <= Len(res.nodes)
  BY <1>1 DEF Outcome
<1>5. DOMAIN nodes \subseteq DOMAIN res.nodes
  BY <1>3, <1>4, LongerDomain
<1>6. \A q \in DOMAIN nodes : level[q] > level[n] => res.nodes[q] = nodes[q]
  <2> TAKE q \in DOMAIN nodes
  <2>1. level[q] \in Int /\ level[n] \in Int
    BY <1>3
  <2>2. level[q] > level[n] => q # n
    BY <2>1
  <2> QED  BY <1>1, <2>2 DEF Outcome
<1>7. CASE res.split.is
  <2>1. SplitOff(res.nodes, nodes, span, level, h, es \cup {e}, n, res.split.right, res.split.sep)
    BY <1>1, <1>7 DEF Outcome
  <2>2. PICK sp, lv, ch :
          /\ Sound(res.nodes, sp, lv, h, ch, es \cup {e}, Joined(sp, n, res.split.right))
          /\ Halves(sp, lv, n, res.split.right, res.split.sep)
          /\ \A q \in DOMAIN nodes : Joined(sp, n, res.split.right)[q] = span[q] /\ lv[q] = level[q]
    BY <2>1 DEF SplitOff
  <2>3. Merged(res, sp, n) = Joined(sp, n, res.split.right)
    BY <1>7 DEF Merged
  <2>4. Unwound(res, sp, lv, ch, nodes, span, level, h, es \cup {e}, n)
    BY <1>2, <1>4, <1>5, <1>6, <2>2, <2>3 DEF Unwound
  <2> QED  BY <2>4 DEF Underway
<1>8. CASE ~ res.split.is
  <2>1. Settled(res.nodes, nodes, span, level, h, es \cup {e})
    BY <1>1, <1>8 DEF Outcome
  <2>2. PICK sp, lv, ch :
          /\ Sound(res.nodes, sp, lv, h, ch, es \cup {e}, sp)
          /\ \A q \in DOMAIN nodes : sp[q] = span[q] /\ lv[q] = level[q]
    BY <2>1 DEF Settled
  <2>3. Merged(res, sp, n) = sp
    BY <1>8 DEF Merged
  <2>4. Unwound(res, sp, lv, ch, nodes, span, level, h, es \cup {e}, n)
    BY <1>2, <1>4, <1>5, <1>6, <1>8, <2>2, <2>3 DEF Unwound
  <2> QED  BY <2>4 DEF Underway
<1> QED  BY <1>7, <1>8

\* A node on the way is the one below or its parent.
Above(nodes, level, p, n) ==
  /\ p \in DOMAIN nodes /\ n \in DOMAIN nodes
  /\ \/ p = n /\ level[n] = 0
     \/ /\ level[p] = level[n] + 1
        /\ nodes[p] \in InnerNode /\ \E i \in DOMAIN nodes[p].children : nodes[p].children[i] = n

\* And the node above takes its turn.
LEMMA InsertionRises ==
  ASSUME NEW nodes, NEW span, NEW level, NEW h, NEW es, nodes \in Seq(Node), level \in [DOMAIN nodes -> 0..(h - 1)],
         NEW p, NEW n, Above(nodes, level, p, n),
         NEW b, Underway(b, nodes, span, level, h, es, n)
  PROVE  Underway(Up(b, p), nodes, span, level, h, es, p)
<1>1. PICK sp, lv, ch : Unwound(b, sp, lv, ch, nodes, span, level, h, es, n)
  BY DEF Underway
<1> DEFINE J == Merged(b, sp, n)
<1>2. /\ Sound(b.nodes, sp, lv, h, ch, es, J)
      /\ b.split.is => Halves(sp, lv, n, b.split.right, b.split.sep)
      /\ Narrow(b.nodes) /\ (Roomy(b.nodes) \/ Heavy(es)) /\ Len(nodes) <= Len(b.nodes)
      /\ \A q \in DOMAIN nodes : /\ q \in DOMAIN b.nodes /\ lv[q] = level[q]
                                 /\ level[q] >= level[n] => J[q] = span[q]
                                 /\ level[q] > level[n] => b.nodes[q] = nodes[q]
  BY <1>1 DEF Unwound
<1>3. p \in DOMAIN nodes /\ n \in DOMAIN nodes
  BY DEF Above
<1>4. /\ b.nodes \in Seq(Node) /\ sp \in [DOMAIN b.nodes -> SUBSET Key]
      /\ \A q \in DOMAIN b.nodes : b.nodes[q] \in LeafNode <=> lv[q] = 0
  BY <1>2 DEF Sound, Frame
<1>5. \A q \in DOMAIN nodes : level[q] \in Nat
  OBVIOUS
<1>6. CASE p = n /\ level[n] = 0
  <2>1. b.nodes[p] \in LeafNode
    BY <1>2, <1>3, <1>4, <1>6
  <2>2. Up(b, p) = b
    BY <2>1, NodeKinds DEF Up
  <2> QED  BY <1>6, <2>2
<1>7. CASE /\ level[p] = level[n] + 1 /\ nodes[p] \in InnerNode
           /\ \E i \in DOMAIN nodes[p].children : nodes[p].children[i] = n
  <2>1. PICK i \in DOMAIN nodes[p].children : nodes[p].children[i] = n
    BY <1>7
  <2>2. level[p] > level[n] /\ level[p] # 0 /\ p # n
    BY <1>3, <1>5, <1>7
  <2>3. b.nodes[p] = nodes[p] /\ ~ b.nodes[p].leaf /\ p \in DOMAIN b.nodes
    BY <1>2, <1>3, <1>7, <2>2, NodeKinds
  <2>4. \A q \in DOMAIN nodes : level[q] >= level[p] => level[q] > level[n] /\ level[q] >= level[n] /\ q # n
    <3> TAKE q \in DOMAIN nodes
    <3>1. level[q] \in Nat /\ level[n] \in Nat
      BY <1>3, <1>5
    <3> QED  BY <1>7, <3>1
  <2>5. \A q \in DOMAIN nodes : level[q] > level[p] => q # p /\ level[q] > level[n]
    <3> TAKE q \in DOMAIN nodes
    <3>1. level[q] \in Nat /\ level[n] \in Nat
      BY <1>3, <1>5
    <3> QED  BY <1>7, <3>1
  <2>6. \A q \in DOMAIN nodes : level[q] >= level[p] => sp[q] = span[q]
    <3> TAKE q \in DOMAIN nodes
    <3>1. q \in DOMAIN sp /\ (q # n => J[q] = sp[q])
      BY <1>2, <1>4 DEF Merged, Joined
    <3> QED  BY <1>2, <2>4, <3>1
  <2> HIDE DEF J
  <2>7. CASE ~ b.split.is
    <3>1. Up(b, p) = b /\ Merged(b, sp, p) = sp /\ J = sp
      BY <2>7 DEF Up, Merged, J
    <3>2. Unwound(b, sp, lv, ch, nodes, span, level, h, es, p)
      BY <1>2, <2>5, <2>6, <2>7, <3>1 DEF Unwound
    <3> QED  BY <3>1, <3>2 DEF Underway
  <2>8. CASE b.split.is
    <3> DEFINE r == b.split.right  sep == b.split.sep  up == Up(b, p)
    <3>1. up = InsertSeparator(b.nodes, p, sep, r) /\ J = Joined(sp, n, r)
      BY <2>3, <2>8 DEF Up, Merged, J
    <3>2. Halves(sp, lv, n, r, sep)
      BY <1>2, <2>8
    <3> HIDE DEF r, sep, up
    <3>3. HalfChild(b.nodes, sp, lv, n, r, sep, p, i)
      <4>1. Linked(b.nodes, sp, lv, Joined(sp, n, r))
        BY <1>2, <3>1 DEF Sound
      <4> QED  BY <1>7, <2>1, <2>3, <3>2, <4>1 DEF HalfChild
    <3>4. Sound(b.nodes, sp, lv, h, ch, es, Joined(sp, n, r))
      BY <1>2, <3>1
    <3>5. /\ up.split.is => SplitOff(up.nodes, b.nodes, sp, lv, h, es, p, up.split.right, up.split.sep)
          /\ ~ up.split.is => Sound(up.nodes, sp, lv, h, ch, es, sp)
          /\ Narrow(up.nodes) /\ Len(b.nodes) <= Len(up.nodes)
          /\ \A q \in DOMAIN b.nodes \ {p} : up.nodes[q] = b.nodes[q]
          /\ Roomy(b.nodes) => Roomy(up.nodes)
      <4>1. Narrow(b.nodes) /\ up = InsertSeparator(b.nodes, p, sep, r)
        BY <1>2, <3>1
      <4>2. Absorbed(up, b.nodes, sp, lv, h, ch, es, p)
        BY <3>3, <3>4, <4>1, SeparatorOutcome
      <4> QED  BY <4>2, Zenon DEF Absorbed
    <3>6. ASSUME NEW spans, NEW levels, NEW links, NEW joined,
                 Sound(up.nodes, spans, levels, h, links, es, joined), joined = Merged(up, spans, p),
                 up.split.is => Halves(spans, levels, p, up.split.right, up.split.sep),
                 \A q \in DOMAIN b.nodes : joined[q] = sp[q] /\ levels[q] = lv[q]
          PROVE  Underway(up, nodes, span, level, h, es, p)
      <4>1. up.nodes \in Seq(Node)
        BY <3>6 DEF Sound, Frame
      <4>2. Len(nodes) <= Len(up.nodes) /\ DOMAIN nodes \subseteq DOMAIN up.nodes
        <5>1. Len(nodes) \in Nat /\ Len(b.nodes) \in Nat /\ Len(up.nodes) \in Nat
          BY <1>4, <4>1
        <5>2. Len(nodes) <= Len(up.nodes)
          BY <1>2, <3>5, <5>1
        <5> QED  BY <4>1, <5>2, LongerDomain
      <4>3. \A q \in DOMAIN nodes : /\ q \in DOMAIN up.nodes /\ levels[q] = level[q]
                                    /\ level[q] >= level[p] => Merged(up, spans, p)[q] = span[q]
                                    /\ level[q] > level[p] => up.nodes[q] = nodes[q]
        BY <1>2, <2>5, <2>6, <3>5, <3>6, <4>2
      <4>4. Unwound(up, spans, levels, links, nodes, span, level, h, es, p)
        BY <1>2, <3>5, <3>6, <4>2, <4>3 DEF Unwound
      <4> QED  BY <4>4 DEF Underway
    <3>7. CASE up.split.is
      <4>1. PICK spans, levels, links :
              /\ Sound(up.nodes, spans, levels, h, links, es, Joined(spans, p, up.split.right))
              /\ Halves(spans, levels, p, up.split.right, up.split.sep)
              /\ \A q \in DOMAIN b.nodes : Joined(spans, p, up.split.right)[q] = sp[q] /\ levels[q] = lv[q]
        BY <3>5, <3>7 DEF SplitOff
      <4>2. Joined(spans, p, up.split.right) = Merged(up, spans, p)
        BY <3>7 DEF Merged
      <4> HIDE DEF up
      <4>3. Underway(up, nodes, span, level, h, es, p)
        BY <3>6, <4>1, <4>2
      <4> QED  BY <4>3 DEF up
    <3>8. CASE ~ up.split.is
      <4>1. sp = Merged(up, sp, p)
        BY <3>8 DEF Merged
      <4>2. Underway(up, nodes, span, level, h, es, p)
        BY <3>5, <3>6, <3>8, <4>1
      <4> QED  BY <4>2 DEF up
    <3> QED  BY <3>7, <3>8
  <2> QED  BY <2>7, <2>8
<1> QED  BY <1>6, <1>7 DEF Above

\* The spans and levels under a new root.
TopSpan(span, top) == [m \in DOMAIN span \cup {top} |-> IF m = top THEN Key ELSE span[m]]
TopLevel(level, top, h) == [m \in DOMAIN level \cup {top} |-> IF m = top THEN h ELSE level[m]]

Raised(new, nodes, top, node) ==
  /\ new \in Seq(Node) /\ Len(new) = top /\ top = Len(nodes) + 1 /\ DOMAIN new = DOMAIN nodes \cup {top}
  /\ top \notin DOMAIN nodes /\ new[top] = node
  /\ \A q \in DOMAIN nodes : new[q] = nodes[q]

LEMMA RaisedFacts ==
  ASSUME NEW nodes \in Seq(Node), NEW node \in Node, NEW new, new = Append(nodes, node)
  PROVE  \E top \in Nat : Raised(new, nodes, top, node)
<1>1. new \in Seq(Node) /\ Len(new) = Len(nodes) + 1
  OBVIOUS
<1>2. DOMAIN new = DOMAIN nodes \cup {Len(new)} /\ Len(new) \notin DOMAIN nodes /\ Len(new) \in Nat
  BY <1>1
<1>3. new[Len(new)] = node /\ \A q \in DOMAIN nodes : new[q] = nodes[q]
  OBVIOUS
<1> QED  BY <1>1, <1>2, <1>3 DEF Raised

\* A root of two children.
TopNode(node, sep, n, r) ==
  /\ node \in InnerNode /\ Len(node.keys) = 1 /\ DOMAIN node.keys = {1} /\ node.keys[1] = sep
  /\ Len(node.children) = 2 /\ DOMAIN node.children = {1, 2} /\ node.children[1] = n /\ node.children[2] = r

LEMMA TopNodeMade ==
  ASSUME NEW sep \in Key, NEW n \in Nat, NEW r \in Nat
  PROVE  TopNode(Internal(<<sep>>, <<n, r>>), sep, n, r)
<1> DEFINE ks == <<sep>>  cs == <<n, r>>
<1>1. ks \in Seq(Key) /\ Len(ks) = 1 /\ DOMAIN ks = {1} /\ ks[1] = sep
  OBVIOUS
<1>2. cs \in Seq(Nat) /\ Len(cs) = 2 /\ DOMAIN cs = {1, 2} /\ cs[1] = n /\ cs[2] = r
  OBVIOUS
<1> HIDE DEF ks, cs
<1>3. Internal(ks, cs) \in InnerNode /\ Internal(ks, cs).keys = ks /\ Internal(ks, cs).children = cs
  BY <1>1, <1>2, NodesMade
<1>4. TopNode(Internal(ks, cs), sep, n, r)
  BY <1>1, <1>2, <1>3, Zenon DEF TopNode
<1> QED  BY <1>4 DEF ks, cs

\* The halves of the root are the children of the new one.
LEMMA TopLinked ==
  ASSUME NEW sp, NEW lv, NEW n, NEW r, NEW sep \in Key, NEW h, Halves(sp, lv, n, r, sep),
         DOMAIN sp = DOMAIN lv, lv[n] = h - 1, sp[n] \cup sp[r] = Key,
         NEW node, TopNode(node, sep, n, r),
         NEW level, NEW span, DOMAIN lv \subseteq DOMAIN level, \A q \in DOMAIN lv : span[q] = sp[q] /\ level[q] = lv[q]
  PROVE  InnerOk(node, Key, h, level, span)
<1>1. n \in DOMAIN lv /\ r \in DOMAIN lv /\ lv[r] = h - 1
  BY DEF Halves
<1>2. sp[n] = Slot(Key, node.keys, 1)
  <2>1. Slot(Key, node.keys, 1) = {k \in Key : Less(k, sep)}
    BY DEF Slot, TopNode
  <2>2. sp[n] = {k \in Key : Less(k, sep)}
    BY DEF Halves
  <2> QED  BY <2>1, <2>2
<1>3. sp[r] = Slot(Key, node.keys, 2)
  <2>1. Slot(Key, node.keys, 2) = {k \in Key : ~ Less(k, sep)}
    BY DEF Slot, TopNode
  <2>2. sp[r] = {k \in Key : ~ Less(k, sep)}
    BY DEF Halves
  <2> QED  BY <2>1, <2>2
<1>4. \A i \in DOMAIN node.children : /\ node.children[i] \in DOMAIN level
                                      /\ level[node.children[i]] = h - 1
                                      /\ span[node.children[i]] = Slot(Key, node.keys, i)
  <2> TAKE i \in DOMAIN node.children
  <2>1. DOMAIN node.children = {1, 2} /\ node.children[1] = n /\ node.children[2] = r
    BY DEF TopNode
  <2>2. i \in {1, 2}
    BY <2>1
  <2>3. i = 1 \/ i = 2
    BY <2>2
  <2>4. CASE i = 1
    BY <1>1, <1>2, <2>1, <2>4
  <2>5. CASE i = 2
    BY <1>1, <1>3, <2>1, <2>5
  <2> QED  BY <2>3, <2>4, <2>5
<1>5. Ordered(node.keys) /\ \A i \in DOMAIN node.keys : node.keys[i] \in Key
  BY DEF Ordered, TopNode
<1>6. Len(node.children) = Len(node.keys) + 1
  BY DEF TopNode
<1> QED  BY <1>4, <1>5, <1>6 DEF InnerOk

\* A tree of height h whose root is the last node.
Topped(nodes, h, chain, es) ==
  /\ \E span, level : /\ Sound(nodes, span, level, h, chain, es, span)
                      /\ span[Len(nodes)] = Key /\ level[Len(nodes)] = h - 1
  /\ Narrow(nodes) /\ (Roomy(nodes) \/ Heavy(es))
  /\ nodes \in Seq(Node) /\ Len(nodes) \in DOMAIN nodes

\* A root that split gets a parent.
LEMMA RootRaised ==
  ASSUME NEW nodes, NEW sp, NEW lv, NEW h, NEW chain, NEW es, NEW n, NEW r, NEW sep,
         Sound(nodes, sp, lv, h, chain, es, Joined(sp, n, r)), Halves(sp, lv, n, r, sep),
         lv[n] = h - 1, Joined(sp, n, r)[n] = Key, Narrow(nodes), Roomy(nodes) \/ Heavy(es),
         NEW new, new = Append(nodes, Internal(<<sep>>, <<n, r>>))
  PROVE  Topped(new, h + 1, chain, es)
<1> DEFINE node == Internal(<<sep>>, <<n, r>>)
<1>1. Frame(nodes, sp, lv, h)
  BY DEF Sound
<1>2. /\ nodes \in Seq(Node) /\ Len(nodes) \in Nat /\ sp \in [DOMAIN nodes -> SUBSET Key]
      /\ lv \in [DOMAIN nodes -> 0..(h - 1)] /\ h \in 1..Len(nodes) /\ h \in Nat
  BY <1>1 DEF Frame
<1>3. n \in DOMAIN nodes /\ r \in DOMAIN nodes /\ n \in Nat /\ r \in Nat /\ sep \in Key
  BY <1>2 DEF Halves
<1>4. TopNode(node, sep, n, r)
  BY <1>3, TopNodeMade
<1>5. sp[n] \cup sp[r] = Key
  BY <1>2, <1>3 DEF Joined
<1>6. new = Append(nodes, node)
  OBVIOUS
<1> HIDE DEF node
<1>7. node \in Node /\ node \in InnerNode /\ node \notin LeafNode
  BY <1>4, NodeKinds DEF TopNode, Node
<1>8. PICK top \in Nat : Raised(new, nodes, top, node)
  BY <1>2, <1>6, <1>7, RaisedFacts
<1>9. /\ new \in Seq(Node) /\ Len(new) = top /\ top = Len(nodes) + 1 /\ DOMAIN new = DOMAIN nodes \cup {top}
      /\ top \notin DOMAIN nodes /\ new[top] = node
      /\ \A q \in DOMAIN nodes : new[q] = nodes[q]
  BY <1>8 DEF Raised
<1> DEFINE span == TopSpan(sp, top)  level == TopLevel(lv, top, h)
<1>10. /\ span \in [DOMAIN new -> SUBSET Key] /\ span[top] = Key
       /\ \A q \in DOMAIN nodes : span[q] = sp[q]
  BY <1>2, <1>9 DEF TopSpan
<1>11. /\ DOMAIN level = DOMAIN new /\ level[top] = h
       /\ \A q \in DOMAIN nodes : level[q] = lv[q]
  BY <1>2, <1>9 DEF TopLevel
<1>12. level \in [DOMAIN new -> 0..((h + 1) - 1)]
  <2>1. \A q \in DOMAIN nodes : lv[q] \in 0..((h + 1) - 1)
    BY <1>2
  <2>2. h \in 0..((h + 1) - 1)
    BY <1>2
  <2>3. level = [q \in DOMAIN new |-> level[q]]
    BY <1>2, <1>9 DEF TopLevel
  <2> HIDE DEF level, span
  <2> QED  BY <1>9, <1>11, <2>1, <2>2, <2>3
<1> HIDE DEF level, span
<1>13. \A q \in DOMAIN nodes : lv[q] \in Nat /\ lv[q] # h /\ lv[q] < h
  BY <1>2
<1>14. Frame(new, span, level, h + 1)
  <2>1. h + 1 \in 1..Len(new)
    BY <1>2, <1>9
  <2>2. Key # {}
    BY <1>3
  <2>3. \A q \in DOMAIN new : span[q] # {} /\ (new[q] \in LeafNode <=> level[q] = 0)
    <3>1. h # 0
      BY <1>2
    <3>2. \A q \in DOMAIN nodes : sp[q] # {} /\ (nodes[q] \in LeafNode <=> lv[q] = 0)
      BY <1>1 DEF Frame
    <3>3. \A q \in DOMAIN nodes : span[q] # {} /\ (new[q] \in LeafNode <=> level[q] = 0)
      BY <1>9, <1>10, <1>11, <3>2, Zenon
    <3>4. span[top] # {} /\ (new[top] \in LeafNode <=> level[top] = 0)
      BY <1>7, <1>9, <1>10, <1>11, <2>2, <3>1, Zenon
    <3> QED  BY <1>9, <3>3, <3>4, Zenon
  <2>4. \A m, q \in DOMAIN new : m # q /\ level[m] = level[q] => span[m] \cap span[q] = {}
    <3> TAKE m, q \in DOMAIN new
    <3> HAVE m # q /\ level[m] = level[q]
    <3>1. \A x, y \in DOMAIN nodes : x # y /\ lv[x] = lv[y] => sp[x] \cap sp[y] = {}
      BY <1>1 DEF Frame
    <3>2. m \in DOMAIN nodes /\ q \in DOMAIN nodes
      BY <1>9, <1>11, <1>13
    <3> QED  BY <1>10, <1>11, <3>1, <3>2, Zenon
  <2>5. \A k \in Key, l \in 0..((h + 1) - 1) : \E q \in DOMAIN new : level[q] = l /\ k \in span[q]
    <3> TAKE k \in Key, l \in 0..((h + 1) - 1)
    <3>1. l = h \/ l \in 0..(h - 1)
      BY <1>2
    <3>2. CASE l = h
      BY <1>9, <1>10, <1>11, <3>2
    <3>3. CASE l \in 0..(h - 1)
      <4>1. PICK q \in DOMAIN nodes : lv[q] = l /\ k \in sp[q]
        BY <1>1, <3>3 DEF Frame
      <4> QED  BY <1>9, <1>10, <1>11, <4>1
    <3> QED  BY <3>1, <3>2, <3>3
  <2> QED  BY <1>9, <1>10, <1>12, <2>1, <2>3, <2>4, <2>5 DEF Frame
<1>15. Linked(new, span, level, span)
  <2> SUFFICES ASSUME NEW q \in DOMAIN new, new[q] \in InnerNode
               PROVE  InnerOk(new[q], span[q], level[q], level, span)
    BY DEF Linked
  <2>1. CASE q = top
    <3>1. DOMAIN sp = DOMAIN lv /\ DOMAIN lv \subseteq DOMAIN level
          /\ \A m \in DOMAIN lv : span[m] = sp[m] /\ level[m] = lv[m]
      BY <1>2, <1>9, <1>10, <1>11
    <3>2. InnerOk(node, Key, h, level, span)
      BY <1>3, <1>4, <1>5, <3>1, TopLinked
    <3> QED  BY <1>9, <1>10, <1>11, <2>1, <3>2
  <2>2. CASE q \in DOMAIN nodes
    <3>1. InnerOk(nodes[q], sp[q], lv[q], lv, Joined(sp, n, r))
      BY <1>9, <2>2 DEF Sound, Linked
    <3>2. \A i \in DOMAIN nodes[q].children :
            /\ nodes[q].children[i] \in DOMAIN level
            /\ level[nodes[q].children[i]] = lv[q] - 1
            /\ span[nodes[q].children[i]] = Slot(sp[q], nodes[q].keys, i)
      <4> TAKE i \in DOMAIN nodes[q].children
      <4> DEFINE c == nodes[q].children[i]
      <4>1. c \in DOMAIN lv /\ lv[c] = lv[q] - 1 /\ Joined(sp, n, r)[c] = Slot(sp[q], nodes[q].keys, i)
        BY <3>1 DEF InnerOk
      <4> HIDE DEF c
      <4>2. c \in DOMAIN nodes /\ lv[q] \in Nat /\ lv[q] < h /\ lv[c] = lv[q] - 1
        BY <1>2, <1>13, <2>2, <4>1
      <4>3. c # n
        <5>1. h \in Nat /\ lv[q] \in Nat /\ lv[q] < h
          BY <1>2, <4>2
        <5>2. lv[q] - 1 # h - 1
          BY <5>1
        <5> QED  BY <4>2, <5>2, Zenon
      <4>4. Joined(sp, n, r)[c] = sp[c]
        BY <1>2, <4>2, <4>3 DEF Joined
      <4>5. c \in DOMAIN level /\ level[c] = lv[q] - 1 /\ span[c] = Slot(sp[q], nodes[q].keys, i)
        BY <1>9, <1>10, <1>11, <4>1, <4>2, <4>4
      <4> QED  BY <4>5 DEF c
    <3>3. InnerOk(nodes[q], sp[q], lv[q], level, span)
      BY <3>1, <3>2 DEF InnerOk
    <3> QED  BY <1>9, <1>10, <1>11, <2>2, <3>3
  <2> QED  BY <1>9, <2>1, <2>2
<1>16. SameLeaves(new, nodes, span, sp)
  <2>1. Len(nodes) <= Len(new) /\ Len(new) \in Nat
    BY <1>2, <1>9
  <2> QED  BY <1>2, <1>7, <1>9, <1>10, <2>1 DEF SameLeaves
<1>17. Stocked(new, span) /\ Chained(new, span, chain) /\ Holds(new, es)
  BY <1>16, LeavesKept DEF Sound
<1>18. Sound(new, span, level, h + 1, chain, es, span)
  BY <1>14, <1>15, <1>17 DEF Sound
<1>19. Roomy(new) \/ Heavy(es)
  BY <1>16, LeavesRoomy
<1>20. Narrow(new)
  <2>1. 1 \in 1..InternalMax
    BY TreeBounds
  <2>2. new[top] \in InnerNode => Len(new[top].keys) = 1
    BY <1>4, <1>9 DEF TopNode
  <2> QED  BY <1>9, <2>1, <2>2 DEF Narrow
<1>21. (h + 1) - 1 = h /\ Len(new) \in DOMAIN new
  BY <1>2, <1>9
<1> QED  BY <1>9, <1>10, <1>11, <1>18, <1>19, <1>20, <1>21 DEF Topped

----------------------------------------------------------------------------
(* The way from the root to a leaf.                                        *)

\* A tree whose nodes are sound.
Upright(tree, span, level, chain, es) ==
  Sound(tree.nodes, span, level, tree.height, chain, es, span) /\ Rooted(tree, span, level)

\* A key is sent down into a span that has it.
LEMMA DownFacts ==
  ASSUME NEW nodes, NEW span, NEW level, NEW h, Frame(nodes, span, level, h), Linked(nodes, span, level, span),
         NEW n \in DOMAIN nodes, NEW key \in span[n], NEW m, m = Down(nodes, n, key)
  PROVE  /\ m \in DOMAIN nodes /\ key \in span[m] /\ Above(nodes, level, n, m)
         /\ level[m] = IF level[n] = 0 THEN 0 ELSE level[n] - 1
<1>1. /\ nodes \in Seq(Node) /\ span \in [DOMAIN nodes -> SUBSET Key] /\ level \in [DOMAIN nodes -> 0..(h - 1)]
      /\ (nodes[n] \in LeafNode <=> level[n] = 0)
  BY DEF Frame
<1>2. level[n] \in Nat /\ nodes[n] \in Node
  BY <1>1
<1>3. CASE nodes[n] \in LeafNode
  <2>1. m = n
    BY <1>3, NodeKinds DEF Down
  <2> QED  BY <1>1, <1>3, <2>1 DEF Above
<1>4. CASE nodes[n] \notin LeafNode
  <2>1. nodes[n] \in InnerNode /\ m = ChildFor(nodes[n], key)
    BY <1>2, <1>4, NodeKinds DEF Down
  <2>2. InnerOk(nodes[n], span[n], level[n], level, span)
    BY <2>1 DEF Linked
  <2>3. Ordered(nodes[n].keys) /\ Len(nodes[n].children) = Len(nodes[n].keys) + 1 /\ span[n] \in SUBSET Key
    BY <1>1, <2>2 DEF InnerOk
  <2>4. PICK i \in DOMAIN nodes[n].children :
          ChildFor(nodes[n], key) = nodes[n].children[i] /\ key \in Slot(span[n], nodes[n].keys, i)
    BY <2>1, <2>3, ChildFacts
  <2>5. m \in DOMAIN level /\ level[m] = level[n] - 1 /\ key \in span[m] /\ nodes[n].children[i] = m
    BY <2>1, <2>2, <2>4 DEF InnerOk
  <2>6. level[n] # 0 /\ level[n] = level[m] + 1 /\ m \in DOMAIN nodes
    BY <1>1, <1>2, <1>4, <2>5
  <2> QED  BY <2>1, <2>5, <2>6 DEF Above
<1> QED  BY <1>3, <1>4

\* What the way to a key is.
Trod(way, tree, span, level, key) ==
  /\ way[0] = tree.root
  /\ \A i \in 0..Len(tree.nodes) : /\ way[i] \in DOMAIN tree.nodes /\ key \in span[way[i]]
                                   /\ level[way[i]] = IF i < tree.height THEN tree.height - 1 - i ELSE 0
  /\ \A i \in 1..Len(tree.nodes) : Above(tree.nodes, level, way[i - 1], way[i])

\* The way's function exists, whatever the key.
LEMMA WayExists ==
  ASSUME NEW tree, NEW span, NEW level, NEW chain, NEW es, Upright(tree, span, level, chain, es), NEW key \in Key
  PROVE  /\ Way(tree, key)[0] = tree.root
         /\ \A i \in 1..Len(tree.nodes) : Way(tree, key)[i] = Down(tree.nodes, Way(tree, key)[i - 1], key)
<1> DEFINE nodes == tree.nodes  N == Len(nodes)  S == {n \in DOMAIN nodes : key \in span[n]}
           down == [n \in S |-> Down(nodes, n, key)]  step == [i \in 1..N |-> down]
           W == Way(tree, key)
<1>1. Frame(nodes, span, level, tree.height) /\ Linked(nodes, span, level, span)
  BY DEF Upright, Sound
<1>2. nodes \in Seq(Node) /\ N \in Nat
  BY <1>1 DEF Frame
<1>3. tree.root \in S
  BY DEF Upright, Rooted
<1>4. \A n \in S : Down(nodes, n, key) \in S
  <2> TAKE n \in S
  <2> HIDE DEF nodes
  <2>1. n \in DOMAIN nodes /\ key \in span[n]
    OBVIOUS
  <2> QED  BY <1>1, <2>1, DownFacts
<1> HIDE DEF nodes
<1>5. step \in [1..N -> [S -> S]]
  BY <1>4
<1>6. \A i \in 1..N : \A n \in S : step[i][n] = Down(nodes, n, key)
  OBVIOUS
<1> HIDE DEF step, S, N
<1>7. PICK f \in [0..N -> S] : Follows(f, N, tree.root, step)
  BY <1>2, <1>3, <1>5, RecursionTo
<1>8. \A i \in 1..N : f[i] = Down(nodes, f[i - 1], key)
  <2> TAKE i \in 1..N
  <2>1. i - 1 \in 0..N
    BY <1>2
  <2>2. f[i - 1] \in S
    BY <2>1
  <2> QED  BY <1>6, <1>7, <2>2 DEF Follows
<1>9. f = [i \in 0..N |-> IF i = 0 THEN tree.root ELSE Down(nodes, f[i - 1], key)]
  <2>1. \A i \in 0..N : f[i] = IF i = 0 THEN tree.root ELSE Down(nodes, f[i - 1], key)
    BY <1>2, <1>7, <1>8 DEF Follows
  <2> QED  BY <2>1
<1>10. W = [i \in 0..N |-> IF i = 0 THEN tree.root ELSE Down(nodes, W[i - 1], key)]
  BY <1>9 DEF Way, N, nodes
<1> HIDE DEF W
<1>11. W[0] = tree.root /\ \A i \in 1..N : W[i] = Down(nodes, W[i - 1], key)
  BY <1>2, <1>10
<1> QED  BY <1>11 DEF W, N, nodes

\* The way keeps to the spans that have the key, a level down at each step.
LEMMA WayTrod ==
  ASSUME NEW tree, NEW span, NEW level, NEW chain, NEW es, Upright(tree, span, level, chain, es), NEW key \in Key
  PROVE  Trod(Way(tree, key), tree, span, level, key)
<1> DEFINE nodes == tree.nodes  N == Len(nodes)  h == tree.height  W == Way(tree, key)
           At(i) == /\ W[i] \in DOMAIN nodes /\ key \in span[W[i]]
                    /\ level[W[i]] = IF i < h THEN h - 1 - i ELSE 0
           T == {i \in 0..N : At(i)}
<1>1. Frame(nodes, span, level, h) /\ Linked(nodes, span, level, span)
  BY DEF Upright, Sound
<1>2. nodes \in Seq(Node) /\ N \in Nat /\ h \in 1..N /\ h \in Nat
  BY <1>1 DEF Frame
<1>3. W[0] = tree.root /\ \A i \in 1..N : W[i] = Down(nodes, W[i - 1], key)
  BY WayExists
<1>4. tree.root \in DOMAIN nodes /\ key \in span[tree.root] /\ level[tree.root] = h - 1
  BY DEF Upright, Rooted
<1> HIDE DEF W, N, h, nodes
<1>5. 0 \in T
  <2>1. 0 < h /\ h - 1 - 0 = h - 1 /\ 0 \in 0..N
    BY <1>2
  <2> QED  BY <1>3, <1>4, <2>1
<1>6. ASSUME NEW i \in 0..(N - 1), i \in T PROVE i + 1 \in T /\ Above(nodes, level, W[i], W[i + 1])
  <2>1. i + 1 \in 1..N /\ (i + 1) - 1 = i /\ i + 1 \in 0..N
    BY <1>2
  <2>2. W[i + 1] = Down(nodes, W[i], key) /\ At(i)
    BY <1>3, <1>6, <2>1
  <2>3. /\ W[i + 1] \in DOMAIN nodes /\ key \in span[W[i + 1]] /\ Above(nodes, level, W[i], W[i + 1])
        /\ level[W[i + 1]] = IF level[W[i]] = 0 THEN 0 ELSE level[W[i]] - 1
    BY <1>1, <2>2, DownFacts
  <2>4. level[W[i + 1]] = IF i + 1 < h THEN h - 1 - (i + 1) ELSE 0
    <3>1. level[W[i]] = IF i < h THEN h - 1 - i ELSE 0
      BY <2>2
    <3> QED  BY <1>2, <2>3, <3>1
  <2> QED  BY <2>1, <2>3, <2>4
<1>7. \A i \in 0..N : i \in T
  <2> HIDE DEF T
  <2>1. \A i \in 0..(N - 1) : i \in T => i + 1 \in T
    BY <1>6
  <2> QED  BY <1>2, <1>5, <2>1, InductionTo
<1>8. \A i \in 1..N : Above(nodes, level, W[i - 1], W[i])
  <2> TAKE i \in 1..N
  <2>1. i - 1 \in 0..(N - 1) /\ i - 1 \in 0..N /\ (i - 1) + 1 = i
    BY <1>2
  <2>2. i - 1 \in T
    BY <1>7, <2>1
  <2> HIDE DEF T
  <2>3. Above(nodes, level, W[i - 1], W[(i - 1) + 1])
    BY <1>6, <2>1, <2>2
  <2> QED  BY <2>1, <2>3
<1> QED  BY <1>3, <1>7, <1>8 DEF Trod, W, N, h, nodes

\* The descent ends at the leaf whose span has the key.
LEMMA DescendFacts ==
  ASSUME NEW tree, NEW span, NEW level, NEW chain, NEW es, Upright(tree, span, level, chain, es), NEW key \in Key
  PROVE  /\ Descend(tree, key) \in DOMAIN tree.nodes /\ tree.nodes[Descend(tree, key)] \in LeafNode
         /\ key \in span[Descend(tree, key)]
<1> DEFINE nodes == tree.nodes  N == Len(nodes)  n == Way(tree, key)[N]
<1>1. Frame(nodes, span, level, tree.height)
  BY DEF Upright, Sound
<1>2. N \in Nat /\ tree.height \in 1..N
  BY <1>1 DEF Frame
<1>3. N \in 0..N /\ ~ (N < tree.height)
  BY <1>2
<1>4. n \in DOMAIN nodes /\ key \in span[n] /\ level[n] = 0
  BY <1>3, WayTrod DEF Trod
<1>5. nodes[n] \in LeafNode
  BY <1>1, <1>4 DEF Frame
<1> QED  BY <1>4, <1>5 DEF Descend

----------------------------------------------------------------------------
(* insert keeps the tree.                                                  *)

Unwinding(f, last, base, W) == f = [i \in 0..last |-> IF i = 0 THEN base ELSE Up(f[i - 1], W[last - i])]

\* The function of the way back exists.
LEMMA UnwindingExists ==
  ASSUME NEW last \in Nat, NEW base, NEW W
  PROVE  \E f : Unwinding(f, last, base, W)
<1> DEFINE Upto(k, f) == f[0] = base /\ \A i \in 1..k : f[i] = Up(f[i - 1], W[last - i])
           Fun(f) == f = [i \in 0..last |-> f[i]]
           D == {k \in 0..last : \E f : Fun(f) /\ Upto(k, f)}
<1>1. 0 \in D
  <2> DEFINE f == [i \in 0..last |-> base]
  <2>1. Fun(f) /\ f[0] = base /\ 0 \in 0..last
    OBVIOUS
  <2> HIDE DEF f
  <2>2. Upto(0, f)
    BY <2>1
  <2> QED  BY <2>1, <2>2
<1>2. ASSUME NEW k \in 0..(last - 1), k \in D PROVE k + 1 \in D
  <2>1. PICK f : Fun(f) /\ Upto(k, f)
    BY <1>2
  <2> DEFINE v == Up(f[k], W[last - (k + 1)])
             g == [i \in 0..last |-> IF i = k + 1 THEN v ELSE f[i]]
  <2>2. k + 1 \in 0..last /\ \A i \in 0..k : i \in 0..last /\ i # k + 1
    OBVIOUS
  <2>3. Fun(g) /\ g[k + 1] = v /\ \A i \in 0..k : g[i] = f[i]
    <3> HIDE DEF v
    <3> QED  BY <2>2
  <2> HIDE DEF g
  <2>4. ASSUME NEW i \in 1..(k + 1) PROVE g[i] = Up(g[i - 1], W[last - i])
    <3>1. CASE i = k + 1
      <4>1. i - 1 = k /\ k \in 0..k
        BY <3>1
      <4>2. g[i - 1] = f[k]
        BY <2>3, <4>1
      <4> QED  BY <2>3, <3>1, <4>2, Zenon
    <3>2. CASE i # k + 1
      <4>1. i \in 1..k /\ i \in 0..k /\ i - 1 \in 0..k
        BY <3>2
      <4> QED  BY <2>1, <2>3, <4>1
    <3> QED  BY <3>1, <3>2
  <2>5. g[0] = base
    <3>1. 0 \in 0..k
      OBVIOUS
    <3> QED  BY <2>1, <2>3, <3>1
  <2> QED  BY <2>2, <2>3, <2>4, <2>5
<1>3. \A k \in 0..last : k \in D
  <2> HIDE DEF D
  <2>1. \A k \in 0..(last - 1) : k \in D => k + 1 \in D
    BY <1>2
  <2> QED  BY <1>1, <2>1, InductionTo
<1>4. PICK f : Fun(f) /\ Upto(last, f)
  <2>1. last \in D
    BY <1>3
  <2> QED  BY <2>1
<1>5. \A i \in 0..last : f[i] = IF i = 0 THEN base ELSE Up(f[i - 1], W[last - i])
  <2> TAKE i \in 0..last
  <2>1. i = 0 \/ (i # 0 /\ i \in 1..last)
    OBVIOUS
  <2> QED  BY <1>4, <2>1, Zenon
<1>6. f = [i \in 0..last |-> IF i = 0 THEN base ELSE Up(f[i - 1], W[last - i])]
  BY <1>4, <1>5, Zenon
<1> QED  BY <1>6 DEF Unwinding

\* What is below the root once the insertion is back there.
LEMMA InsertionReturns ==
  ASSUME NEW tree, NEW span, NEW level, NEW chain, NEW es, Upright(tree, span, level, chain, es),
         IsFiniteSet(es), Narrow(tree.nodes), Roomy(tree.nodes) \/ Heavy(es),
         NEW key \in Key, NEW value \in Nat, NEW e, e = [key |-> key, value |-> value], e \notin es
  PROVE  Underway(InsertBelow(tree, key, value), tree.nodes, span, level, tree.height, es \cup {e}, tree.root)
<1> DEFINE nodes == tree.nodes  last == Len(nodes)  h == tree.height  W == Way(tree, key)
           base == InsertLeaf(nodes, Descend(tree, key), key, value)  new == es \cup {e}
<1>1. Sound(nodes, span, level, h, chain, es, span)
  BY DEF Upright
<1>2. nodes \in Seq(Node) /\ level \in [DOMAIN nodes -> 0..(h - 1)] /\ last \in Nat
  BY <1>1 DEF Sound, Frame
<1>3. Trod(W, tree, span, level, key)
  BY WayTrod
<1>4. W[0] = tree.root /\ \A i \in 1..last : Above(nodes, level, W[i - 1], W[i])
  BY <1>3 DEF Trod
<1>5. W[last] = Descend(tree, key)
  BY DEF Descend
<1>6. Underway(base, nodes, span, level, h, new, W[last])
  <2>1. W[last] \in DOMAIN nodes /\ nodes[W[last]] \in LeafNode /\ key \in span[W[last]]
    BY <1>5, DescendFacts
  <2>2. base = InsertLeaf(nodes, W[last], key, value)
    BY <1>5
  <2> HIDE DEF base, W, last, h, nodes
  <2>3. Narrow(nodes) /\ (Roomy(nodes) \/ Heavy(es))
    BY DEF nodes
  <2> QED  BY <1>1, <2>1, <2>2, <2>3, InsertionBegins
<1> DEFINE back[i \in 0..last] == IF i = 0 THEN base ELSE Up(back[i - 1], W[last - i])
<1>7. InsertBelow(tree, key, value) = back[last]
  BY DEF InsertBelow
<1> HIDE DEF base, W, h, new
<1>8. back[0] = base /\ \A i \in 1..last : back[i] = Up(back[i - 1], W[last - i])
  <2>1. back = [i \in 0..last |-> IF i = 0 THEN base ELSE Up(back[i - 1], W[last - i])]
    <3> HIDE DEF last
    <3>1. PICK f : Unwinding(f, last, base, W)
      BY <1>2, UnwindingExists
    <3>2. f = [i \in 0..last |-> IF i = 0 THEN base ELSE Up(f[i - 1], W[last - i])]
      BY <3>1 DEF Unwinding
    <3> QED  BY <3>2, Zenon
  <2> HIDE DEF back, last
  <2> QED  BY <1>2, <2>1
<1> HIDE DEF back, last, nodes
<1> DEFINE T == {i \in 0..last : Underway(back[i], nodes, span, level, h, new, W[last - i])}
<1>9. 0 \in T
  <2>1. last - 0 = last /\ 0 \in 0..last
    BY <1>2
  <2> QED  BY <1>6, <1>8, <2>1
<1>10. ASSUME NEW i \in 0..(last - 1), i \in T PROVE i + 1 \in T
  <2>1. PICK j \in 1..last : j = last - i
    BY <1>2
  <2>2. j - 1 = last - (i + 1) /\ i + 1 \in 1..last /\ (i + 1) - 1 = i /\ i + 1 \in 0..last
    BY <1>2, <2>1
  <2>3. Above(nodes, level, W[j - 1], W[j])
    BY <1>4
  <2>4. Underway(back[i], nodes, span, level, h, new, W[j])
    BY <1>10, <2>1
  <2>5. back[i + 1] = Up(back[i], W[j - 1])
    BY <1>8, <2>2
  <2>6. Underway(back[i + 1], nodes, span, level, h, new, W[j - 1])
    BY <1>2, <2>3, <2>4, <2>5, InsertionRises
  <2> QED  BY <2>2, <2>6
<1> HIDE DEF T
<1>11. \A i \in 0..last : i \in T
  <2>1. \A i \in 0..(last - 1) : i \in T => i + 1 \in T
    BY <1>10
  <2> QED  BY <1>2, <1>9, <2>1, InductionTo
<1>12. last \in T /\ last - last = 0
  BY <1>2, <1>11
<1>13. Underway(back[last], nodes, span, level, h, new, W[0])
  BY <1>12 DEF T
<1> QED  BY <1>4, <1>7, <1>13 DEF nodes, h, new

\* A tree that keeps these entries.
TreeRecord == [nodes : Seq(Node), root : Nat, height : Nat, entries : Nat]

Keeps(tree, es) ==
  /\ tree \in TreeRecord
  /\ \E span, level, chain : Upright(tree, span, level, chain, es)
  /\ Narrow(tree.nodes) /\ (Roomy(tree.nodes) \/ Heavy(es))
  /\ IsFiniteSet(es) /\ tree.entries = Cardinality(es)

\* insert adds exactly one entry, whatever it has to split, and keeps the tree
\* balanced and its runs of equal keys whole (btree.rs:113-205).
THEOREM TreeInsertKeeps ==
  ASSUME NEW tree, NEW es, Keeps(tree, es),
         NEW key \in Key, NEW value \in Nat, NEW e, e = [key |-> key, value |-> value], e \notin es
  PROVE  Keeps(TreeInsert(tree, key, value), es \cup {e})
<1> DEFINE nodes == tree.nodes  h == tree.height  root == tree.root
           done == InsertBelow(tree, key, value)  new == es \cup {e}
<1>1. PICK span, level, chain : Upright(tree, span, level, chain, es)
  BY DEF Keeps
<1>2. tree \in TreeRecord /\ IsFiniteSet(es) /\ tree.entries = Cardinality(es) /\ Narrow(nodes) /\ (Roomy(nodes) \/ Heavy(es))
  BY DEF Keeps
<1>3. IsFiniteSet(new) /\ Cardinality(new) = Cardinality(es) + 1
  BY <1>2, FS_AddElement
<1>4. Cardinality(es) \in Nat
  BY <1>2, FS_CardinalityType
<1>5. Underway(done, nodes, span, level, h, new, root)
  BY <1>1, <1>2, InsertionReturns
<1>6. root \in DOMAIN nodes /\ span[root] = Key /\ level[root] = h - 1
  BY <1>1 DEF Upright, Rooted
<1> HIDE DEF new, done, nodes
<1>7. PICK sp, lv, ch : Unwound(done, sp, lv, ch, nodes, span, level, h, new, root)
  BY <1>5 DEF Underway
<1>8. /\ Sound(done.nodes, sp, lv, h, ch, new, Merged(done, sp, root))
      /\ done.split.is => Halves(sp, lv, root, done.split.right, done.split.sep)
      /\ Narrow(done.nodes) /\ (Roomy(done.nodes) \/ Heavy(new)) /\ Len(nodes) <= Len(done.nodes)
      /\ root \in DOMAIN done.nodes /\ lv[root] = level[root]
      /\ Merged(done, sp, root)[root] = span[root]
  <2>1. level[root] \in Int
    BY <1>1, <1>6 DEF Upright, Sound, Frame, nodes
  <2>2. level[root] >= level[root]
    BY <2>1
  <2> QED  BY <1>6, <1>7, <2>2 DEF Unwound
<1>9. done.nodes \in Seq(Node) /\ h \in Nat /\ root \in Nat
  <2>1. done.nodes \in Seq(Node)
    BY <1>8 DEF Sound, Frame
  <2> QED  BY <1>2, <2>1 DEF TreeRecord
<1>10. CASE done.split.is
  <2> DEFINE grown == Append(done.nodes, Internal(<<done.split.sep>>, <<root, done.split.right>>))
             res == [nodes |-> grown, root |-> Len(grown), height |-> h + 1, entries |-> tree.entries + 1]
  <2>1. TreeInsert(tree, key, value) = res
    BY <1>10 DEF TreeInsert, done
  <2>2. res.nodes = grown /\ res.root = Len(grown) /\ res.height = h + 1 /\ res.entries = tree.entries + 1
    OBVIOUS
  <2>3. Merged(done, sp, root) = Joined(sp, root, done.split.right)
    BY <1>10 DEF Merged
  <2> DEFINE r == done.split.right  sep == done.split.sep  low == done.nodes
  <2>4. Sound(low, sp, lv, h, ch, new, Joined(sp, root, r)) /\ Halves(sp, lv, root, r, sep)
        /\ lv[root] = h - 1 /\ Joined(sp, root, r)[root] = Key /\ Narrow(low) /\ (Roomy(low) \/ Heavy(new))
        /\ grown = Append(low, Internal(<<sep>>, <<root, r>>))
    BY <1>6, <1>8, <1>10, <2>3
  <2> HIDE DEF grown, r, sep, low, root, h
  <2>5. Topped(grown, h + 1, ch, new)
    BY <2>4, RootRaised
  <2>6. PICK s, l : /\ Sound(grown, s, l, h + 1, ch, new, s)
                    /\ s[Len(grown)] = Key /\ l[Len(grown)] = (h + 1) - 1
    BY <2>5 DEF Topped
  <2>7. Narrow(grown) /\ (Roomy(grown) \/ Heavy(new)) /\ grown \in Seq(Node) /\ Len(grown) \in DOMAIN grown
    BY <2>5 DEF Topped
  <2>8. res \in TreeRecord
    <3>1. Len(grown) \in Nat /\ h + 1 \in Nat /\ tree.entries + 1 \in Nat
      BY <1>2, <1>4, <1>9, <2>7
    <3> QED  BY <2>7, <3>1 DEF TreeRecord
  <2> HIDE DEF res
  <2>9. Upright(res, s, l, ch, new)
    BY <2>2, <2>6, <2>7 DEF Upright, Rooted
  <2>10. Keeps(res, new)
    BY <1>2, <1>3, <2>2, <2>7, <2>8, <2>9 DEF Keeps
  <2> QED  BY <2>1, <2>10 DEF new
<1>11. CASE ~ done.split.is
  <2> DEFINE res == [tree EXCEPT !.nodes = done.nodes, !.entries = @ + 1]
  <2>1. TreeInsert(tree, key, value) = res
    BY <1>11 DEF TreeInsert, done
  <2>2. tree.entries \in Nat
    BY <1>2, <1>4
  <2>3. /\ res \in TreeRecord /\ res.nodes = done.nodes /\ res.root = root /\ res.height = h
        /\ res.entries = tree.entries + 1
    <3> DEFINE low == done.nodes  more == tree.entries + 1
    <3>1. low \in Seq(Node) /\ more \in Nat
      BY <1>9, <2>2
    <3>2. res = [tree EXCEPT !.nodes = low, !.entries = more]
      OBVIOUS
    <3> HIDE DEF low, more, res
    <3>3. res \in TreeRecord /\ res.nodes = low /\ res.root = tree.root /\ res.height = tree.height /\ res.entries = more
      <4>1. tree \in [nodes : Seq(Node), root : Nat, height : Nat, entries : Nat]
        BY <1>2 DEF TreeRecord
      <4> QED  BY <3>1, <3>2, <4>1 DEF TreeRecord
    <3> QED  BY <3>3 DEF low, more
  <2>4. Merged(done, sp, root) = sp
    BY <1>11 DEF Merged
  <2> HIDE DEF res, h, root
  <2>5. Sound(done.nodes, sp, lv, h, ch, new, sp) /\ root \in DOMAIN done.nodes /\ sp[root] = Key /\ lv[root] = h - 1
    BY <1>6, <1>8, <2>4
  <2>6. Upright(res, sp, lv, ch, new)
    BY <2>3, <2>5 DEF Upright, Rooted
  <2>7. Keeps(res, new)
    BY <1>2, <1>3, <1>8, <2>3, <2>6 DEF Keeps
  <2> QED  BY <2>1, <2>7 DEF new
<1> QED  BY <1>10, <1>11

\* A tree of one empty leaf.
LEMMA EmptyTreeKeeps == Keeps(EmptyTree, {})
<1> DEFINE leaf == Leaf(<< >>, NoNode)  nodes == <<leaf>>
           span == [n \in {1} |-> Key]  level == [n \in {1} |-> 0]  chain == <<1>>
<1>1. leaf \in LeafNode /\ leaf.entries = << >> /\ leaf.next = NoNode
  <2>1. \A none : none = << >> => none \in Seq(Entry)
    OBVIOUS
  <2>2. NoNode \in Nat /\ << >> \in Seq(Entry)
    BY <2>1 DEF NoNode
  <2> QED  BY <2>2, NodesMade
<1>2. leaf \in Node /\ leaf \notin InnerNode
  BY <1>1, NodeKinds DEF Node
<1> HIDE DEF leaf
<1>3. nodes \in Seq(Node) /\ Len(nodes) = 1 /\ DOMAIN nodes = {1} /\ nodes[1] = leaf
  BY <1>2
<1>4. span \in [{1} -> SUBSET Key] /\ span[1] = Key /\ level \in [{1} -> 0..0] /\ level[1] = 0
  OBVIOUS
<1>5. chain \in Seq({1}) /\ Len(chain) = 1 /\ DOMAIN chain = {1} /\ chain[1] = 1
  OBVIOUS
<1> HIDE DEF nodes, span, level, chain
<1>6. Key # {}
  <2>1. \A none : none = << >> => none \in Key
    BY DEF Key
  <2> QED  BY <2>1
<1>7. Frame(nodes, span, level, 1)
  <2>1. 1 \in 1..Len(nodes) /\ 1 - 1 = 0
    BY <1>3
  <2>2. span \in [DOMAIN nodes -> SUBSET Key] /\ level \in [DOMAIN nodes -> 0..(1 - 1)]
    BY <1>3, <1>4, <2>1
  <2>3. \A n \in DOMAIN nodes : n = 1
    BY <1>3
  <2>4. \A n \in DOMAIN nodes : span[n] # {} /\ (nodes[n] \in LeafNode <=> level[n] = 0)
    BY <1>1, <1>3, <1>4, <1>6, <2>3
  <2>5. \A m, n \in DOMAIN nodes : m # n /\ level[m] = level[n] => span[m] \cap span[n] = {}
    BY <2>3, Zenon
  <2>6. \A k \in Key, l \in 0..(1 - 1) : \E n \in DOMAIN nodes : level[n] = l /\ k \in span[n]
    <3> TAKE k \in Key, l \in 0..(1 - 1)
    <3>1. l = 0 /\ 1 \in DOMAIN nodes
      BY <1>3
    <3> QED  BY <1>4, <3>1
  <2> QED  BY <1>3, <2>1, <2>2, <2>4, <2>5, <2>6 DEF Frame
<1>8. \A n \in DOMAIN nodes : n = 1 /\ nodes[n] \in LeafNode /\ nodes[n] \notin InnerNode /\ nodes[n].entries = << >>
  BY <1>1, <1>2, <1>3
<1>9. Stocked(nodes, span)
  <2>1. LeafOk(leaf, Key)
    BY <1>1 DEF LeafOk, Sorted
  <2> QED  BY <1>3, <1>4, <1>8, <2>1 DEF Stocked
<1>10. Linked(nodes, span, level, span) /\ Narrow(nodes)
  BY <1>8 DEF Linked, Narrow
<1>11. Chained(nodes, span, chain)
  <2>1. \A i \in DOMAIN chain : i = 1 /\ i = Len(chain) /\ chain[i] = 1
    BY <1>5
  <2>2. \A i \in DOMAIN chain : /\ nodes[chain[i]] \in LeafNode
                                /\ nodes[chain[i]].next = IF i = Len(chain) THEN NoNode ELSE chain[i + 1]
    BY <1>1, <1>3, <2>1, Zenon
  <2>3. \A n \in DOMAIN nodes : \E i \in DOMAIN chain : chain[i] = n
    BY <1>3, <1>5
  <2>4. \A i, j \in DOMAIN chain : ~ (i < j)
    BY <1>5
  <2>5. chain \in Seq(DOMAIN nodes) /\ Len(chain) <= Len(nodes)
    BY <1>3, <1>5
  <2> QED  BY <2>2, <2>3, <2>4, <2>5 DEF Chained
<1>12. Holds(nodes, {})
  <2>1. \A e : ~ InLeaf(nodes, e)
    <3>1. DOMAIN << >> = {}
      OBVIOUS
    <3> QED  BY <1>8, <3>1 DEF InLeaf, OnList
  <2> QED  BY <2>1 DEF Holds
<1>13. Roomy(nodes)
  <2>1. Len(leaf.entries) = 0 /\ 0 <= LeafMax
    BY <1>1, TreeBounds
  <2> QED  BY <1>3, <2>1 DEF Roomy
<1>14. EmptyTree = [nodes |-> nodes, root |-> 1, height |-> 1, entries |-> 0]
  BY DEF EmptyTree, nodes, leaf
<1>15. /\ EmptyTree.nodes = nodes /\ EmptyTree.root = 1 /\ EmptyTree.height = 1 /\ EmptyTree.entries = 0
       /\ EmptyTree \in TreeRecord
  BY <1>3, <1>14 DEF TreeRecord
<1>16. Upright(EmptyTree, span, level, chain, {})
  <2>1. Sound(nodes, span, level, 1, chain, {}, span)
    BY <1>7, <1>9, <1>10, <1>11, <1>12 DEF Sound
  <2>2. 1 \in DOMAIN nodes /\ 1 - 1 = 0
    BY <1>3
  <2> QED  BY <1>4, <1>15, <2>1, <2>2 DEF Upright, Rooted
<1>17. IsFiniteSet({}) /\ Cardinality({}) = 0
  BY FS_EmptySet
<1> QED  BY <1>10, <1>13, <1>15, <1>16, <1>17 DEF Keeps

----------------------------------------------------------------------------
(* The shape of a tree that keeps its entries.                             *)

\* Every node but the root has a parent.
LEMMA ParentExists ==
  ASSUME NEW nodes, NEW span, NEW level, NEW h, Frame(nodes, span, level, h), Linked(nodes, span, level, span),
         NEW n \in DOMAIN nodes, level[n] + 1 \in 0..(h - 1)
  PROVE  \E p \in DOMAIN nodes : /\ nodes[p] \in InnerNode /\ level[p] = level[n] + 1
                                 /\ \E i \in DOMAIN nodes[p].children : nodes[p].children[i] = n
<1>1. /\ nodes \in Seq(Node) /\ span \in [DOMAIN nodes -> SUBSET Key] /\ level \in [DOMAIN nodes -> 0..(h - 1)]
      /\ \A m \in DOMAIN nodes : span[m] # {} /\ (nodes[m] \in LeafNode <=> level[m] = 0)
      /\ \A a, b \in DOMAIN nodes : a # b /\ level[a] = level[b] => span[a] \cap span[b] = {}
      /\ \A k \in Key, l \in 0..(h - 1) : \E m \in DOMAIN nodes : level[m] = l /\ k \in span[m]
  BY DEF Frame
<1>2. PICK k \in span[n] : k \in Key
  BY <1>1
<1>3. PICK p \in DOMAIN nodes : level[p] = level[n] + 1 /\ k \in span[p]
  BY <1>1, <1>2
<1>4. level[n] \in Nat /\ level[p] # 0 /\ level[p] - 1 = level[n]
  <2>1. level[n] \in Nat
    BY <1>1
  <2> QED  BY <1>3, <2>1
<1>5. nodes[p] \in InnerNode
  <2>1. nodes[p] \in Node /\ nodes[p] \notin LeafNode
    BY <1>1, <1>4
  <2> QED  BY <2>1, NodeKinds
<1>6. InnerOk(nodes[p], span[p], level[p], level, span)
  BY <1>5 DEF Linked
<1>7. Ordered(nodes[p].keys) /\ Len(nodes[p].children) = Len(nodes[p].keys) + 1 /\ span[p] \in SUBSET Key
  BY <1>1, <1>6 DEF InnerOk
<1>8. PICK i \in DOMAIN nodes[p].children : k \in Slot(span[p], nodes[p].keys, i)
  BY <1>3, <1>5, <1>7, ChildFacts
<1> DEFINE c == nodes[p].children[i]
<1>9. c \in DOMAIN level /\ level[c] = level[p] - 1 /\ span[c] = Slot(span[p], nodes[p].keys, i)
  BY <1>6 DEF InnerOk
<1> HIDE DEF c
<1>10. c \in DOMAIN nodes /\ level[c] = level[n] /\ k \in span[c]
  BY <1>1, <1>4, <1>8, <1>9
<1>11. c = n
  BY <1>1, <1>2, <1>10
<1> QED  BY <1>3, <1>5, <1>11 DEF c

\* Nor has it two.
LEMMA ParentUnique ==
  ASSUME NEW nodes, NEW span, NEW level, NEW h, Frame(nodes, span, level, h), Linked(nodes, span, level, span),
         NEW m \in DOMAIN nodes, nodes[m] \in InnerNode, NEW i \in DOMAIN nodes[m].children,
         NEW n \in DOMAIN nodes, nodes[n] \in InnerNode, NEW j \in DOMAIN nodes[n].children,
         nodes[m].children[i] = nodes[n].children[j]
  PROVE  m = n /\ i = j
<1>1. /\ nodes \in Seq(Node) /\ span \in [DOMAIN nodes -> SUBSET Key] /\ level \in [DOMAIN nodes -> 0..(h - 1)]
      /\ \A q \in DOMAIN nodes : span[q] # {}
      /\ \A a, b \in DOMAIN nodes : a # b /\ level[a] = level[b] => span[a] \cap span[b] = {}
  BY DEF Frame
<1> DEFINE c == nodes[m].children[i]
<1>2. InnerOk(nodes[m], span[m], level[m], level, span) /\ InnerOk(nodes[n], span[n], level[n], level, span)
  BY DEF Linked
<1>3. c \in DOMAIN level /\ level[c] = level[m] - 1 /\ span[c] = Slot(span[m], nodes[m].keys, i)
  BY <1>2 DEF InnerOk
<1>4. level[c] = level[n] - 1 /\ span[c] = Slot(span[n], nodes[n].keys, j)
  BY <1>2 DEF InnerOk
<1> HIDE DEF c
<1>5. level[m] \in Int /\ level[n] \in Int
  BY <1>1
<1>6. level[m] = level[n]
  BY <1>3, <1>4, <1>5
<1>7. PICK k \in span[c] : TRUE
  BY <1>1, <1>3
<1>8. k \in span[m] /\ k \in span[n]
  BY <1>3, <1>4, <1>7 DEF Slot
<1>9. m = n
  BY <1>1, <1>6, <1>8
<1>10. nodes[m].keys \in Seq(Key) /\ nodes[m].children \in Seq(Nat) /\ nodes[n].children \in Seq(Nat) /\ span[m] \in SUBSET Key
  BY <1>1, NodeKinds
<1>11. Ordered(nodes[m].keys) /\ Len(nodes[m].children) = Len(nodes[m].keys) + 1
  BY <1>2 DEF InnerOk
<1>12. i \in 1..(Len(nodes[m].keys) + 1) /\ j \in 1..(Len(nodes[m].keys) + 1)
  <2>1. DOMAIN nodes[m].children = 1..(Len(nodes[m].keys) + 1)
    BY <1>10, <1>11
  <2>2. j \in DOMAIN nodes[m].children
    BY <1>9
  <2> QED  BY <2>1, <2>2
<1>13. k \in Slot(span[m], nodes[m].keys, i) /\ k \in Slot(span[m], nodes[m].keys, j)
  BY <1>3, <1>4, <1>7, <1>9
<1>14. i = j
  BY <1>8, <1>10, <1>11, <1>12, <1>13, SlotsDisjoint
<1> QED  BY <1>9, <1>14

\* The kinds of the nodes of a tree.
LEMMA KindsOf ==
  ASSUME NEW tree, tree.nodes \in Seq(Node)
  PROVE  /\ Leaves(tree) = {n \in DOMAIN tree.nodes : tree.nodes[n] \in LeafNode}
         /\ Inner(tree) = {n \in DOMAIN tree.nodes : tree.nodes[n] \in InnerNode}
<1>1. \A n \in DOMAIN tree.nodes : /\ tree.nodes[n] \in LeafNode \/ tree.nodes[n] \in InnerNode
                                   /\ tree.nodes[n] \in LeafNode => tree.nodes[n].leaf /\ tree.nodes[n] \notin InnerNode
                                   /\ tree.nodes[n] \in InnerNode => ~ tree.nodes[n].leaf
  <2> TAKE n \in DOMAIN tree.nodes
  <2>1. tree.nodes[n] \in Node
    OBVIOUS
  <2> QED  BY <2>1, NodeKinds
<1>2. \A n \in DOMAIN tree.nodes : tree.nodes[n].leaf <=> tree.nodes[n] \in LeafNode
  BY <1>1
<1>3. \A n \in DOMAIN tree.nodes : ~ tree.nodes[n].leaf <=> tree.nodes[n] \in InnerNode
  BY <1>1
<1> QED  BY <1>2, <1>3 DEF Leaves, Inner

\* The nodes at a level.
AtLevel(tree, level, l) == {n \in DOMAIN tree.nodes : level[n] = l}

\* The children of the nodes of a level are the nodes of the next.
LEMMA ChildrenOfLevel ==
  ASSUME NEW tree, NEW span, NEW level, NEW chain, NEW es, Upright(tree, span, level, chain, es),
         NEW l \in 0..(tree.height - 1), l + 1 \in 0..(tree.height - 1)
  PROVE  UNION {Children(tree.nodes[n]) : n \in AtLevel(tree, level, l + 1) \ Leaves(tree)} = AtLevel(tree, level, l)
<1> DEFINE nodes == tree.nodes  h == tree.height
           U == UNION {Children(nodes[n]) : n \in AtLevel(tree, level, l + 1) \ Leaves(tree)}
<1>1. Frame(nodes, span, level, h) /\ Linked(nodes, span, level, span)
  BY DEF Upright, Sound
<1>2. nodes \in Seq(Node) /\ level \in [DOMAIN nodes -> 0..(h - 1)] /\ l \in Nat
  BY <1>1 DEF Frame
<1>3. Leaves(tree) = {n \in DOMAIN nodes : nodes[n] \in LeafNode}
  BY <1>2, KindsOf
<1>4. \A c : c \in U <=> \E n \in AtLevel(tree, level, l + 1) \ Leaves(tree) : c \in Children(nodes[n])
  OBVIOUS
<1> HIDE DEF U
<1>5. ASSUME NEW c \in U PROVE c \in AtLevel(tree, level, l)
  <2>1. PICK n \in DOMAIN nodes : level[n] = l + 1 /\ nodes[n] \notin LeafNode /\ c \in Children(nodes[n])
    BY <1>3, <1>4 DEF AtLevel
  <2>2. nodes[n] \in InnerNode
    BY <1>2, <2>1, NodeKinds
  <2>3. PICK i \in DOMAIN nodes[n].children : c = nodes[n].children[i]
    BY <2>1 DEF Children
  <2>4. c \in DOMAIN level /\ level[c] = level[n] - 1
    BY <1>1, <2>2, <2>3 DEF Linked, InnerOk
  <2>5. level[c] = l
    BY <1>2, <2>1, <2>4
  <2> QED  BY <1>2, <2>4, <2>5 DEF AtLevel
<1>6. ASSUME NEW c \in AtLevel(tree, level, l) PROVE c \in U
  <2>1. c \in DOMAIN nodes /\ level[c] = l
    BY DEF AtLevel
  <2>2. level[c] + 1 \in 0..(h - 1)
    BY <2>1
  <2>3. PICK p \in DOMAIN nodes : /\ nodes[p] \in InnerNode /\ level[p] = level[c] + 1
                                  /\ \E i \in DOMAIN nodes[p].children : nodes[p].children[i] = c
    BY <1>1, <2>1, <2>2, ParentExists
  <2>4. c \in Children(nodes[p])
    BY <2>3 DEF Children
  <2>5. nodes[p] \notin LeafNode
    BY <2>3, NodeKinds
  <2>6. p \in AtLevel(tree, level, l + 1) \ Leaves(tree)
    BY <1>3, <2>1, <2>3, <2>5 DEF AtLevel
  <2> QED  BY <1>4, <2>4, <2>6
<1>7. U = AtLevel(tree, level, l)
  BY <1>5, <1>6
<1> QED  BY <1>7 DEF U

\* The root is alone at its level.
LEMMA RootAlone ==
  ASSUME NEW tree, NEW span, NEW level, NEW chain, NEW es, Upright(tree, span, level, chain, es)
  PROVE  AtLevel(tree, level, tree.height - 1) = {tree.root}
<1> DEFINE nodes == tree.nodes
<1>1. /\ span \in [DOMAIN nodes -> SUBSET Key] /\ \A n \in DOMAIN nodes : span[n] # {}
      /\ \A m, n \in DOMAIN nodes : m # n /\ level[m] = level[n] => span[m] \cap span[n] = {}
  BY DEF Upright, Sound, Frame
<1>2. tree.root \in DOMAIN nodes /\ span[tree.root] = Key /\ level[tree.root] = tree.height - 1
  BY DEF Upright, Rooted
<1>3. ASSUME NEW n \in DOMAIN nodes, level[n] = tree.height - 1 PROVE n = tree.root
  BY <1>1, <1>2, <1>3
<1> QED  BY <1>2, <1>3 DEF AtLevel
ChildrenOf(tree, S) == UNION {Children(tree.nodes[n]) : n \in S \ Leaves(tree)}

\* The nodes of each depth.
LEMMA LevelsAre ==
  ASSUME NEW tree, NEW span, NEW level, NEW chain, NEW es, Upright(tree, span, level, chain, es)
  PROVE  /\ DOMAIN Levels(tree) = 0..(tree.height - 1)
         /\ \A d \in 0..(tree.height - 1) : Levels(tree)[d] = AtLevel(tree, level, tree.height - 1 - d)
<1> DEFINE top == tree.height - 1
           at == [d \in 0..top |-> AtLevel(tree, level, top - d)]
           L == Levels(tree)
<1>1. top \in Nat
  BY DEF Upright, Sound, Frame
<1>2. \A d \in 1..top : at[d] = ChildrenOf(tree, at[d - 1])
  <2> TAKE d \in 1..top
  <2>1. PICK l \in 0..top : l = top - d /\ l + 1 = top - (d - 1) /\ l + 1 \in 0..top
    BY <1>1
  <2>2. d \in 0..top /\ d - 1 \in 0..top
    BY <1>1
  <2>3. ChildrenOf(tree, AtLevel(tree, level, l + 1)) = AtLevel(tree, level, l)
    BY <2>1, ChildrenOfLevel DEF ChildrenOf
  <2> QED  BY <2>1, <2>2, <2>3
<1>3. at[0] = {tree.root}
  <2>1. 0 \in 0..top /\ top - 0 = top
    BY <1>1
  <2>2. AtLevel(tree, level, top) = {tree.root}
    BY RootAlone
  <2> QED  BY <2>1, <2>2
<1>4. at = [d \in 0..top |-> IF d = 0 THEN {tree.root} ELSE ChildrenOf(tree, at[d - 1])]
  <2>1. \A d \in 0..top : at[d] = IF d = 0 THEN {tree.root} ELSE ChildrenOf(tree, at[d - 1])
    <3> TAKE d \in 0..top
    <3>1. d = 0 \/ (d # 0 /\ d \in 1..top)
      BY <1>1
    <3> HIDE DEF at
    <3> QED  BY <1>2, <1>3, <3>1
  <2>2. at = [d \in 0..top |-> at[d]]
    BY DEF at
  <2> QED  BY <2>1, <2>2, Zenon
<1>5. L = [d \in 0..top |-> IF d = 0 THEN {tree.root} ELSE ChildrenOf(tree, L[d - 1])]
  <2> DEFINE f == CHOOSE g : g = [d \in 0..top |-> IF d = 0 THEN {tree.root} ELSE ChildrenOf(tree, g[d - 1])]
  <2>1. L = f
    BY DEF Levels, ChildrenOf
  <2>2. f = [d \in 0..top |-> IF d = 0 THEN {tree.root} ELSE ChildrenOf(tree, f[d - 1])]
    <3> HIDE DEF at
    <3> QED  BY <1>4, Zenon
  <2> HIDE DEF f
  <2> QED  BY <2>1, <2>2
<1> HIDE DEF L, at, top
<1>6. DOMAIN L = 0..top /\ L[0] = {tree.root} /\ \A d \in 1..top : L[d] = ChildrenOf(tree, L[d - 1])
  <2> DEFINE first == {tree.root}
  <2>1. L = [d \in 0..top |-> IF d = 0 THEN first ELSE ChildrenOf(tree, L[d - 1])]
    BY <1>5, Zenon
  <2> HIDE DEF first
  <2>2. DOMAIN L = 0..top /\ \A d \in 0..top : L[d] = IF d = 0 THEN first ELSE ChildrenOf(tree, L[d - 1])
    BY <2>1
  <2>3. 0 \in 0..top /\ \A d \in 1..top : d \in 0..top /\ d # 0
    BY <1>1
  <2>4. L[0] = first /\ \A d \in 1..top : L[d] = ChildrenOf(tree, L[d - 1])
    BY <2>2, <2>3, Zenon
  <2> QED  BY <2>2, <2>4 DEF first
<1> DEFINE T == {d \in 0..top : L[d] = at[d]}
<1>7. 0 \in T
  <2>1. L[0] = at[0]
    BY <1>3, <1>6, Zenon
  <2>2. 0 \in 0..top
    BY <1>1
  <2> QED  BY <2>1, <2>2
<1>8. ASSUME NEW d \in 0..(top - 1), d \in T PROVE d + 1 \in T
  <2>1. d + 1 \in 1..top /\ (d + 1) - 1 = d /\ d + 1 \in 0..top
    BY <1>1
  <2>2. L[d + 1] = ChildrenOf(tree, L[d]) /\ at[d + 1] = ChildrenOf(tree, at[d]) /\ L[d] = at[d]
    BY <1>2, <1>6, <1>8, <2>1
  <2> QED  BY <2>1, <2>2
<1> HIDE DEF T
<1>9. \A d \in 0..top : d \in T
  <2>1. \A d \in 0..(top - 1) : d \in T => d + 1 \in T
    BY <1>8
  <2> QED  BY <1>1, <1>7, <2>1, InductionTo
<1>10. \A d \in 0..top : L[d] = AtLevel(tree, level, top - d)
  BY <1>9 DEF T, at
<1> QED  BY <1>6, <1>10 DEF L, top

\* Entries of the same key are in one leaf.
LEMMA LeavesApart ==
  ASSUME NEW nodes, NEW span, NEW level, NEW h, Frame(nodes, span, level, h), Stocked(nodes, span),
         NEW m \in DOMAIN nodes, nodes[m] \in LeafNode, NEW n \in DOMAIN nodes, nodes[n] \in LeafNode,
         NEW i \in DOMAIN nodes[m].entries, nodes[m].entries[i].key \in span[n]
  PROVE  m = n
<1>1. nodes[m].entries[i].key \in span[m]
  BY DEF Stocked, LeafOk
<1>2. level[m] = 0 /\ level[n] = 0
  BY DEF Frame
<1> QED  BY <1>1, <1>2 DEF Frame

\* The tree is balanced and its leaves are apart.
LEMMA KeepsShape ==
  ASSUME NEW tree, NEW es, Keeps(tree, es)
  PROVE  WellShaped(tree)
<1>1. PICK span, level, chain : Upright(tree, span, level, chain, es)
  BY DEF Keeps
<1> DEFINE nodes == tree.nodes  h == tree.height  top == tree.height - 1  L == Levels(tree)
<1>2. Frame(nodes, span, level, h) /\ Linked(nodes, span, level, span) /\ Stocked(nodes, span)
  BY <1>1 DEF Upright, Sound
<1>3. nodes \in Seq(Node) /\ level \in [DOMAIN nodes -> 0..top] /\ top \in Nat
      /\ \A n \in DOMAIN nodes : nodes[n] \in LeafNode <=> level[n] = 0
  BY <1>2 DEF Frame
<1>4. Leaves(tree) = {n \in DOMAIN nodes : nodes[n] \in LeafNode} /\ Inner(tree) = {n \in DOMAIN nodes : nodes[n] \in InnerNode}
  BY <1>3, KindsOf
<1>5. DOMAIN L = 0..top /\ \A d \in 0..top : L[d] = AtLevel(tree, level, top - d)
  BY <1>1, LevelsAre
<1>6. Narrow(nodes)
  BY DEF Keeps
<1> HIDE DEF L, top, h
<1>7. \A n \in DOMAIN nodes : \E d \in DOMAIN L :
        /\ n \in L[d] /\ \A o \in DOMAIN L : n \in L[o] => o = d
        /\ nodes[n].leaf <=> d = top
  <2> TAKE n \in DOMAIN nodes
  <2>1. PICK d \in 0..top : d = top - level[n]
    BY <1>3
  <2>2. level[n] \in Nat /\ top - d = level[n] /\ (d = top <=> level[n] = 0)
    BY <1>3, <2>1
  <2>3. n \in L[d]
    BY <1>5, <2>2 DEF AtLevel
  <2>4. \A o \in DOMAIN L : n \in L[o] => o = d
    <3> TAKE o \in DOMAIN L
    <3> HAVE n \in L[o]
    <3>1. o \in 0..top /\ level[n] = top - o
      BY <1>5 DEF AtLevel
    <3> QED  BY <1>3, <2>2, <3>1
  <2>5. nodes[n].leaf <=> nodes[n] \in LeafNode
    <3>1. nodes[n] \in Node
      BY <1>3
    <3> QED  BY <3>1, NodeKinds
  <2> QED  BY <1>3, <1>5, <2>2, <2>3, <2>4, <2>5
<1>8. \A n \in Inner(tree) : /\ Len(nodes[n].keys) \in 1..InternalMax
                             /\ Len(nodes[n].children) = Len(nodes[n].keys) + 1
  BY <1>2, <1>4, <1>6 DEF Narrow, Linked, InnerOk
<1>9. \A m, n \in Inner(tree) : \A i \in DOMAIN nodes[m].children, j \in DOMAIN nodes[n].children :
        nodes[m].children[i] = nodes[n].children[j] => m = n /\ i = j
  <2> TAKE m, n \in Inner(tree)
  <2> TAKE i \in DOMAIN nodes[m].children, j \in DOMAIN nodes[n].children
  <2> HAVE nodes[m].children[i] = nodes[n].children[j]
  <2>1. m \in DOMAIN nodes /\ nodes[m] \in InnerNode /\ n \in DOMAIN nodes /\ nodes[n] \in InnerNode
    BY <1>4
  <2> QED  BY <1>2, <2>1, ParentUnique
<1>10. \A m, n \in Leaves(tree) : m # n => KeysOf(nodes[m]) \cap KeysOf(nodes[n]) = {}
  <2> SUFFICES ASSUME NEW m \in Leaves(tree), NEW n \in Leaves(tree), NEW k \in KeysOf(nodes[m]), k \in KeysOf(nodes[n])
               PROVE  m = n
    OBVIOUS
  <2>1. m \in DOMAIN nodes /\ nodes[m] \in LeafNode /\ n \in DOMAIN nodes /\ nodes[n] \in LeafNode
    BY <1>4
  <2>2. PICK i \in DOMAIN nodes[m].entries : nodes[m].entries[i].key = k
    BY DEF KeysOf
  <2>3. PICK j \in DOMAIN nodes[n].entries : nodes[n].entries[j].key = k
    BY DEF KeysOf
  <2>4. nodes[m].entries[i].key \in span[n]
    BY <1>2, <2>1, <2>2, <2>3 DEF Stocked, LeafOk
  <2> QED  BY <1>2, <2>1, <2>4, LeavesApart
<1> QED  BY <1>7, <1>8, <1>9, <1>10 DEF WellShaped, L, top

----------------------------------------------------------------------------
(* Reading a tree.                                                         *)

\* The entries of a leaf on both sides of a key.
FromIs(f, es, c, key) ==
  /\ es \in Seq(Entry) /\ f \in Seq(Entry) /\ Len(es) \in Nat /\ c \in 0..Len(es)
  /\ \A i \in 1..Len(es) : Less(es[i].key, key) <=> i <= c
  /\ Len(f) = Len(es) - c /\ DOMAIN f = 1..(Len(es) - c)
  /\ \A i \in 1..(Len(es) - c) : f[i] = es[c + i]

LEMMA FromFacts ==
  ASSUME NEW leaf \in LeafNode, Sorted(leaf.entries), NEW key \in Key
  PROVE  FromIs(From(leaf, key), leaf.entries, LowerBound(leaf, key), key)
<1> DEFINE es == leaf.entries  n == Len(es)  S == {i \in DOMAIN es : Less(es[i].key, key)}
           c == LowerBound(leaf, key)  f == From(leaf, key)
<1>1. es \in Seq(Entry)
  BY NodeKinds
<1>2. n \in Nat /\ DOMAIN es = 1..n /\ \A i \in 1..n : es[i] \in Entry /\ es[i].key \in Key
  <2>1. n \in Nat /\ DOMAIN es = 1..n /\ \A i \in 1..n : es[i] \in Entry
    BY <1>1
  <2>2. \A e \in Entry : e.key \in Key
    BY DEF Entry
  <2> HIDE DEF es, n
  <2> QED  BY <2>1, <2>2
<1>3. \A i \in S : \A j \in 1..i : j \in S
  <2> SUFFICES ASSUME NEW i \in S, NEW j \in 1..i PROVE j \in DOMAIN es /\ Less(es[j].key, key)
    OBVIOUS
  <2>1. i \in 1..n /\ j \in 1..n /\ (j = i \/ j < i)
    BY <1>2
  <2>2. j < i => ~ Less(es[i].key, es[j].key)
    BY <1>2, <2>1, BelowFacts DEF Sorted
  <2>3. es[i].key \in Key /\ es[j].key \in Key /\ Less(es[i].key, key)
    BY <1>2, <2>1
  <2>4. Less(es[j].key, key)
    BY <2>1, <2>2, <2>3, LessFacts
  <2> QED  BY <1>2, <2>1, <2>4
<1>4. S \in SUBSET (1..n)
  BY <1>2
<1>5. c = Cardinality(S)
  BY DEF LowerBound
<1>6. c \in 0..n /\ \A i \in 1..n : i \in S <=> i <= c
  <2> HIDE DEF S, n, c
  <2> QED  BY <1>2, <1>3, <1>4, <1>5, PrefixCount
<1>7. f = SubSeq(es, c + 1, Len(es))
  BY DEF From
<1>8. \A i \in 1..n : Less(es[i].key, key) <=> i <= c
  BY <1>2, <1>6
<1> HIDE DEF es, c, f, S
<1>9. c \in Nat /\ c <= Len(es)
  BY <1>2, <1>6
<1>10. f \in Seq(Entry) /\ Len(f) = Len(es) - c /\ \A i \in 1..(Len(es) - c) : f[i] = es[c + i]
  BY <1>1, <1>7, <1>9, SuffixFacts
<1>11. DOMAIN f = 1..(Len(es) - c)
  BY <1>10
<1>12. FromIs(f, es, c, key)
  BY <1>1, <1>2, <1>6, <1>8, <1>10, <1>11 DEF FromIs
<1> QED  BY <1>12 DEF f, es, c

\* What From keeps is sorted, and is what the leaf has from the key on.
LEMMA FromKeeps ==
  ASSUME NEW es, Sorted(es), NEW key \in Key, NEW f, NEW c, FromIs(f, es, c, key)
  PROVE  Sorted(f) /\ \A e : OnList(f, e) <=> OnList(es, e) /\ ~ Less(e.key, key)
<1>1. /\ es \in Seq(Entry) /\ f \in Seq(Entry) /\ Len(es) \in Nat /\ c \in 0..Len(es)
      /\ \A i \in 1..Len(es) : Less(es[i].key, key) <=> i <= c
      /\ DOMAIN f = 1..(Len(es) - c)
      /\ \A i \in 1..(Len(es) - c) : f[i] = es[c + i]
  BY DEF FromIs
<1>2. DOMAIN es = 1..Len(es)
  BY <1>1
<1>3. ASSUME NEW i \in 1..(Len(es) - c) PROVE c + i \in DOMAIN es /\ f[i] = es[c + i] /\ ~ Less(es[c + i].key, key)
  <2>1. c + i \in 1..Len(es) /\ ~ (c + i <= c)
    BY <1>1
  <2> QED  BY <1>1, <1>2, <2>1
<1>4. Sorted(f)
  <2> SUFFICES ASSUME NEW i \in DOMAIN f, NEW j \in DOMAIN f, i < j PROVE Below(f[i], f[j])
    BY DEF Sorted
  <2>1. i \in 1..(Len(es) - c) /\ j \in 1..(Len(es) - c) /\ c + i < c + j
    BY <1>1
  <2>2. c + i \in DOMAIN es /\ c + j \in DOMAIN es /\ f[i] = es[c + i] /\ f[j] = es[c + j]
    BY <1>3, <2>1
  <2> QED  BY <2>1, <2>2 DEF Sorted
<1>5. ASSUME NEW e, OnList(f, e) PROVE OnList(es, e) /\ ~ Less(e.key, key)
  <2>1. PICK i \in 1..(Len(es) - c) : f[i] = e
    BY <1>1, <1>5 DEF OnList
  <2> QED  BY <1>3, <2>1 DEF OnList
<1>6. ASSUME NEW e, OnList(es, e), ~ Less(e.key, key) PROVE OnList(f, e)
  <2>1. PICK j \in 1..Len(es) : es[j] = e
    BY <1>2, <1>6 DEF OnList
  <2>2. ~ (j <= c)
    BY <1>1, <1>6, <2>1
  <2>3. PICK i \in 1..(Len(es) - c) : i = j - c
    BY <1>1, <2>2
  <2>4. c + i = j
    BY <1>1, <2>3
  <2>5. f[i] = e
    BY <1>1, <2>1, <2>4
  <2> QED  BY <1>1, <2>5 DEF OnList
<1> QED  BY <1>4, <1>5, <1>6

\* A list followed by another whose entries are all behind it.
LEMMA SortedTogether ==
  ASSUME NEW a \in Seq(Entry), NEW b \in Seq(Entry), Sorted(a), Sorted(b),
         \A i \in DOMAIN a, j \in DOMAIN b : Below(a[i], b[j])
  PROVE  a \o b \in Seq(Entry) /\ Sorted(a \o b) /\ \A e : OnList(a \o b, e) <=> OnList(a, e) \/ OnList(b, e)
<1> DEFINE c == a \o b  m == Len(a)  n == Len(b)
<1>1. /\ c \in Seq(Entry) /\ Len(c) = m + n /\ DOMAIN c = 1..(m + n) /\ m \in Nat /\ n \in Nat
      /\ DOMAIN a = 1..m /\ DOMAIN b = 1..n
      /\ \A i \in 1..m : c[i] = a[i]
      /\ \A i \in 1..(m + n) : i > m => c[i] = b[i - m]
  OBVIOUS
<1> HIDE DEF c, m, n
<1>2. ASSUME NEW i \in 1..(m + n)
      PROVE  \/ i \in 1..m /\ i \in DOMAIN a /\ c[i] = a[i]
             \/ i > m /\ i - m \in 1..n /\ i - m \in DOMAIN b /\ c[i] = b[i - m]
  <2>1. m \in Nat /\ n \in Nat
    BY <1>1
  <2>2. i \in 1..m \/ (i > m /\ i - m \in 1..n)
    <3>1. i \in Int /\ 1 <= i /\ i <= m + n
      BY <2>1
    <3>2. i <= m \/ i > m
      BY <2>1, <3>1
    <3>3. i <= m => i \in 1..m
      BY <2>1, <3>1
    <3>4. i > m => i - m \in 1..n
      BY <2>1, <3>1
    <3> QED  BY <3>2, <3>3, <3>4, Zenon
  <2>3. CASE i \in 1..m
    <3>1. \A j \in 1..m : j \in DOMAIN a /\ c[j] = a[j]
      BY <1>1
    <3> QED  BY <2>3, <3>1, Zenon
  <2>4. CASE i > m /\ i - m \in 1..n
    BY <1>1, <2>4
  <2> QED  BY <2>2, <2>3, <2>4
<1>3. Sorted(c)
  <2> SUFFICES ASSUME NEW i \in DOMAIN c, NEW j \in DOMAIN c, i < j PROVE Below(c[i], c[j])
    BY DEF Sorted
  <2>1. i \in 1..(m + n) /\ j \in 1..(m + n)
    BY <1>1
  <2>2. CASE i \in 1..m /\ j \in 1..m
    BY <1>1, <1>2, <2>1, <2>2 DEF Sorted
  <2>3. CASE i \in 1..m /\ ~ (j \in 1..m)
    <3>1. i \in DOMAIN a /\ c[i] = a[i]
      BY <1>1, <2>3
    <3>2. j - m \in DOMAIN b /\ c[j] = b[j - m]
      BY <1>2, <2>1, <2>3
    <3> QED  BY <3>1, <3>2
  <2>4. CASE ~ (i \in 1..m)
    <3>1. i > m /\ j > m
      BY <1>1, <1>2, <2>1, <2>4
    <3>2. ~ (j \in 1..m) /\ i - m < j - m
      BY <1>1, <2>1, <3>1
    <3>3. i - m \in DOMAIN b /\ j - m \in DOMAIN b /\ c[i] = b[i - m] /\ c[j] = b[j - m]
      BY <1>2, <2>1, <2>4, <3>2
    <3> QED  BY <3>2, <3>3 DEF Sorted
  <2> QED  BY <2>2, <2>3, <2>4
<1>4. ASSUME NEW e, OnList(c, e) PROVE OnList(a, e) \/ OnList(b, e)
  <2>1. PICK i \in 1..(m + n) : c[i] = e
    BY <1>1, <1>4 DEF OnList
  <2> QED  BY <1>2, <2>1 DEF OnList
<1>5. ASSUME NEW e, OnList(a, e) PROVE OnList(c, e)
  <2>1. PICK i \in 1..m : a[i] = e
    BY <1>1, <1>5 DEF OnList
  <2>2. i \in DOMAIN c /\ c[i] = e
    BY <1>1, <2>1
  <2> QED  BY <2>2 DEF OnList
<1>6. ASSUME NEW e, OnList(b, e) PROVE OnList(c, e)
  <2>1. PICK i \in 1..n : b[i] = e
    BY <1>1, <1>6 DEF OnList
  <2>2. PICK j \in 1..(m + n) : j = m + i
    BY <1>1
  <2>3. j > m /\ j - m = i
    BY <1>1, <2>2
  <2>4. c[j] = e /\ j \in DOMAIN c
    BY <1>1, <2>1, <2>3
  <2> QED  BY <2>4 DEF OnList
<1> QED  BY <1>1, <1>3, <1>4, <1>5, <1>6 DEF c

----------------------------------------------------------------------------
(* A scan.                                                                 *)

\* Leaf p of the chain is the one of the key.
Starts(nodes, span, chain, p, key) ==
  /\ nodes \in Seq(Node) /\ span \in [DOMAIN nodes -> SUBSET Key]
  /\ Stocked(nodes, span) /\ Chained(nodes, span, chain)
  /\ key \in Key /\ p \in 1..Len(chain) /\ key \in span[chain[p]]

\* What a scan has when it is at leaf c of the chain.
Walked(w, nodes, chain, p, c, key) ==
  /\ w.node = chain[c] /\ w.out \in Seq(Entry) /\ Sorted(w.out)
  /\ \A e : OnList(w.out, e) <=> ~ Less(e.key, key) /\ \E q \in p..c : OnList(nodes[chain[q]].entries, e)

\* The leaves of the chain.
LEMMA ChainLeaves ==
  ASSUME NEW nodes, NEW span, NEW chain, NEW p, NEW key, Starts(nodes, span, chain, p, key),
         NEW c \in 1..Len(chain)
  PROVE  /\ c \in DOMAIN chain /\ chain[c] \in DOMAIN nodes /\ nodes[chain[c]] \in LeafNode
         /\ nodes[chain[c]].entries \in Seq(Entry) /\ Sorted(nodes[chain[c]].entries)
         /\ \A e : OnList(nodes[chain[c]].entries, e) => e \in Entry /\ e.key \in Key /\ e.key \in span[chain[c]]
<1>1. chain \in Seq(DOMAIN nodes) /\ nodes \in Seq(Node) /\ span \in [DOMAIN nodes -> SUBSET Key]
  BY DEF Starts, Chained
<1>2. c \in DOMAIN chain /\ chain[c] \in DOMAIN nodes
  BY <1>1
<1>3. nodes[chain[c]] \in LeafNode
  BY <1>2 DEF Starts, Chained
<1>4. nodes[chain[c]].entries \in Seq(Entry)
  BY <1>3, NodeKinds
<1>5. LeafOk(nodes[chain[c]], span[chain[c]])
  BY <1>2, <1>3 DEF Starts, Stocked
<1>6. \A e \in Entry : e.key \in Key
  BY DEF Entry
<1>7. ASSUME NEW e, OnList(nodes[chain[c]].entries, e) PROVE e \in Entry /\ e.key \in span[chain[c]]
  <2>1. PICK i \in DOMAIN nodes[chain[c]].entries : nodes[chain[c]].entries[i] = e
    BY <1>7 DEF OnList
  <2> QED  BY <1>4, <1>5, <2>1 DEF LeafOk
<1> QED  BY <1>2, <1>3, <1>4, <1>5, <1>6, <1>7 DEF LeafOk

\* One leaf further.
LEMMA ScanStep ==
  ASSUME NEW nodes, NEW span, NEW chain, NEW p, NEW key, Starts(nodes, span, chain, p, key),
         NEW c \in p..Len(chain), NEW w, Walked(w, nodes, chain, p, c, key), NEW v, v = ScanOn(nodes, w)
  PROVE  IF c = Len(chain) THEN v = w ELSE Walked(v, nodes, chain, p, c + 1, key)
<1>1. Len(chain) \in Nat /\ p \in 1..Len(chain) /\ c \in 1..Len(chain) /\ p <= c /\ c \in Int
  <2>1. Len(chain) \in Nat /\ p \in 1..Len(chain)
    BY DEF Starts, Chained
  <2> QED  BY <2>1
<1>2. /\ c \in DOMAIN chain
      /\ nodes[chain[c]].next = IF c = Len(chain) THEN NoNode ELSE chain[c + 1]
  <2>1. c \in DOMAIN chain
    BY <1>1, ChainLeaves
  <2> QED  BY <2>1 DEF Starts, Chained
<1>3. w.node = chain[c] /\ w.out \in Seq(Entry) /\ Sorted(w.out)
      /\ \A e : OnList(w.out, e) <=> ~ Less(e.key, key) /\ \E q \in p..c : OnList(nodes[chain[q]].entries, e)
  BY DEF Walked
<1>4. CASE c = Len(chain)
  BY <1>2, <1>3, <1>4 DEF ScanOn
<1>5. CASE c # Len(chain)
  <2> DEFINE n == chain[c + 1]  more == nodes[n].entries
  <2>1. c + 1 \in 1..Len(chain) /\ p < c + 1
    BY <1>1, <1>5
  <2>2. /\ c + 1 \in DOMAIN chain /\ n \in DOMAIN nodes /\ more \in Seq(Entry) /\ Sorted(more)
        /\ \A e : OnList(more, e) => e \in Entry /\ e.key \in Key /\ e.key \in span[n]
    BY <2>1, ChainLeaves
  <2>3. n # NoNode
    <3>1. nodes \in Seq(Node)
      BY DEF Starts
    <3> HIDE DEF n
    <3>2. n \in 1..Len(nodes) /\ Len(nodes) \in Nat
      BY <2>2, <3>1
    <3> QED  BY <3>2 DEF NoNode
  <2>4. nodes[w.node].next = n
    BY <1>2, <1>3, <1>5
  <2>5. v = [node |-> n, out |-> w.out \o more]
    BY <2>3, <2>4 DEF ScanOn
  <2>6. v.node = n /\ v.out = w.out \o more
    <3> DEFINE out == w.out \o more
    <3>1. v = [node |-> n, out |-> out]
      BY <2>5
    <3> HIDE DEF out, n
    <3>2. v.node = n /\ v.out = out
      BY <3>1
    <3> QED  BY <3>2 DEF out
  <2>7. ASSUME NEW a, OnList(w.out, a), NEW b, OnList(more, b) PROVE Below(a, b)
    <3>1. PICK q \in p..c : OnList(nodes[chain[q]].entries, a)
      BY <1>3, <2>7
    <3>2. q \in 1..Len(chain) /\ q < c + 1
      BY <1>1
    <3>3. q \in DOMAIN chain /\ a.key \in span[chain[q]]
      BY <3>1, <3>2, ChainLeaves
    <3>4. b.key \in span[n]
      BY <2>2, <2>7
    <3>5. Less(a.key, b.key)
      BY <2>2, <3>2, <3>3, <3>4 DEF Starts, Chained
    <3> QED  BY <3>5 DEF Below
  <2>8. ASSUME NEW b, OnList(more, b) PROVE ~ Less(b.key, key)
    <3>1. p \in DOMAIN chain /\ key \in span[chain[p]] /\ key \in Key
      BY <1>1, ChainLeaves DEF Starts
    <3>2. Less(key, b.key)
      <4>1. b.key \in span[n]
        BY <2>2, <2>8
      <4> QED  BY <2>1, <2>2, <3>1, <4>1 DEF Starts, Chained
    <3>3. b.key \in Key
      BY <2>2, <2>8
    <3> QED  BY <3>1, <3>2, <3>3, LessFacts
  <2>9. \A i \in DOMAIN w.out, j \in DOMAIN more : Below(w.out[i], more[j])
    BY <2>7 DEF OnList
  <2> HIDE DEF more
  <2>10. v.out \in Seq(Entry) /\ Sorted(v.out) /\ \A e : OnList(v.out, e) <=> OnList(w.out, e) \/ OnList(more, e)
    BY <1>3, <2>2, <2>6, <2>9, SortedTogether
  <2>11. ASSUME NEW e
         PROVE  OnList(v.out, e) <=> ~ Less(e.key, key) /\ \E q \in p..(c + 1) : OnList(nodes[chain[q]].entries, e)
    <3>1. ASSUME OnList(v.out, e)
          PROVE  ~ Less(e.key, key) /\ \E q \in p..(c + 1) : OnList(nodes[chain[q]].entries, e)
      <4>1. CASE OnList(w.out, e)
        <5>1. PICK q \in p..c : OnList(nodes[chain[q]].entries, e)
          BY <1>3, <4>1
        <5>2. q \in p..(c + 1)
          BY <1>1
        <5> QED  BY <1>3, <4>1, <5>1, <5>2
      <4>2. CASE OnList(more, e)
        <5>1. c + 1 \in p..(c + 1)
          BY <1>1
        <5> QED  BY <2>8, <4>2, <5>1 DEF more, n
      <4> QED  BY <2>10, <3>1, <4>1, <4>2
    <3>2. ASSUME ~ Less(e.key, key), \E q \in p..(c + 1) : OnList(nodes[chain[q]].entries, e)
          PROVE  OnList(v.out, e)
      <4>1. PICK q \in p..(c + 1) : OnList(nodes[chain[q]].entries, e)
        BY <3>2
      <4>2. q = c + 1 \/ q \in p..c
        BY <1>1
      <4>3. CASE q = c + 1
        BY <2>10, <4>1, <4>3 DEF more, n
      <4>4. CASE q \in p..c
        BY <1>3, <2>10, <3>2, <4>1, <4>4
      <4> QED  BY <4>2, <4>3, <4>4
    <3> QED  BY <3>1, <3>2
  <2>12. Walked(v, nodes, chain, p, c + 1, key)
    BY <2>6, <2>10, <2>11 DEF Walked, n
  <2> QED  BY <1>5, <2>12
<1> QED  BY <1>4, <1>5
Scanning(f, nodes, n, base) == f = [i \in 0..n |-> IF i = 0 THEN base ELSE ScanOn(nodes, f[i - 1])]

\* The function of the scan exists.
LEMMA ScanExists ==
  ASSUME NEW nodes, NEW span, NEW chain, NEW p, NEW key, Starts(nodes, span, chain, p, key),
         NEW n \in Nat, NEW base \in [node : DOMAIN nodes, out : Seq(Entry)], nodes[base.node] \in LeafNode
  PROVE  \E f : Scanning(f, nodes, n, base)
<1> DEFINE S == {w \in [node : DOMAIN nodes, out : Seq(Entry)] : nodes[w.node] \in LeafNode}
           on == [w \in S |-> ScanOn(nodes, w)]  step == [i \in 1..n |-> on]
<1>1. ASSUME NEW w \in S PROVE ScanOn(nodes, w) \in S
  <2>1. w.node \in DOMAIN nodes /\ w.out \in Seq(Entry) /\ nodes[w.node] \in LeafNode
    OBVIOUS
  <2>2. PICK c \in DOMAIN chain : chain[c] = w.node
    BY <2>1 DEF Starts, Chained
  <2>3. nodes[w.node].next = IF c = Len(chain) THEN NoNode ELSE chain[c + 1]
    BY <2>2 DEF Starts, Chained
  <2> DEFINE next == nodes[w.node].next
  <2>4. CASE next = NoNode
    BY <2>4 DEF ScanOn
  <2>5. CASE next # NoNode
    <3> DEFINE out == w.out \o nodes[next].entries  v == [node |-> next, out |-> out]
    <3>1. ScanOn(nodes, w) = v
      BY <2>5 DEF ScanOn
    <3>2. c + 1 \in 1..Len(chain) /\ next = chain[c + 1]
      <4>1. chain \in Seq(DOMAIN nodes)
        BY DEF Starts, Chained
      <4>2. c \in 1..Len(chain) /\ Len(chain) \in Nat
        BY <4>1
      <4>3. c # Len(chain)
        BY <2>3, <2>5
      <4> QED  BY <2>3, <4>2, <4>3
    <3>3. next \in DOMAIN nodes /\ nodes[next] \in LeafNode /\ nodes[next].entries \in Seq(Entry)
      BY <3>2, ChainLeaves
    <3>4. out \in Seq(Entry)
      BY <2>1, <3>3
    <3> HIDE DEF out, next
    <3>5. v \in S
      BY <3>3, <3>4
    <3> QED  BY <3>1, <3>5
  <2> QED  BY <2>4, <2>5
<1>2. step \in [1..n -> [S -> S]]
  BY <1>1
<1>3. base \in S /\ \A i \in 1..n : \A w \in S : step[i][w] = ScanOn(nodes, w)
  OBVIOUS
<1> HIDE DEF step, S
<1>4. PICK f \in [0..n -> S] : Follows(f, n, base, step)
  BY <1>2, <1>3, RecursionTo
<1>5. \A i \in 0..n : f[i] = IF i = 0 THEN base ELSE ScanOn(nodes, f[i - 1])
  <2> TAKE i \in 0..n
  <2>1. CASE i = 0
    BY <1>4, <2>1 DEF Follows
  <2>2. CASE i # 0
    <3>1. i \in 1..n /\ i - 1 \in 0..n
      BY <2>2
    <3>2. f[i - 1] \in S
      BY <3>1
    <3> QED  BY <1>3, <1>4, <2>2, <3>1, <3>2 DEF Follows
  <2> QED  BY <2>1, <2>2
<1>6. f = [i \in 0..n |-> IF i = 0 THEN base ELSE ScanOn(nodes, f[i - 1])]
  <2>1. f = [i \in 0..n |-> f[i]]
    OBVIOUS
  <2> QED  BY <1>5, <2>1, Zenon
<1> QED  BY <1>6 DEF Scanning

\* Where a descent starts a scan.
LEMMA DescentStarts ==
  ASSUME NEW tree, NEW span, NEW level, NEW chain, NEW es, Upright(tree, span, level, chain, es), NEW key \in Key
  PROVE  \E p : Starts(tree.nodes, span, chain, p, key) /\ chain[p] = Descend(tree, key)
<1>1. /\ tree.nodes \in Seq(Node) /\ span \in [DOMAIN tree.nodes -> SUBSET Key]
      /\ Stocked(tree.nodes, span) /\ Chained(tree.nodes, span, chain)
  BY DEF Upright, Sound, Frame
<1>2. /\ Descend(tree, key) \in DOMAIN tree.nodes /\ tree.nodes[Descend(tree, key)] \in LeafNode
      /\ key \in span[Descend(tree, key)]
  BY DescendFacts
<1>3. PICK p \in DOMAIN chain : chain[p] = Descend(tree, key)
  BY <1>1, <1>2 DEF Chained
<1>4. p \in 1..Len(chain)
  BY <1>1, <1>3 DEF Chained
<1> QED  BY <1>1, <1>2, <1>3, <1>4 DEF Starts

\* What a list has is the entries from a key on, in order.
ListsFrom(s, es, key) == s \in Seq(Entry) /\ Sorted(s) /\ \A e : OnList(s, e) <=> e \in es /\ ~ Less(e.key, key)

\* A scan lists the entries from its key on.
LEMMA ScanLists ==
  ASSUME NEW tree, NEW span, NEW level, NEW chain, NEW es, Upright(tree, span, level, chain, es), NEW key \in Key
  PROVE  ListsFrom(ScanFrom(tree, key), es, key)
<1> DEFINE nodes == tree.nodes  N == Len(nodes)  leaf == Descend(tree, key)  here == From(nodes[leaf], key)
           base == [node |-> leaf, out |-> here]
           walk[i \in 0..N] == IF i = 0 THEN base ELSE ScanOn(nodes, walk[i - 1])
<1>1. ScanFrom(tree, key) = walk[N].out
  BY DEF ScanFrom
<1>2. PICK p : Starts(nodes, span, chain, p, key) /\ chain[p] = leaf
  BY DescentStarts
<1>3. N \in Nat /\ Len(chain) \in Nat /\ Len(chain) <= N /\ p \in 1..Len(chain)
  BY <1>2 DEF Starts, Chained
<1>4. /\ leaf \in DOMAIN nodes /\ nodes[leaf] \in LeafNode /\ Sorted(nodes[leaf].entries)
  BY <1>2, <1>3, ChainLeaves
<1>5. FromIs(here, nodes[leaf].entries, LowerBound(nodes[leaf], key), key)
  BY <1>4, FromFacts
<1>6. here \in Seq(Entry) /\ Sorted(here) /\ \A e : OnList(here, e) <=> OnList(nodes[leaf].entries, e) /\ ~ Less(e.key, key)
  <2> HIDE DEF here, leaf
  <2>1. here \in Seq(Entry)
    BY <1>5 DEF FromIs
  <2> QED  BY <1>4, <1>5, <2>1, FromKeeps
<1> HIDE DEF leaf, here
<1>7. base \in [node : DOMAIN nodes, out : Seq(Entry)] /\ base.node = leaf /\ base.out = here
  BY <1>4, <1>6
<1> HIDE DEF base
<1>8. walk[0] = base /\ \A i \in 1..N : walk[i] = ScanOn(nodes, walk[i - 1])
  <2>1. walk = [i \in 0..N |-> IF i = 0 THEN base ELSE ScanOn(nodes, walk[i - 1])]
    <3> HIDE DEF N
    <3>1. nodes[base.node] \in LeafNode
      BY <1>4, <1>7
    <3>2. PICK f : Scanning(f, nodes, N, base)
      BY <1>2, <1>3, <1>7, <3>1, ScanExists
    <3>3. f = [i \in 0..N |-> IF i = 0 THEN base ELSE ScanOn(nodes, f[i - 1])]
      BY <3>2 DEF Scanning
    <3> QED  BY <3>3, Zenon
  <2> HIDE DEF walk, N
  <2> QED  BY <1>3, <2>1
<1> HIDE DEF walk, N, nodes
<1> DEFINE At(i) == \E c \in p..Len(chain) : Walked(walk[i], nodes, chain, p, c, key) /\ (c = Len(chain) \/ c = p + i)
           T == {i \in 0..N : At(i)}
<1>9. 0 \in T
  <2>1. \A q \in p..p : q = p
    BY <1>3
  <2>2. p \in p..p /\ p \in p..Len(chain) /\ p = p + 0 /\ 0 \in 0..N
    BY <1>3
  <2>3. Walked(base, nodes, chain, p, p, key)
    BY <1>2, <1>6, <1>7, <2>1, <2>2 DEF Walked
  <2> QED  BY <1>8, <2>2, <2>3
<1>10. ASSUME NEW i \in 0..(N - 1), i \in T PROVE i + 1 \in T
  <2>0. At(i)
    <3> HIDE DEF At
    <3> QED  BY <1>10
  <2>1. PICK c \in p..Len(chain) : Walked(walk[i], nodes, chain, p, c, key) /\ (c = Len(chain) \/ c = p + i)
    BY <2>0, Zenon
  <2>2. i + 1 \in 1..N /\ (i + 1) - 1 = i /\ i + 1 \in 0..N
    BY <1>3
  <2>3. walk[i + 1] = ScanOn(nodes, walk[i])
    BY <1>8, <2>2
  <2>4. IF c = Len(chain) THEN walk[i + 1] = walk[i] ELSE Walked(walk[i + 1], nodes, chain, p, c + 1, key)
    BY <1>2, <2>1, <2>3, ScanStep
  <2>5. CASE c = Len(chain)
    BY <2>1, <2>2, <2>4, <2>5
  <2>6. CASE c # Len(chain)
    <3>1. c + 1 \in p..Len(chain) /\ c + 1 = p + (i + 1)
      BY <1>3, <2>1, <2>6
    <3> QED  BY <2>2, <2>4, <2>6, <3>1
  <2> QED  BY <2>5, <2>6
<1>11. \A i \in 0..N : i \in T
  <2> HIDE DEF T
  <2>1. \A i \in 0..(N - 1) : i \in T => i + 1 \in T
    BY <1>10
  <2> QED  BY <1>3, <1>9, <2>1, InductionTo
<1>12. Walked(walk[N], nodes, chain, p, Len(chain), key)
  <2>1. N \in T
    BY <1>3, <1>11
  <2>0. At(N)
    <3> HIDE DEF At
    <3> QED  BY <2>1
  <2>2. PICK c \in p..Len(chain) : Walked(walk[N], nodes, chain, p, c, key) /\ (c = Len(chain) \/ c = p + N)
    BY <2>0, Zenon
  <2>3. c = Len(chain)
    BY <1>3, <2>2
  <2> QED  BY <2>2, <2>3
<1> HIDE DEF T
<1> DEFINE out == walk[N].out
<1>13. out \in Seq(Entry) /\ Sorted(out)
       /\ \A e : OnList(out, e) <=> ~ Less(e.key, key) /\ \E q \in p..Len(chain) : OnList(nodes[chain[q]].entries, e)
  BY <1>12 DEF Walked
<1> HIDE DEF out
<1>14. Holds(nodes, es)
  BY DEF Upright, Sound, nodes
<1>15. ASSUME NEW e, OnList(out, e) PROVE e \in es /\ ~ Less(e.key, key)
  <2>1. PICK q \in p..Len(chain) : OnList(nodes[chain[q]].entries, e)
    BY <1>13, <1>15
  <2>2. q \in 1..Len(chain)
    BY <1>3
  <2>3. chain[q] \in DOMAIN nodes /\ nodes[chain[q]] \in LeafNode /\ e \in Entry
    BY <1>2, <2>1, <2>2, ChainLeaves
  <2>4. InLeaf(nodes, e)
    BY <2>1, <2>3 DEF InLeaf
  <2> QED  BY <1>13, <1>14, <1>15, <2>3, <2>4 DEF Holds
<1>16. ASSUME NEW e, e \in es, ~ Less(e.key, key) PROVE OnList(out, e)
  <2>1. PICK n \in DOMAIN nodes : nodes[n] \in LeafNode /\ OnList(nodes[n].entries, e)
    BY <1>14, <1>16 DEF Holds, InLeaf
  <2>2. PICK q \in DOMAIN chain : chain[q] = n
    BY <1>2, <2>1 DEF Starts, Chained
  <2>3. q \in 1..Len(chain)
    BY <1>2, <2>2 DEF Starts, Chained
  <2>4. e.key \in span[chain[q]]
    BY <1>2, <2>1, <2>2, <2>3, ChainLeaves
  <2>5. ~ (q < p)
    <3> SUFFICES ASSUME q < p PROVE FALSE
      OBVIOUS
    <3>1. p \in DOMAIN chain /\ key \in span[chain[p]]
      BY <1>2, <1>3, ChainLeaves DEF Starts
    <3>2. Less(e.key, key)
      BY <1>2, <2>2, <2>4, <3>1 DEF Starts, Chained
    <3> QED  BY <1>16, <3>2
  <2>6. q \in p..Len(chain)
    BY <1>3, <2>3, <2>5
  <2> QED  BY <1>13, <1>16, <2>1, <2>2, <2>6
<1>17. ListsFrom(out, es, key)
  BY <1>13, <1>15, <1>16 DEF ListsFrom
<1> QED  BY <1>1, <1>17 DEF out, N, nodes

----------------------------------------------------------------------------
(* The values of a key.                                                    *)

\* The values of the entries a list begins with that have the key, which are all
\* it has.
RunIs(o, f, r, key) ==
  /\ r \in 0..Len(f) /\ o \in Seq(Nat) /\ Len(o) = r /\ DOMAIN o = 1..r
  /\ \A i \in 1..r : o[i] = f[i].value
  /\ \A i \in 1..Len(f) : f[i].key = key <=> i <= r

LEMMA RunFacts ==
  ASSUME NEW f \in Seq(Entry), Sorted(f), NEW key \in Key, \A i \in DOMAIN f : ~ Less(f[i].key, key)
  PROVE  \E r : RunIs(RunOf(f, key), f, r, key)
<1> DEFINE n == Len(f)  R == {i \in DOMAIN f : \A j \in 1..i : f[j].key = key}  r == Cardinality(R)
           o == RunOf(f, key)
<1>1. n \in Nat /\ DOMAIN f = 1..n /\ \A i \in 1..n : f[i] \in Entry /\ f[i].key \in Key /\ f[i].value \in Nat
  <2>1. n \in Nat /\ DOMAIN f = 1..n /\ \A i \in 1..n : f[i] \in Entry
    OBVIOUS
  <2>2. \A e \in Entry : e.key \in Key /\ e.value \in Nat
    BY DEF Entry
  <2> HIDE DEF n
  <2> QED  BY <2>1, <2>2
<1> HIDE DEF n
<1>2. R \in SUBSET (1..n) /\ \A i \in R : \A j \in 1..i : j \in R
  BY <1>1
<1>3. r \in 0..n /\ \A i \in 1..n : i \in R <=> i <= r
  <2> HIDE DEF R
  <2> QED  BY <1>1, <1>2, PrefixCount
<1>4. \A i \in 1..n : f[i].key = key => i \in R
  <2> SUFFICES ASSUME NEW i \in 1..n, f[i].key = key, NEW j \in 1..i PROVE f[j].key = key
    BY <1>1
  <2>1. j \in 1..n /\ (j = i \/ j < i)
    BY <1>1
  <2>2. j < i => ~ Less(f[i].key, f[j].key)
    BY <1>1, <2>1, BelowFacts DEF Sorted
  <2>3. f[j].key \in Key /\ ~ Less(f[j].key, key)
    BY <1>1, <2>1
  <2>4. j < i => f[j].key = key
    BY <2>2, <2>3, LessFacts
  <2> QED  BY <2>1, <2>4
<1>5. \A i \in 1..n : f[i].key = key <=> i <= r
  <2> TAKE i \in 1..n
  <2>1. i \in R => f[i].key = key
    <3>1. i \in 1..i
      BY <1>1
    <3> QED  BY <3>1
  <2> QED  BY <1>3, <1>4, <2>1
<1>6. o = [i \in 1..r |-> f[i].value]
  BY DEF RunOf
<1> HIDE DEF R, r, o
<1>7. \A i \in 1..r : f[i].value \in Nat
  <2>1. \A i \in 1..r : i \in 1..n
    BY <1>1, <1>3
  <2> QED  BY <1>1, <2>1
<1>8. o \in Seq(Nat) /\ Len(o) = r /\ DOMAIN o = 1..r /\ \A i \in 1..r : o[i] = f[i].value
  <2>1. r \in Nat
    BY <1>3
  <2>2. o \in [1..r -> Nat]
    BY <1>6, <1>7
  <2> QED  BY <1>6, <2>1, <2>2
<1>9. RunIs(o, f, r, key)
  BY <1>3, <1>5, <1>8 DEF RunIs, n
<1> QED  BY <1>9 DEF o

\* What is found under a key: the values of its entries, in order.
FoundIs(o, es, key) ==
  Ascends(o) /\ \A v : v \in Range(o) <=> \E e \in es : e.key = key /\ e.value = v

\* No later leaf has the key, so the walk of get_all stays where it is.
LEMMA RunStays ==
  ASSUME NEW nodes, NEW span, NEW chain, NEW p, NEW key, Starts(nodes, span, chain, p, key),
         NEW w, w.node = chain[p]
  PROVE  RunOn(nodes, w, key) = w
<1> DEFINE next == nodes[chain[p]].next
<1>1. /\ chain \in Seq(DOMAIN nodes) /\ p \in 1..Len(chain) /\ p \in DOMAIN chain
      /\ next = IF p = Len(chain) THEN NoNode ELSE chain[p + 1]
      /\ key \in span[chain[p]] /\ key \in Key
  <2>1. chain \in Seq(DOMAIN nodes) /\ p \in 1..Len(chain)
    BY DEF Starts, Chained
  <2>2. p \in DOMAIN chain
    BY <2>1
  <2> QED  BY <2>1, <2>2 DEF Starts, Chained
<1>2. ~ (next # NoNode /\ nodes[next].entries # << >> /\ nodes[next].entries[1].key = key)
  <2> SUFFICES ASSUME next # NoNode, nodes[next].entries # << >>, nodes[next].entries[1].key = key PROVE FALSE
    OBVIOUS
  <2>1. next = chain[p + 1] /\ p # Len(chain)
    BY <1>1
  <2>2. Len(chain) \in Nat
    BY <1>1
  <2>3. p + 1 \in 1..Len(chain) /\ p < p + 1
    BY <1>1, <2>1, <2>2
  <2>4. PICK q \in 1..Len(chain) : q = p + 1
    BY <2>3
  <2>5. /\ q \in DOMAIN chain /\ nodes[next].entries \in Seq(Entry)
        /\ \A e : OnList(nodes[next].entries, e) => e.key \in span[next]
    BY <2>1, <2>4, ChainLeaves
  <2> HIDE DEF next
  <2>6. OnList(nodes[next].entries, nodes[next].entries[1])
    <3>1. 1 \in DOMAIN nodes[next].entries
      BY <2>5
    <3> QED  BY <3>1 DEF OnList
  <2>7. key \in span[chain[q]]
    BY <2>1, <2>4, <2>5, <2>6
  <2>8. Less(key, key)
    BY <1>1, <2>3, <2>4, <2>5, <2>7 DEF Starts, Chained
  <2> QED  BY <1>1, <2>8, LessIrreflexive
<1>3. nodes[w.node].next = next
  OBVIOUS
<1> HIDE DEF next
<1> QED  BY <1>2, <1>3, Zenon DEF RunOn

\* get_all finds the run of its key in the key's leaf.
LEMMA GetAllRun ==
  ASSUME NEW tree, NEW span, NEW level, NEW chain, NEW es, Upright(tree, span, level, chain, es), NEW key \in Key
  PROVE  GetAll(tree, key) = RunOf(From(tree.nodes[Descend(tree, key)], key), key)
<1> DEFINE nodes == tree.nodes  N == Len(nodes)  leaf == Descend(tree, key)
           base == [node |-> leaf, out |-> RunOf(From(nodes[leaf], key), key)]
           walk[i \in 0..N] == IF i = 0 THEN base ELSE RunOn(nodes, walk[i - 1], key)
<1>1. GetAll(tree, key) = walk[N].out
  BY DEF GetAll
<1>2. PICK p : Starts(nodes, span, chain, p, key) /\ chain[p] = leaf
  BY DescentStarts
<1>3. N \in Nat
  BY <1>2 DEF Starts
<1>4. RunOn(nodes, base, key) = base
  <2>1. base.node = chain[p]
    BY <1>2
  <2> HIDE DEF base, leaf
  <2> QED  BY <1>2, <2>1, RunStays
<1>5. base.out = RunOf(From(nodes[leaf], key), key)
  OBVIOUS
<1> HIDE DEF base
<1>6. walk = [i \in 0..N |-> IF i = 0 THEN base ELSE RunOn(nodes, walk[i - 1], key)]
  <2> DEFINE f == [i \in 0..N |-> base]
  <2>1. \A i \in 0..N : f[i] = IF i = 0 THEN base ELSE RunOn(nodes, f[i - 1], key)
    <3> TAKE i \in 0..N
    <3>1. i # 0 => i - 1 \in 0..N
      BY <1>3
    <3> QED  BY <1>4, <3>1
  <2>2. f = [i \in 0..N |-> f[i]]
    OBVIOUS
  <2> HIDE DEF f, N
  <2>3. f = [i \in 0..N |-> IF i = 0 THEN base ELSE RunOn(nodes, f[i - 1], key)]
    BY <2>1, <2>2, Zenon
  <2> QED  BY <2>3, Zenon
<1> HIDE DEF walk, N, leaf
<1>7. walk[0] = base /\ \A i \in 1..N : walk[i] = RunOn(nodes, walk[i - 1], key)
  BY <1>3, <1>6
<1> DEFINE T == {i \in 0..N : walk[i] = base}
<1>8. \A i \in 0..N : i \in T
  <2>1. 0 \in T
    BY <1>3, <1>7
  <2>2. ASSUME NEW i \in 0..(N - 1), i \in T PROVE i + 1 \in T
    <3>1. i + 1 \in 1..N /\ (i + 1) - 1 = i /\ i + 1 \in 0..N
      BY <1>3
    <3> QED  BY <1>4, <1>7, <2>2, <3>1
  <2> HIDE DEF T
  <2>3. \A i \in 0..(N - 1) : i \in T => i + 1 \in T
    BY <2>2
  <2> QED  BY <1>3, <2>1, <2>3, InductionTo
<1>9. walk[N] = base
  BY <1>3, <1>8
<1> QED  BY <1>1, <1>5, <1>9 DEF N, leaf

\* get_all and get find the values of a key.
LEMMA FoundExactly ==
  ASSUME NEW tree, NEW span, NEW level, NEW chain, NEW es, Upright(tree, span, level, chain, es), NEW key \in Key
  PROVE  /\ FoundIs(GetAll(tree, key), es, key)
         /\ Get(tree, key) = IF GetAll(tree, key) = << >> THEN << >> ELSE <<GetAll(tree, key)[1]>>
<1> DEFINE nodes == tree.nodes  leaf == Descend(tree, key)  list == nodes[leaf].entries
           c == LowerBound(nodes[leaf], key)  f == From(nodes[leaf], key)  o == GetAll(tree, key)
<1>1. PICK p : Starts(nodes, span, chain, p, key) /\ chain[p] = leaf
  BY DescentStarts
<1>2. /\ leaf \in DOMAIN nodes /\ nodes[leaf] \in LeafNode /\ Sorted(list)
      /\ key \in span[leaf]
  <2>1. p \in 1..Len(chain)
    BY <1>1 DEF Starts
  <2>2. leaf \in DOMAIN nodes /\ nodes[leaf] \in LeafNode /\ Sorted(list)
    BY <1>1, <2>1, ChainLeaves
  <2> QED  BY <1>1, <2>2 DEF Starts
<1>3. FromIs(f, list, c, key)
  BY <1>2, FromFacts
<1>4. Sorted(f) /\ \A e : OnList(f, e) <=> OnList(list, e) /\ ~ Less(e.key, key)
  <2> HIDE DEF f, list, c
  <2> QED  BY <1>2, <1>3, FromKeeps
<1>5. f \in Seq(Entry) /\ Len(f) \in Nat /\ DOMAIN f = 1..Len(f)
  BY <1>3 DEF FromIs
<1>6. \A i \in DOMAIN f : OnList(f, f[i])
  BY DEF OnList
<1>7. o = RunOf(f, key)
  BY GetAllRun
<1>8. PICK r : RunIs(o, f, r, key)
  <2> HIDE DEF f, o
  <2>1. \A i \in DOMAIN f : ~ Less(f[i].key, key)
    BY <1>4, <1>6
  <2> QED  BY <1>4, <1>5, <1>7, <2>1, RunFacts
<1>9. Get(tree, key) = IF c + 1 <= Len(list) /\ list[c + 1].key = key THEN <<list[c + 1].value>> ELSE << >>
  BY DEF Get
<1> HIDE DEF f, o, c
<1>10. /\ r \in 0..Len(f) /\ r \in Nat /\ o \in Seq(Nat) /\ Len(o) = r /\ DOMAIN o = 1..r
       /\ \A i \in 1..r : o[i] = f[i].value
       /\ \A i \in 1..Len(f) : f[i].key = key <=> i <= r
  BY <1>5, <1>8 DEF RunIs
<1>11. \A i \in 1..r : i \in DOMAIN f /\ f[i] \in Entry /\ f[i].key = key /\ f[i].value \in Nat
  <2> TAKE i \in 1..r
  <2>1. i \in 1..Len(f) /\ i <= r
    BY <1>5, <1>10
  <2>2. i \in DOMAIN f /\ f[i] \in Entry /\ f[i].key = key
    BY <1>5, <1>10, <2>1
  <2> QED  BY <2>2 DEF Entry
<1>12. Ascends(o)
  <2> SUFFICES ASSUME NEW i \in 1..r, NEW j \in 1..r, i < j PROVE o[i] < o[j]
    BY <1>10 DEF Ascends
  <2>1. Below(f[i], f[j])
    BY <1>4, <1>11 DEF Sorted
  <2>2. ~ Less(key, key)
    BY LessIrreflexive
  <2>3. f[i].value < f[j].value
    BY <1>11, <2>1, <2>2 DEF Below
  <2> QED  BY <1>10, <2>3
<1>13. Holds(nodes, es)
  BY DEF Upright, Sound
<1>14. ASSUME NEW v, v \in Range(o) PROVE \E e \in es : e.key = key /\ e.value = v
  <2>1. PICK i \in 1..r : v = o[i]
    BY <1>10, <1>14 DEF Range
  <2>2. OnList(list, f[i]) /\ f[i] \in Entry /\ f[i].key = key /\ f[i].value = v
    BY <1>4, <1>6, <1>10, <1>11, <2>1
  <2>3. InLeaf(nodes, f[i])
    BY <1>2, <2>2 DEF InLeaf
  <2> QED  BY <1>13, <2>2, <2>3 DEF Holds
<1>15. ASSUME NEW e \in es, e.key = key PROVE e.value \in Range(o)
  <2>1. PICK n \in DOMAIN nodes : nodes[n] \in LeafNode /\ OnList(nodes[n].entries, e)
    BY <1>13 DEF Holds, InLeaf
  <2>2. PICK x \in DOMAIN nodes[n].entries : nodes[n].entries[x] = e
    BY <2>1 DEF OnList
  <2>3. n = leaf
    <3>1. Frame(nodes, span, level, tree.height) /\ Stocked(nodes, span)
      BY DEF Upright, Sound
    <3>2. nodes[n].entries[x].key \in span[leaf]
      BY <1>2, <1>15, <2>2
    <3> HIDE DEF leaf
    <3> QED  BY <1>2, <2>1, <3>1, <3>2, LeavesApart
  <2>4. ~ Less(e.key, key)
    BY <1>15, LessIrreflexive
  <2>5. OnList(f, e)
    BY <1>4, <2>1, <2>3, <2>4
  <2>6. PICK i \in 1..Len(f) : f[i] = e
    BY <1>5, <2>5 DEF OnList
  <2>7. i \in 1..r
    <3>1. i <= r
      BY <1>10, <1>15, <2>6
    <3> QED  BY <1>5, <1>10, <3>1
  <2>8. i \in DOMAIN o /\ o[i] = e.value
    BY <1>10, <2>6, <2>7
  <2> QED  BY <2>8 DEF Range
<1>16. FoundIs(o, es, key)
  BY <1>12, <1>14, <1>15 DEF FoundIs
<1>17. Get(tree, key) = IF o = << >> THEN << >> ELSE <<o[1]>>
  <2>1. Len(list) \in Nat /\ c \in 0..Len(list) /\ Len(f) = Len(list) - c /\ \A i \in 1..(Len(list) - c) : f[i] = list[c + i]
    BY <1>3 DEF FromIs
  <2> HIDE DEF list
  <2>2. CASE r = 0
    <3>1. ~ (c + 1 <= Len(list) /\ list[c + 1].key = key)
      <4> SUFFICES ASSUME c + 1 <= Len(list), list[c + 1].key = key PROVE FALSE
        OBVIOUS
      <4>1. 1 \in 1..(Len(list) - c) /\ 1 \in 1..Len(f)
        BY <2>1
      <4>2. f[1].key = key
        BY <2>1, <4>1
      <4>3. ~ (1 <= r)
        BY <2>2
      <4> QED  BY <1>10, <4>1, <4>2, <4>3
    <3>2. o = << >>
      BY <1>10, <2>2
    <3> QED  BY <1>9, <3>1, <3>2, Zenon
  <2>3. CASE r # 0
    <3>1. 1 \in 1..r /\ 1 \in 1..Len(f) /\ 1 <= r
      BY <1>5, <1>10, <2>3
    <3>2. 1 \in 1..(Len(list) - c) /\ c + 1 <= Len(list)
      BY <2>1, <3>1
    <3>3. f[1] = list[c + 1] /\ f[1].key = key /\ o[1] = f[1].value
      BY <1>10, <2>1, <3>1, <3>2
    <3>4. o # << >>
      BY <1>10, <2>3
    <3> QED  BY <1>9, <3>2, <3>3, <3>4, Zenon
  <2> QED  BY <2>2, <2>3
<1> QED  BY <1>16, <1>17 DEF o

\* A tree that keeps its entries answers get, get_all and scan_from exactly, for
\* any keys (btree.rs:208-309).
THEOREM KeepsExact ==
  ASSUME NEW tree, NEW es, Keeps(tree, es), NEW keys \in SUBSET Key
  PROVE  Exact(tree, es, keys)
<1>1. PICK span, level, chain : Upright(tree, span, level, chain, es)
  BY DEF Keeps
<1>2. WellShaped(tree)
  BY KeepsShape
<1>3. OnlyRunsOverfill(tree, es)
  <2>1. tree.nodes \in Seq(Node)
    BY <1>1 DEF Upright, Sound, Frame
  <2>2. Leaves(tree) = {n \in DOMAIN tree.nodes : tree.nodes[n] \in LeafNode}
    BY <2>1, KindsOf
  <2>3. CASE Heavy(es)
    BY <2>3 DEF Heavy, OnlyRunsOverfill
  <2>4. CASE Roomy(tree.nodes)
    <3>1. \A n \in Leaves(tree) : ~ (Len(tree.nodes[n].entries) > LeafMax)
      <4> TAKE n \in Leaves(tree)
      <4>1. n \in DOMAIN tree.nodes /\ tree.nodes[n] \in LeafNode
        BY <2>2
      <4>2. Len(tree.nodes[n].entries) <= LeafMax
        BY <2>4, <4>1 DEF Roomy
      <4>3. Len(tree.nodes[n].entries) \in Nat
        BY <4>1, NodeKinds
      <4> QED  BY <4>2, <4>3, TreeBounds
    <3> QED  BY <3>1, Zenon DEF OnlyRunsOverfill
  <2> QED  BY <2>3, <2>4 DEF Keeps
<1>4. tree.entries = Cardinality(es)
  BY DEF Keeps
<1>5. es \subseteq Entry
  BY <1>1 DEF Upright, Sound, Holds
<1>6. \A e \in es : e.key \in Key
  BY <1>5 DEF Entry
<1>7. \A key \in Key : Lists(ScanFrom(tree, key), {e \in es : ~ Less(e.key, key)})
  <2> TAKE key \in Key
  <2> DEFINE s == ScanFrom(tree, key)
  <2>1. ListsFrom(s, es, key)
    BY <1>1, ScanLists
  <2> HIDE DEF s
  <2>2. \A e : e \in Range(s) <=> OnList(s, e)
    BY DEF Range, OnList
  <2>3. Range(s) = {e \in es : ~ Less(e.key, key)}
    BY <2>1, <2>2 DEF ListsFrom
  <2>4. \A i, j \in DOMAIN s : i < j => Below(s[i], s[j])
    BY <2>1 DEF ListsFrom, Sorted
  <2> QED  BY <2>3, <2>4 DEF Lists, s
<1>8. Lists(ScanFrom(tree, << >>), es)
  <2>1. << >> \in Key
    <3>1. \A none : none = << >> => none \in Key
      BY DEF Key
    <3> QED  BY <3>1
  <2>2. {e \in es : ~ Less(e.key, << >>)} = es
    BY <1>6, LessEmpty
  <2> QED  BY <1>7, <2>1, <2>2
<1>9. ASSUME NEW key \in keys
      PROVE  /\ Ascends(GetAll(tree, key)) /\ Range(GetAll(tree, key)) = {e.value : e \in {f \in es : f.key = key}}
             /\ Get(tree, key) = IF GetAll(tree, key) = << >> THEN << >> ELSE <<GetAll(tree, key)[1]>>
  <2>1. /\ FoundIs(GetAll(tree, key), es, key)
        /\ Get(tree, key) = IF GetAll(tree, key) = << >> THEN << >> ELSE <<GetAll(tree, key)[1]>>
    BY <1>1, FoundExactly
  <2> DEFINE o == GetAll(tree, key)
  <2>2. FoundIs(o, es, key)
    BY <2>1
  <2> HIDE DEF o
  <2>3. Ascends(o) /\ Range(o) = {e.value : e \in {f \in es : f.key = key}}
    BY <2>2 DEF FoundIs
  <2> QED  BY <2>1, <2>3 DEF o
<1>10. \A key \in keys : Lists(ScanFrom(tree, key), {e \in es : ~ Less(e.key, key)})
  BY <1>7
<1> QED  BY <1>2, <1>3, <1>4, <1>8, <1>9, <1>10, Zenon DEF Exact

----------------------------------------------------------------------------
(* Tables and their indexes.                                               *)

\* The column of an index that may exist.
LEMMA ColumnIs ==
  ASSUME NEW x \in Indexable
  PROVE  x[1] \in Tables /\ ColPos(Schema[x[1]], x[2]) \in DOMAIN Schema[x[1]]
<1> DEFINE schema == Schema[x[1]]  at == {i \in DOMAIN schema : schema[i] = x[2]}
<1>1. x[1] \in Tables /\ \E i \in DOMAIN schema : schema[i] = x[2]
  BY IndexesFit
<1>2. DOMAIN schema = 1..Len(schema) /\ Len(schema) \in Nat
  BY <1>1, RowsFit
<1>3. at # {} /\ at \in SUBSET Nat /\ at \subseteq DOMAIN schema
  BY <1>1, <1>2
<1>4. ColPos(schema, x[2]) = CHOOSE i \in at : \A j \in at : i <= j
  BY <1>3 DEF ColPos
<1> HIDE DEF at
<1>5. \E i \in at : \A j \in at : i <= j
  <2>1. PICK i \in at : \A j \in at : ~ (j < i)
    BY <1>3, LeastNumber
  <2>2. \A j \in at : i <= j
    <3> TAKE j \in at
    <3>1. i \in Nat /\ j \in Nat
      BY <1>3
    <3> QED  BY <2>1, <3>1
  <2> QED  BY <2>2
<1>6. ColPos(schema, x[2]) \in at
  BY <1>4, <1>5, Zenon
<1> QED  BY <1>1, <1>3, <1>6

\* What a row has in a column.
LEMMA CellFacts ==
  ASSUME NEW t \in Tables, NEW row \in RowsOf[t], NEW c \in DOMAIN Schema[t]
  PROVE  row # Absent /\ row[c] \in Seq(Int) \ {<< >>} /\ IndexKey(row[c]) \in Key
<1>1. /\ row \in Seq(Seq(Int) \ {<< >>}) /\ Len(row) = Len(Schema[t])
      /\ Len(Schema[t]) \in Nat \ {0} /\ DOMAIN Schema[t] = 1..Len(Schema[t])
  BY RowsFit
<1>2. c \in 1..Len(row) /\ Len(row) # 0
  BY <1>1
<1>3. row # Absent
  BY <1>2 DEF Absent
<1>4. row[c] \in Seq(Int) \ {<< >>}
  BY <1>1, <1>2
<1> DEFINE v == row[c]  rest == Tail(v)  head == <<1, Len(rest)>>
<1>5. v \in Seq(Int) /\ v # << >>
  BY <1>4
<1> HIDE DEF v
<1>6. rest \in Seq(Int) /\ Len(rest) \in Nat
  BY <1>5
<1>7. head \in Seq(Int)
  <2> HIDE DEF rest
  <2> QED  BY <1>6
<1>8. head \o rest \in Seq(Int)
  <2> HIDE DEF head, rest
  <2> QED  BY <1>6, <1>7
<1>9. IndexKey(v) = v \/ IndexKey(v) = head \o rest
  BY Zenon DEF IndexKey, Chars
<1>10. IndexKey(v) \in Key
  <2> HIDE DEF head, rest
  <2> QED  BY <1>5, <1>8, <1>9 DEF Key
<1> QED  BY <1>3, <1>4, <1>10 DEF v

\* The entries of a row.
RowEntries(row, c, rid) == IF row[c] = Null THEN {} ELSE {[key |-> IndexKey(row[c]), value |-> rid]}

\* Filing a row in an index adds its entry.
LEMMA IndexedKeeps ==
  ASSUME NEW t \in Tables, NEW row \in RowsOf[t], NEW column, ColPos(Schema[t], column) \in DOMAIN Schema[t],
         NEW rid \in Nat, NEW tree, NEW es, Keeps(tree, es), \A e \in es : e.value # rid
  PROVE  Keeps(Indexed(tree, column, t, row, rid), es \cup RowEntries(row, ColPos(Schema[t], column), rid))
<1> DEFINE c == ColPos(Schema[t], column)  v == row[c]  key == IndexKey(v)  e == [key |-> key, value |-> rid]
           res == Indexed(tree, column, t, row, rid)
<1>1. key \in Key
  BY CellFacts
<1>2. res = IF v = Null THEN tree ELSE TreeInsert(tree, key, rid)
  BY DEF Indexed
<1>3. RowEntries(row, c, rid) = IF v = Null THEN {} ELSE {e}
  BY DEF RowEntries
<1>4. e \notin es
  OBVIOUS
<1>5. CASE v = Null
  BY <1>2, <1>3, <1>5
<1>6. CASE v # Null
  <2>1. res = TreeInsert(tree, key, rid) /\ RowEntries(row, c, rid) = {e}
    BY <1>2, <1>3, <1>6
  <2> HIDE DEF res, c, v, key
  <2>2. Keeps(TreeInsert(tree, key, rid), es \cup {e})
    BY <1>1, <1>4, TreeInsertKeeps
  <2> QED  BY <2>1, <2>2 DEF res, c
<1> QED  BY <1>5, <1>6

\* The entries of the first rows of a table.
Files(list, c, i, e) == list[i] # Absent /\ list[i][c] # Null /\ e = [key |-> IndexKey(list[i][c]), value |-> i]
EntriesUpTo(list, c, n) ==
  {[key |-> IndexKey(list[i][c]), value |-> i] :
     i \in {j \in DOMAIN list : j <= n /\ list[j] # Absent /\ list[j][c] # Null}}

LEMMA EntriesUpToAre ==
  \A list, c, n, e : e \in EntriesUpTo(list, c, n) <=> \E i \in DOMAIN list : i <= n /\ Files(list, c, i, e)
BY DEF EntriesUpTo, Files

LEMMA EntriesAre ==
  \A x, e : e \in EntriesOf(x) <=>
    \E i \in DOMAIN rows[x[1]] : Files(rows[x[1]], ColPos(Schema[x[1]], x[2]), i, e)
BY DEF EntriesOf, EntryOf, Filed, Files

\* The backfill of a new index files the rows of its table.
LEMMA BackfilledKeeps ==
  ASSUME NEW x \in Indexable, rows[x[1]] \in Seq(RowsOf[x[1]] \cup {Absent})
  PROVE  Keeps(Backfilled(x[1], x[2]), EntriesOf(x))
<1> DEFINE t == x[1]  column == x[2]  list == rows[t]  n == Len(list)  c == ColPos(Schema[t], column)
           Fill(tree, i) == IF list[i] = Absent THEN tree ELSE Indexed(tree, column, t, list[i], i)
           Upto(k, f) == f[0] = EmptyTree /\ \A i \in 1..k : f[i] = Fill(f[i - 1], i)
           Fun(f) == f = [i \in 0..n |-> f[i]]
           Good(k, f) == Keeps(f[k], EntriesUpTo(list, c, k))
           D == {k \in 0..n : \E f : Fun(f) /\ Upto(k, f) /\ Good(k, f)}
<1>1. t \in Tables /\ c \in DOMAIN Schema[t]
  BY ColumnIs
<1>2. n \in Nat /\ DOMAIN list = 1..n /\ \A i \in 1..n : list[i] \in RowsOf[t] \/ list[i] = Absent
  OBVIOUS
<1>3. Backfilled(t, column) = (CHOOSE f : f = [i \in 0..n |-> IF i = 0 THEN EmptyTree ELSE Fill(f[i - 1], i)])[n]
  BY DEF Backfilled
<1> HIDE DEF list, n, t, column, c
<1>4. 0 \in D
  <2> DEFINE f == [i \in 0..n |-> EmptyTree]
  <2>1. Fun(f) /\ f[0] = EmptyTree /\ 0 \in 0..n
    BY <1>2
  <2> HIDE DEF f
  <2>2. Upto(0, f)
    BY <2>1
  <2>3. EntriesUpTo(list, c, 0) = {}
    <3>1. \A i \in DOMAIN list : ~ (i <= 0)
      BY <1>2
    <3> QED  BY <3>1, EntriesUpToAre
  <2>4. Good(0, f)
    BY <2>1, <2>3, EmptyTreeKeeps
  <2> QED  BY <2>1, <2>2, <2>4
<1>5. ASSUME NEW k \in 0..(n - 1), k \in D PROVE k + 1 \in D
  <2>1. PICK f : Fun(f) /\ Upto(k, f) /\ Good(k, f)
    BY <1>5
  <2> DEFINE m == k + 1  v == Fill(f[k], m)
             g == [i \in 0..n |-> IF i = m THEN v ELSE f[i]]
  <2>2. m \in 0..n /\ m \in 1..n /\ \A i \in 0..k : i \in 0..n /\ i # m
    BY <1>2
  <2>3. Fun(g) /\ g[m] = v /\ \A i \in 0..k : g[i] = f[i]
    <3> HIDE DEF v, m
    <3> QED  BY <2>2
  <2> HIDE DEF g
  <2>4. ASSUME NEW i \in 1..m PROVE g[i] = Fill(g[i - 1], i)
    <3> HIDE DEF Fill
    <3>1. CASE i = m
      <4>1. i - 1 = k /\ k \in 0..k
        BY <3>1
      <4>2. g[i - 1] = f[k]
        BY <2>3, <4>1
      <4> QED  BY <2>3, <3>1, <4>2, Zenon
    <3>2. CASE i # m
      <4>1. i \in 1..k /\ i \in 0..k /\ i - 1 \in 0..k
        BY <3>2
      <4> QED  BY <2>1, <2>3, <4>1
    <3> QED  BY <3>1, <3>2
  <2>5. g[0] = EmptyTree
    <3>1. 0 \in 0..k
      OBVIOUS
    <3> QED  BY <2>1, <2>3, <3>1
  <2>6. Good(m, g)
    <3> DEFINE es == EntriesUpTo(list, c, k)  row == list[m]
    <3>1. Keeps(f[k], es) /\ m \in Nat
      BY <2>1
    <3>2. \A i \in 1..n : i <= m <=> (i <= k \/ i = m)
      BY <1>2
    <3>3. \A e : e \in EntriesUpTo(list, c, m) <=> e \in es \/ Files(list, c, m, e)
      <4> HIDE DEF m
      <4> QED  BY <1>2, <2>2, <3>2, EntriesUpToAre
    <3>4. \A e \in es : e.value # m
      <4> TAKE e \in es
      <4>1. PICK i \in 1..n : i <= k /\ e = [key |-> IndexKey(list[i][c]), value |-> i]
        BY <1>2, EntriesUpToAre DEF Files
      <4>2. e.value = i
        BY <4>1
      <4>3. i # m
        BY <4>1
      <4> QED  BY <4>2, <4>3
    <3> HIDE DEF m, es
    <3>5. CASE row = Absent
      <4>1. EntriesUpTo(list, c, m) = es
        BY <3>3, <3>5 DEF Files
      <4>2. g[m] = f[k]
        BY <2>3, <3>5
      <4> QED  BY <3>1, <4>1, <4>2
    <3>6. CASE row # Absent
      <4>1. row \in RowsOf[t]
        BY <1>2, <2>2, <3>6
      <4>2. EntriesUpTo(list, c, m) = es \cup RowEntries(row, c, m)
        BY <3>3, <3>6 DEF Files, RowEntries
      <4>3. g[m] = Indexed(f[k], column, t, row, m)
        BY <2>3, <3>6
      <4> HIDE DEF row
      <4>4. Keeps(Indexed(f[k], column, t, row, m), es \cup RowEntries(row, c, m))
        BY <1>1, <3>1, <3>4, <4>1, IndexedKeeps DEF c
      <4> QED  BY <4>2, <4>3, <4>4
    <3> QED  BY <3>5, <3>6
  <2>7. Upto(m, g)
    <3> HIDE DEF Fill, m
    <3> QED  BY <2>4, <2>5
  <2> QED  BY <2>2, <2>3, <2>6, <2>7
<1>6. n \in D
  <2> HIDE DEF D
  <2>1. \A k \in 0..(n - 1) : k \in D => k + 1 \in D
    BY <1>5
  <2>2. \A k \in 0..n : k \in D
    BY <1>2, <1>4, <2>1, InductionTo
  <2> QED  BY <1>2, <2>2
<1>7. PICK f : Fun(f) /\ Upto(n, f) /\ Good(n, f)
  BY <1>6
<1> HIDE DEF D, Fill
<1>8. \A i \in 0..n : f[i] = IF i = 0 THEN EmptyTree ELSE Fill(f[i - 1], i)
  <2> TAKE i \in 0..n
  <2>1. i = 0 \/ (i # 0 /\ i \in 1..n)
    BY <1>2
  <2> QED  BY <1>7, <2>1, Zenon
<1>9. f = [i \in 0..n |-> IF i = 0 THEN EmptyTree ELSE Fill(f[i - 1], i)]
  BY <1>7, <1>8, Zenon
<1> DEFINE done == CHOOSE g : g = [i \in 0..n |-> IF i = 0 THEN EmptyTree ELSE Fill(g[i - 1], i)]
<1>10. done = [i \in 0..n |-> IF i = 0 THEN EmptyTree ELSE Fill(done[i - 1], i)]
  BY <1>9, Zenon
<1> HIDE DEF done
<1>11. \A i \in 0..n : done[i] = f[i]
  <2> DEFINE T == {i \in 0..n : done[i] = f[i]}
  <2>1. done[0] = EmptyTree /\ \A i \in 1..n : done[i] = Fill(done[i - 1], i)
    BY <1>2, <1>10
  <2>2. 0 \in T
    BY <1>2, <1>7, <2>1
  <2>3. ASSUME NEW i \in 0..(n - 1), i \in T PROVE i + 1 \in T
    <3>1. i + 1 \in 1..n /\ (i + 1) - 1 = i /\ i + 1 \in 0..n
      BY <1>2
    <3>2. done[i + 1] = Fill(done[i], i + 1) /\ f[i + 1] = Fill(f[i], i + 1) /\ done[i] = f[i]
      BY <1>7, <2>1, <2>3, <3>1
    <3> QED  BY <3>1, <3>2
  <2> HIDE DEF T
  <2>4. \A i \in 0..(n - 1) : i \in T => i + 1 \in T
    BY <2>3
  <2>5. \A i \in 0..n : i \in T
    BY <1>2, <2>2, <2>4, InductionTo
  <2> QED  BY <2>5 DEF T
<1>12. Keeps(done[n], EntriesUpTo(list, c, n))
  <2>1. done[n] = f[n]
    BY <1>2, <1>11
  <2> QED  BY <1>7, <2>1
<1>13. EntriesUpTo(list, c, n) = EntriesOf(x)
  <2>1. \A i \in DOMAIN list : i <= n
    BY <1>2
  <2>2. \A e : e \in EntriesOf(x) <=> \E i \in DOMAIN list : Files(list, c, i, e)
    BY EntriesAre DEF list, c, t, column
  <2> QED  BY <2>1, <2>2, EntriesUpToAre
<1>14. Backfilled(t, column) = done[n]
  BY <1>3 DEF done
<1> QED  BY <1>12, <1>13, <1>14 DEF t, column

\* The entries of the rows of a list.
EntriesIn(list, c) ==
  {[key |-> IndexKey(list[i][c]), value |-> i] : i \in {j \in DOMAIN list : list[j] # Absent /\ list[j][c] # Null}}

LEMMA EntriesInAre ==
  \A list, c, e : e \in EntriesIn(list, c) <=> \E i \in DOMAIN list : Files(list, c, i, e)
BY DEF EntriesIn, Files

LEMMA EntriesOfIs ==
  ASSUME NEW x PROVE EntriesOf(x) = EntriesIn(rows[x[1]], ColPos(Schema[x[1]], x[2]))
BY DEF EntriesOf, EntryOf, Filed, EntriesIn

\* The list with a row where there was none.
Gains(new, list, rid, row) ==
  /\ DOMAIN new = DOMAIN list \cup {rid} /\ (rid \in DOMAIN list => list[rid] = Absent)
  /\ new[rid] = row /\ \A i \in DOMAIN list \ {rid} : new[i] = list[i]

LEMMA RowGained ==
  ASSUME NEW list, NEW new, NEW rid, NEW row, row # Absent, Gains(new, list, rid, row), NEW c
  PROVE  /\ EntriesIn(new, c) = EntriesIn(list, c) \cup RowEntries(row, c, rid)
         /\ \A e \in EntriesIn(list, c) : e.value # rid
<1>1. /\ DOMAIN new = DOMAIN list \cup {rid} /\ (rid \in DOMAIN list => list[rid] = Absent)
      /\ new[rid] = row /\ \A i \in DOMAIN list \ {rid} : new[i] = list[i]
  BY DEF Gains
<1>2. \A e : e \in RowEntries(row, c, rid) <=> Files(new, c, rid, e)
  BY <1>1 DEF RowEntries, Files
<1>3. \A e, i : i \in DOMAIN list /\ Files(list, c, i, e) <=> i \in DOMAIN list /\ i # rid /\ Files(new, c, i, e)
  BY <1>1 DEF Files
<1>4. \A e : e \in EntriesIn(new, c) <=> e \in EntriesIn(list, c) \/ e \in RowEntries(row, c, rid)
  <2> TAKE e
  <2>1. e \in EntriesIn(new, c) <=> \E i \in DOMAIN new : Files(new, c, i, e)
    BY EntriesInAre
  <2>2. e \in EntriesIn(list, c) <=> \E i \in DOMAIN list : Files(list, c, i, e)
    BY EntriesInAre
  <2> QED  BY <1>1, <1>2, <1>3, <2>1, <2>2, Zenon
<1>5. \A e \in EntriesIn(list, c) : e.value # rid
  <2> TAKE e \in EntriesIn(list, c)
  <2>1. PICK i \in DOMAIN list : Files(list, c, i, e)
    BY EntriesInAre
  <2>2. i # rid
    BY <1>3, <2>1
  <2>3. e.value = i
    BY <2>1 DEF Files
  <2> QED  BY <2>2, <2>3
<1> QED  BY <1>4, <1>5

\* The rows of the tables, and the row an open transaction holds back.
TablesOK ==
  /\ DOMAIN rows = Tables
  /\ \A t \in Tables : rows[t] \in Seq(RowsOf[t] \cup {Absent})
  /\ held # Nobody => /\ held.table \in Tables /\ held.row \in RowsOf[held.table]
                      /\ held.rid \in DOMAIN rows[held.table]
                      /\ rows[held.table][held.rid] = Absent

\* Every index keeps the entries of its table.
IndexesOK ==
  /\ DOMAIN trees \subseteq Indexable
  /\ \A x \in DOMAIN trees : Keeps(trees[x], EntriesIn(rows[x[1]], ColPos(Schema[x[1]], x[2])))

IInv == TablesOK /\ IndexesOK

\* A row that reaches the tables reaches their indexes.
LEMMA RowReachesIndexes ==
  ASSUME IndexesOK, NEW t \in Tables, NEW row \in RowsOf[t], NEW rid \in Nat,
         Gains(rows'[t], rows[t], rid, row), \A u \in Tables \ {t} : rows'[u] = rows[u],
         Materialized(t, row, rid)
  PROVE  IndexesOK'
<1> DEFINE column(x) == ColPos(Schema[x[1]], x[2])
<1>1. trees' = [x \in DOMAIN trees |-> IF x[1] = t THEN Indexed(trees[x], x[2], t, row, rid) ELSE trees[x]]
  BY DEF Materialized
<1>2. DOMAIN trees' = DOMAIN trees /\ DOMAIN trees \subseteq Indexable
  BY <1>1 DEF IndexesOK
<1>3. ASSUME NEW x \in DOMAIN trees
      PROVE  Keeps(trees'[x], EntriesIn(rows'[x[1]], column(x)))
  <2> DEFINE es == EntriesIn(rows[x[1]], column(x))
  <2>1. x \in Indexable /\ x[1] \in Tables /\ column(x) \in DOMAIN Schema[x[1]]
    BY <1>2, ColumnIs
  <2>2. Keeps(trees[x], es)
    BY DEF IndexesOK
  <2>3. CASE x[1] = t
    <3> DEFINE c == column(x)
    <3>1. trees'[x] = Indexed(trees[x], x[2], t, row, rid)
      BY <1>1, <2>3
    <3>2. c \in DOMAIN Schema[t] /\ c = ColPos(Schema[t], x[2]) /\ es = EntriesIn(rows[t], c)
      BY <2>1, <2>3
    <3>3. row # Absent
      <4> HIDE DEF c
      <4> QED  BY <3>2, CellFacts
    <3> HIDE DEF c, es
    <3>4. EntriesIn(rows'[t], c) = es \cup RowEntries(row, c, rid) /\ \A e \in es : e.value # rid
      BY <3>2, <3>3, RowGained
    <3>5. Keeps(Indexed(trees[x], x[2], t, row, rid), es \cup RowEntries(row, c, rid))
      BY <2>2, <3>2, <3>4, IndexedKeeps
    <3>6. Keeps(trees'[x], EntriesIn(rows'[t], c))
      BY <3>1, <3>4, <3>5
    <3> QED  BY <2>3, <3>6 DEF c
  <2>4. CASE x[1] # t
    <3>1. trees'[x] = trees[x] /\ rows'[x[1]] = rows[x[1]]
      BY <1>1, <2>1, <2>4
    <3> QED  BY <2>2, <3>1
  <2> QED  BY <2>3, <2>4
<1> QED  BY <1>2, <1>3 DEF IndexesOK

\* The tables begin empty and without indexes.
LEMMA IndexedInit == Init => IInv
<1> SUFFICES ASSUME Init PROVE IInv
  OBVIOUS
<1>1. rows = [t \in Tables |-> << >>] /\ trees = << >> /\ held = Nobody
  BY DEF Init
<1>2. DOMAIN trees = {}
  BY <1>1
<1>3. TablesOK
  <2>1. \A none, S : none = << >> => none \in Seq(S)
    OBVIOUS
  <2>2. DOMAIN rows = Tables /\ \A t \in Tables : rows[t] = << >>
    BY <1>1
  <2> QED  BY <1>1, <2>1, <2>2 DEF TablesOK
<1> QED  BY <1>2, <1>3 DEF IInv, IndexesOK

\* Every step keeps the rows and the indexes in agreement.
LEMMA IndexedStep == IInv /\ [Next]_vars => IInv'
<1> SUFFICES ASSUME IInv, [Next]_vars PROVE IInv'
  OBVIOUS
<1>1. TablesOK /\ IndexesOK
  BY DEF IInv
<1>2. DOMAIN rows = Tables /\ \A t \in Tables : rows[t] \in Seq(RowsOf[t] \cup {Absent})
  BY <1>1 DEF TablesOK
<1>3. held # Nobody => /\ held.table \in Tables /\ held.row \in RowsOf[held.table]
                       /\ held.rid \in DOMAIN rows[held.table]
                       /\ rows[held.table][held.rid] = Absent
  BY <1>1 DEF TablesOK
<1>4. ASSUME NEW t \in Tables, NEW row \in RowsOf[t], Insert(t, row) PROVE IInv'
  <2> DEFINE list == rows[t]  new == Append(list, row)  rid == Len(list) + 1
  <2>1. rows' = [rows EXCEPT ![t] = new] /\ Materialized(t, row, rid) /\ held' = held
    BY <1>4 DEF Insert
  <2>2. list \in Seq(RowsOf[t] \cup {Absent})
    BY <1>2
  <2>3. /\ new \in Seq(RowsOf[t] \cup {Absent}) /\ rid \in Nat /\ rid \notin DOMAIN list
        /\ DOMAIN new = DOMAIN list \cup {rid} /\ new[rid] = row
        /\ \A i \in DOMAIN list : new[i] = list[i]
    BY <2>2
  <2> HIDE DEF new, rid
  <2>4. DOMAIN rows' = Tables /\ rows'[t] = new /\ \A u \in Tables \ {t} : rows'[u] = rows[u]
    BY <1>2, <2>1
  <2>5. Gains(new, list, rid, row)
    BY <2>3 DEF Gains
  <2> HIDE DEF list
  <2>6. IndexesOK'
    BY <1>1, <2>1, <2>3, <2>4, <2>5, RowReachesIndexes DEF list
  <2>7. held # Nobody => held.rid \in DOMAIN rows'[held.table] /\ rows'[held.table][held.rid] = Absent
    <3>1. held # Nobody /\ held.table = t => held.rid \in DOMAIN new /\ new[held.rid] = Absent
      BY <1>3, <2>3 DEF list
    <3> QED  BY <1>3, <2>4, <3>1
  <2>8. TablesOK'
    BY <1>2, <1>3, <2>1, <2>3, <2>4, <2>7 DEF TablesOK
  <2> QED  BY <2>6, <2>8 DEF IInv
<1>5. ASSUME NEW t \in Tables, NEW row \in RowsOf[t], Hold(t, row) PROVE IInv'
  <2> DEFINE list == rows[t]  new == Append(list, Absent)  rid == Len(list) + 1
  <2>1. rows' = [rows EXCEPT ![t] = new] /\ held' = [table |-> t, row |-> row, rid |-> rid] /\ trees' = trees
    BY <1>5 DEF Hold
  <2>2. list \in Seq(RowsOf[t] \cup {Absent})
    BY <1>2
  <2>3. /\ new \in Seq(RowsOf[t] \cup {Absent}) /\ rid \in DOMAIN new /\ rid \notin DOMAIN list
        /\ DOMAIN new = DOMAIN list \cup {rid} /\ new[rid] = Absent
        /\ \A i \in DOMAIN list : new[i] = list[i]
    BY <2>2
  <2> HIDE DEF new, rid
  <2>4. DOMAIN rows' = Tables /\ rows'[t] = new /\ \A u \in Tables \ {t} : rows'[u] = rows[u]
    BY <1>2, <2>1
  <2> HIDE DEF list
  <2>5. \A c : EntriesIn(new, c) = EntriesIn(list, c)
    <3> TAKE c
    <3>1. \A e : e \in EntriesIn(new, c) <=> e \in EntriesIn(list, c)
      <4> TAKE e
      <4>1. \A i \in DOMAIN new : Files(new, c, i, e) <=> i \in DOMAIN list /\ Files(list, c, i, e)
        BY <2>3 DEF Files
      <4> QED  BY <2>3, <4>1, EntriesInAre
    <3> QED  BY <3>1
  <2>6. IndexesOK'
    <3>1. ASSUME NEW x \in DOMAIN trees
          PROVE  Keeps(trees[x], EntriesIn(rows'[x[1]], ColPos(Schema[x[1]], x[2])))
      <4>1. x[1] \in Tables
        BY <1>1, ColumnIs DEF IndexesOK
      <4>2. EntriesIn(rows'[x[1]], ColPos(Schema[x[1]], x[2])) = EntriesIn(rows[x[1]], ColPos(Schema[x[1]], x[2]))
        BY <2>4, <2>5, <4>1 DEF list
      <4> QED  BY <1>1, <4>2 DEF IndexesOK
    <3> QED  BY <1>1, <2>1, <3>1 DEF IndexesOK
  <2>7. held'.table = t /\ held'.row = row /\ held'.rid = rid
    BY <2>1
  <2>8. TablesOK'
    BY <1>2, <2>3, <2>4, <2>7 DEF TablesOK
  <2> QED  BY <2>6, <2>8 DEF IInv
<1>6. ASSUME CommitHeld PROVE IInv'
  <2> DEFINE t == held.table  row == held.row  rid == held.rid  list == rows[t]  new == [list EXCEPT ![rid] = row]
  <2>1. /\ held # Nobody /\ rows' = [rows EXCEPT ![t] = new]
        /\ Materialized(t, row, rid) /\ held' = Nobody
    BY <1>6 DEF CommitHeld
  <2>2. t \in Tables /\ row \in RowsOf[t] /\ rid \in DOMAIN list /\ list[rid] = Absent
    BY <1>3, <2>1
  <2>3. list \in Seq(RowsOf[t] \cup {Absent})
    BY <1>2, <2>2
  <2> HIDE DEF t, row, rid, list
  <2>4. /\ new \in Seq(RowsOf[t] \cup {Absent}) /\ DOMAIN new = DOMAIN list /\ new[rid] = row /\ rid \in Nat
        /\ \A i \in DOMAIN list \ {rid} : new[i] = list[i]
    BY <2>2, <2>3
  <2> HIDE DEF new
  <2>5. DOMAIN rows' = Tables /\ rows'[t] = new /\ \A u \in Tables \ {t} : rows'[u] = rows[u]
    BY <1>2, <2>1, <2>2
  <2>6. Gains(new, list, rid, row)
    BY <2>2, <2>4 DEF Gains
  <2>7. IndexesOK'
    BY <1>1, <2>1, <2>2, <2>4, <2>5, <2>6, RowReachesIndexes DEF list
  <2>8. TablesOK'
    BY <1>2, <2>1, <2>4, <2>5 DEF TablesOK
  <2> QED  BY <2>7, <2>8 DEF IInv
<1>7. ASSUME RollbackHeld PROVE IInv'
  BY <1>1, <1>2, <1>7 DEF RollbackHeld, IInv, TablesOK, IndexesOK
<1>8. ASSUME NEW x \in Indexable, CreateIndex(x[1], x[2]) PROVE IInv'
  <2> DEFINE y == <<x[1], x[2]>>
  <2>1. /\ y \in Indexable
        /\ trees' = [z \in DOMAIN trees \cup {y} |-> IF z = y THEN Backfilled(x[1], x[2]) ELSE trees[z]]
        /\ rows' = rows /\ held' = held
    BY <1>8 DEF CreateIndex
  <2>2. y[1] = x[1] /\ y[2] = x[2]
    OBVIOUS
  <2>3. Keeps(Backfilled(x[1], x[2]), EntriesIn(rows[x[1]], ColPos(Schema[x[1]], x[2])))
    <3> HIDE DEF y
    <3>1. y[1] \in Tables
      BY <2>1, ColumnIs
    <3>2. Keeps(Backfilled(y[1], y[2]), EntriesOf(y))
      BY <1>2, <2>1, <3>1, BackfilledKeeps
    <3>3. EntriesOf(y) = EntriesIn(rows[y[1]], ColPos(Schema[y[1]], y[2]))
      BY EntriesOfIs
    <3> QED  BY <2>2, <3>2, <3>3
  <2> HIDE DEF y
  <2>4. /\ DOMAIN trees' = DOMAIN trees \cup {y} /\ trees'[y] = Backfilled(x[1], x[2])
        /\ \A z \in DOMAIN trees : z # y => trees'[z] = trees[z]
    BY <2>1
  <2>5. IndexesOK'
    <3>1. DOMAIN trees' \subseteq Indexable
      BY <1>1, <2>1, <2>4 DEF IndexesOK
    <3>2. ASSUME NEW z \in DOMAIN trees'
          PROVE  Keeps(trees'[z], EntriesIn(rows'[z[1]], ColPos(Schema[z[1]], z[2])))
      <4>1. CASE z = y
        BY <2>1, <2>2, <2>3, <2>4, <4>1
      <4>2. CASE z # y
        BY <1>1, <2>1, <2>4, <4>2 DEF IndexesOK
      <4> QED  BY <4>1, <4>2
    <3> QED  BY <3>1, <3>2 DEF IndexesOK
  <2>6. TablesOK'
    BY <1>1, <2>1 DEF TablesOK
  <2> QED  BY <2>5, <2>6 DEF IInv
<1>9. ASSUME NEW x \in Indexable, DropIndex(x) PROVE IInv'
  <2>1. trees' = [y \in DOMAIN trees \ {x} |-> trees[y]] /\ rows' = rows /\ held' = held
    BY <1>9 DEF DropIndex
  <2>2. IndexesOK'
    BY <1>1, <2>1 DEF IndexesOK
  <2>3. TablesOK'
    BY <1>1, <2>1 DEF TablesOK
  <2> QED  BY <2>2, <2>3 DEF IInv
<1>10. ASSUME UNCHANGED vars PROVE IInv'
  BY <1>1, <1>10 DEF vars, IInv, TablesOK, IndexesOK
<1> QED  BY <1>4, <1>5, <1>6, <1>7, <1>8, <1>9, <1>10 DEF Next

\* The invariant says what the indexes promise.
LEMMA IndexedExact == IInv => TreesAreExact
<1> SUFFICES ASSUME IInv, NEW x \in DOMAIN trees PROVE Exact(trees[x], EntriesOf(x), KeysOfColumn(x))
  BY DEF TreesAreExact
<1> DEFINE c == ColPos(Schema[x[1]], x[2])
<1>1. x \in Indexable /\ Keeps(trees[x], EntriesIn(rows[x[1]], c))
  BY DEF IInv, IndexesOK
<1>2. x[1] \in Tables /\ c \in DOMAIN Schema[x[1]]
  BY <1>1, ColumnIs
<1>3. EntriesOf(x) = EntriesIn(rows[x[1]], c)
  BY EntriesOfIs
<1>4. KeysOfColumn(x) \in SUBSET Key
  <2>1. \A row \in RowsOf[x[1]] : IndexKey(row[c]) \in Key
    BY <1>2, CellFacts
  <2>2. KeysOfColumn(x) = {IndexKey(row[c]) : row \in {r \in RowsOf[x[1]] : r[c] # Null}}
    BY DEF KeysOfColumn
  <2> HIDE DEF c
  <2> QED  BY <2>1, <2>2
<1> HIDE DEF c
<1> QED  BY <1>1, <1>3, <1>4, KeepsExact

\* In every history of the tables every index is a balanced tree that holds
\* exactly the entries of the committed rows, in order, and finds them again,
\* whatever was split, dropped and built, and whenever its rows were committed
\* (btree.rs:110-309, engine.rs finish_commit and create_index).
THEOREM IndexesStayExact == Spec => []TreesAreExact
<1>1. Spec => []IInv
  BY IndexedInit, IndexedStep, PTL DEF Spec
<1> QED  BY <1>1, IndexedExact, PTL
============================================================================
