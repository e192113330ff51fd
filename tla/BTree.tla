------------------------------- MODULE BTree -------------------------------
(***************************************************************************)
(* The B+tree of crates/qmind-kernel/src/btree.rs: an arena of nodes that  *)
(* maps keys to row ids, duplicates allowed.  A tree is a record on which  *)
(* the operators below work; a key is a sequence of numbers, compared as   *)
(* byte strings are.  Nothing is ever removed from a tree.                 *)
(***************************************************************************)
EXTENDS Integers, Sequences, FiniteSets, SequencesExt

CONSTANTS
  LeafMax,     \* LEAF_MAX: entries of a leaf that is not one run
  InternalMax  \* INTERNAL_MAX_KEYS

\* An internal node of one key splits into nothing and itself.
ASSUME TreeBounds == LeafMax \in Nat \ {0} /\ InternalMax \in Nat \ {0, 1}

NoNode == 0

\* Byte-wise order: a proper prefix comes first.
Less(a, b) ==
  \E i \in 1..Len(b) :
    /\ \A j \in 1..(i - 1) : j <= Len(a) /\ a[j] = b[j]
    /\ i > Len(a) \/ (i <= Len(a) /\ a[i] < b[i])

Leaf(entries, next) == [leaf |-> TRUE, entries |-> entries, next |-> next]
Internal(keys, children) == [leaf |-> FALSE, keys |-> keys, children |-> children]

EmptyTree == [nodes |-> <<Leaf(<< >>, NoNode)>>, root |-> 1, height |-> 1, entries |-> 0]

\* partition_point: how many elements precede the first that fails the test;
\* the code only asks it of sorted vectors.
LowerBound(leaf, key) == Cardinality({i \in DOMAIN leaf.entries : Less(leaf.entries[i].key, key)})

\* child_for: a key equal to a separator goes right.
ChildFor(node, key) ==
  node.children[1 + Cardinality({i \in DOMAIN node.keys : ~ Less(key, node.keys[i])})]

\* A step down; at a leaf the descent is over.
Down(nodes, n, key) == IF nodes[n].leaf THEN n ELSE ChildFor(nodes[n], key)

\* The nodes a key meets from the root to its leaf, which it does not leave: no
\* tree is higher than it has nodes.
Way(tree, key) ==
  LET way[i \in 0..Len(tree.nodes)] ==
        IF i = 0 THEN tree.root ELSE Down(tree.nodes, way[i - 1], key)
  IN way

Descend(tree, key) == Way(tree, key)[Len(tree.nodes)]

\* The order of entries.
Below(a, b) == Less(a.key, b.key) \/ (a.key = b.key /\ a.value < b.value)

NoSplit == [is |-> FALSE]
Split(sep, right) == [is |-> TRUE, sep |-> sep, right |-> right]

MutantCutThroughRun(es) == Len(es) \div 2

\* Where an overfull leaf is cut: never inside a run of equal keys.  The
\* number of entries that stay; all of them means no cut.
CutPoint(es) ==
  LET mid == Len(es) \div 2
      whole(m) == m = Len(es) \/ m = 0 \/ es[m].key # es[m + 1].key
  IN CHOOSE m \in mid..Len(es) : whole(m) /\ \A l \in mid..(m - 1) : ~ whole(l)

InsertLeaf(nodes, n, key, value) ==
  LET leaf == nodes[n]
      new == [key |-> key, value |-> value]
      smaller == {i \in DOMAIN leaf.entries : Below(leaf.entries[i], new)}
      es == InsertAt(leaf.entries, Cardinality(smaller) + 1, new)
      mid == CutPoint(es)
      rightId == Len(nodes) + 1
  IN IF Len(es) <= LeafMax \/ mid = Len(es)
     THEN [nodes |-> [nodes EXCEPT ![n] = Leaf(es, leaf.next)], split |-> NoSplit]
     ELSE [nodes |-> Append([nodes EXCEPT ![n] = Leaf(SubSeq(es, 1, mid), rightId)],
                            Leaf(SubSeq(es, mid + 1, Len(es)), leaf.next)),
           split |-> Split(es[mid + 1].key, rightId)]

\* The separator that moves up is kept in neither half.
InsertSeparator(nodes, n, sep, right) ==
  LET pos == Cardinality({i \in DOMAIN nodes[n].keys : Less(nodes[n].keys[i], sep)})
      keys == InsertAt(nodes[n].keys, pos + 1, sep)
      children == InsertAt(nodes[n].children, pos + 2, right)
      mid == Len(keys) \div 2
  IN IF Len(keys) <= InternalMax
     THEN [nodes |-> [nodes EXCEPT ![n] = Internal(keys, children)], split |-> NoSplit]
     ELSE [nodes |-> Append([nodes EXCEPT ![n] = Internal(SubSeq(keys, 1, mid),
                                                          SubSeq(children, 1, mid + 1))],
                            Internal(SubSeq(keys, mid + 2, Len(keys)),
                                     SubSeq(children, mid + 2, Len(children)))),
           split |-> Split(keys[mid + 1], Len(nodes) + 1)]

\* On the way back a node whose child split takes the separator.
Up(below, n) ==
  IF below.split.is /\ ~ below.nodes[n].leaf
  THEN InsertSeparator(below.nodes, n, below.split.sep, below.split.right) ELSE below

InsertBelow(tree, key, value) ==
  LET last == Len(tree.nodes)
      back[i \in 0..last] ==
        IF i = 0 THEN InsertLeaf(tree.nodes, Descend(tree, key), key, value)
        ELSE Up(back[i - 1], Way(tree, key)[last - i])
  IN back[last]

\* insert: a root that split gets a parent.
TreeInsert(tree, key, value) ==
  LET done == InsertBelow(tree, key, value)
      grown == Append(done.nodes, Internal(<<done.split.sep>>, <<tree.root, done.split.right>>))
  IN IF done.split.is
     THEN [nodes |-> grown, root |-> Len(grown), height |-> tree.height + 1,
           entries |-> tree.entries + 1]
     ELSE [tree EXCEPT !.nodes = done.nodes, !.entries = @ + 1]

\* The first value stored under a key.
Get(tree, key) ==
  LET leaf == tree.nodes[Descend(tree, key)]
      pos == LowerBound(leaf, key) + 1
  IN IF pos <= Len(leaf.entries) /\ leaf.entries[pos].key = key
     THEN <<leaf.entries[pos].value>> ELSE << >>

\* The entries of a leaf from a key on, and the values of the key they begin with.
From(leaf, key) == SubSeq(leaf.entries, LowerBound(leaf, key) + 1, Len(leaf.entries))

RunOf(es, key) ==
  LET run == {i \in DOMAIN es : \A j \in 1..i : es[j].key = key}
  IN [i \in 1..Cardinality(run) |-> es[i].value]

\* get_all walks into the next leaf only when this one ended within the run and
\* that one begins with the key.
RunOn(nodes, w, key) ==
  LET next == nodes[w.node].next
      here == From(nodes[w.node], key)
      goesOn == /\ Len(RunOf(here, key)) = Len(here)
                /\ next # NoNode
                /\ nodes[next].entries # << >> /\ nodes[next].entries[1].key = key
  IN IF goesOn THEN [node |-> next, out |-> w.out \o RunOf(From(nodes[next], key), key)] ELSE w

GetAll(tree, key) ==
  LET leaf == Descend(tree, key)
      walk[i \in 0..Len(tree.nodes)] ==
        IF i = 0 THEN [node |-> leaf, out |-> RunOf(From(tree.nodes[leaf], key), key)]
        ELSE RunOn(tree.nodes, walk[i - 1], key)
  IN walk[Len(tree.nodes)].out

\* scan_from and ScanIter: the entries from a key on, along the leaf links.
ScanOn(nodes, w) ==
  LET next == nodes[w.node].next
  IN IF next = NoNode THEN w ELSE [node |-> next, out |-> w.out \o nodes[next].entries]

ScanFrom(tree, key) ==
  LET leaf == Descend(tree, key)
      walk[i \in 0..Len(tree.nodes)] ==
        IF i = 0 THEN [node |-> leaf, out |-> From(tree.nodes[leaf], key)]
        ELSE ScanOn(tree.nodes, walk[i - 1])
  IN walk[Len(tree.nodes)].out
----------------------------------------------------------------------------
(* What the shape of a tree promises.                                      *)

Leaves(tree) == {n \in DOMAIN tree.nodes : tree.nodes[n].leaf}
Inner(tree) == DOMAIN tree.nodes \ Leaves(tree)

KeysOf(leaf) == {leaf.entries[i].key : i \in DOMAIN leaf.entries}

Children(node) == {node.children[i] : i \in DOMAIN node.children}

\* The nodes of each depth, the root's first.
Levels(tree) ==
  LET children(S) == UNION {Children(tree.nodes[n]) : n \in S \ Leaves(tree)}
      level[d \in 0..(tree.height - 1)] ==
        IF d = 0 THEN {tree.root} ELSE children(level[d - 1])
  IN level

\* Every node is at one depth, the leaves at the last; none is a child twice;
\* and no run of equal keys is in two leaves.
WellShaped(tree) ==
  LET nodes == tree.nodes
      level == Levels(tree)
  IN /\ \A n \in DOMAIN nodes : \E d \in DOMAIN level :
          /\ n \in level[d] /\ \A o \in DOMAIN level : n \in level[o] => o = d
          /\ nodes[n].leaf <=> d = tree.height - 1
     /\ \A n \in Inner(tree) :
          /\ Len(nodes[n].keys) \in 1..InternalMax
          /\ Len(nodes[n].children) = Len(nodes[n].keys) + 1
     /\ \A m, n \in Inner(tree) : \A i \in DOMAIN nodes[m].children, j \in DOMAIN nodes[n].children :
          nodes[m].children[i] = nodes[n].children[j] => m = n /\ i = j
     /\ \A m, n \in Leaves(tree) : m # n => KeysOf(nodes[m]) \cap KeysOf(nodes[n]) = {}

\* Ascending, and these elements.
Lists(s, es) == Range(s) = es /\ \A i, j \in DOMAIN s : i < j => Below(s[i], s[j])
Ascends(s) == \A i, j \in DOMAIN s : i < j => s[i] < s[j]

\* A leaf is longer than LeafMax only in a tree with a run of more than half that.
OnlyRunsOverfill(tree, es) ==
  \A n \in Leaves(tree) : Len(tree.nodes[n].entries) > LeafMax =>
    \E e \in es : 2 * Cardinality({f \in es : f.key = e.key}) > LeafMax + 1

\* The tree holds these entries: it has their number, scans as their sorted list
\* from any key on, and finds the values of a key in order, or the least of them.
Exact(tree, es, keys) ==
  /\ WellShaped(tree)
  /\ OnlyRunsOverfill(tree, es)
  /\ tree.entries = Cardinality(es)
  /\ Lists(ScanFrom(tree, << >>), es)
  /\ \A key \in keys :
       LET found == GetAll(tree, key) IN
       /\ Lists(ScanFrom(tree, key), {e \in es : ~ Less(e.key, key)})
       /\ Ascends(found) /\ Range(found) = {e.value : e \in {f \in es : f.key = key}}
       /\ Get(tree, key) = IF found = << >> THEN << >> ELSE <<found[1]>>
============================================================================
