-------------------------- MODULE TableStoreProofs --------------------------
(***************************************************************************)
(* Theorems about the page store and the buffer pool under it, for any     *)
(* capacity, page size, and number of tables, rows and pages, whatever     *)
(* page writes fail or tear.  A pool between two calls is Sound; StoreInv  *)
(* adds that each table has a chain of pages of its own, whose kept images *)
(* all lead forward inside the chain.                                      *)
(***************************************************************************)
EXTENDS TableStore, NumberLemmas, SequenceTheorems, TLAPS

----------------------------------------------------------------------------
(* Pools.                                                                  *)

Rows == [id : Nat, size : Nat]
Images == [next : Nat, rows : Seq(Rows)]
Frames == [page : Nat, pins : Nat, ref : BOOLEAN, dirty : BOOLEAN, data : Images]

Partial(V) == UNION {[D -> V] : D \in SUBSET Nat}

Contents == Images \cup {TornPage}
Files == Partial(Contents)

Pools ==
  [frames : Seq(Frames), map : Partial(Nat), hand : Nat, store : Files,
   moved : BOOLEAN]

\* Between two calls of a pool whose page ids are below n: nothing is pinned, the
\* page table and the frames name each other, and a clean frame is what a pin
\* would load.
Sound(p, n) ==
  /\ p \in Pools /\ ~ p.moved
  /\ \A i \in 1..Len(p.frames) :
       /\ p.frames[i].pins = 0
       /\ p.frames[i].page \in DOMAIN p.map /\ p.map[p.frames[i].page] = i
       /\ ~ p.frames[i].dirty =>
            Readable(p.store, p.frames[i].page) /\ p.store[p.frames[i].page] = p.frames[i].data
  /\ \A id \in DOMAIN p.map : p.map[id] \in 1..Len(p.frames) /\ p.frames[p.map[id]].page = id
  /\ DOMAIN p.map \subseteq 1..(n - 1) /\ DOMAIN p.store \subseteq 1..(n - 1)

LEMMA PartialIs ==
  ASSUME NEW V, NEW m
  PROVE  /\ m \in Partial(V) => DOMAIN m \subseteq Nat /\ \A i \in DOMAIN m : m[i] \in V
         /\ \A D \in SUBSET Nat : m \in [D -> V] => m \in Partial(V)
BY DEF Partial

LEMMA PoolFields ==
  ASSUME NEW p \in Pools
  PROVE  /\ p.frames \in Seq(Frames) /\ Len(p.frames) \in Nat /\ DOMAIN p.frames = 1..Len(p.frames)
         /\ p.hand \in Nat /\ p.moved \in BOOLEAN
         /\ p.map \in Partial(Nat) /\ p.store \in Files
         /\ DOMAIN p.map \subseteq Nat /\ \A id \in DOMAIN p.map : p.map[id] \in Nat
         /\ DOMAIN p.store \subseteq Nat /\ \A id \in DOMAIN p.store : p.store[id] \in Contents
         /\ p = [frames |-> p.frames, map |-> p.map, hand |-> p.hand, store |-> p.store, moved |-> p.moved]
<1>1. /\ p.frames \in Seq(Frames) /\ p.hand \in Nat /\ p.moved \in BOOLEAN
      /\ p.map \in Partial(Nat) /\ p.store \in Files
      /\ p = [frames |-> p.frames, map |-> p.map, hand |-> p.hand, store |-> p.store, moved |-> p.moved]
  BY DEF Pools
<1>2. Len(p.frames) \in Nat /\ DOMAIN p.frames = 1..Len(p.frames)
  BY <1>1
<1>3. DOMAIN p.map \subseteq Nat /\ \A id \in DOMAIN p.map : p.map[id] \in Nat
  BY <1>1, PartialIs
<1>4. DOMAIN p.store \subseteq Nat /\ \A id \in DOMAIN p.store : p.store[id] \in Contents
  BY <1>1, PartialIs DEF Files
<1> QED  BY <1>1, <1>2, <1>3, <1>4

LEMMA TornIsNoImage == TornPage \notin Images /\ Blank \in Images
BY DEF TornPage, Blank, Images

\* The images that are kept of a page: in its frame and in its file.
Versions(p, id) ==
  (IF id \in DOMAIN p.map THEN {p.frames[p.map[id]].data} ELSE {})
    \cup (IF Readable(p.store, id) THEN {p.store[id]} ELSE {})

\* What a pin of id would answer in q is what it would answer in p.
SameAt(p, q, id) ==
  (Pinnable(p, id) <=> Pinnable(q, id)) /\ (Pinnable(p, id) => Image(q, id) = Image(p, id))

OlderAt(p, q, id) == Versions(q, id) \subseteq Versions(p, id)

LEMMA ImagesAre ==
  ASSUME NEW n \in Nat, NEW p, Sound(p, n), NEW id
  PROVE  /\ Versions(p, id) \subseteq Images
         /\ Pinnable(p, id) => Image(p, id) \in Versions(p, id) /\ Image(p, id) \in Images /\ id \in 1..(n - 1)
         /\ ~ Pinnable(p, id) => Versions(p, id) = {}
<1>1. p \in Pools
  BY DEF Sound
<1>2. \A i \in 1..Len(p.frames) : p.frames[i] \in Frames /\ p.frames[i].data \in Images
  <2>1. p.frames \in Seq(Frames)
    BY <1>1, PoolFields
  <2>2. \A i \in 1..Len(p.frames) : p.frames[i] \in Frames
    BY <2>1
  <2> QED  BY <2>2 DEF Frames
<1>3. id \in DOMAIN p.map => p.map[id] \in 1..Len(p.frames) /\ id \in 1..(n - 1)
  BY DEF Sound
<1>4. Readable(p.store, id) => p.store[id] \in Images /\ id \in 1..(n - 1)
  BY <1>1, PoolFields DEF Readable, Sound, Contents
<1> QED  BY <1>2, <1>3, <1>4 DEF Versions, Pinnable, Image

----------------------------------------------------------------------------
(* A frame is changed, or one is added.                                    *)

Mapped(p, f) == [id \in DOMAIN p.map \cup {f.page} |-> IF id = f.page THEN Len(p.frames) + 1 ELSE p.map[id]]

AddFrame(p, f) ==
  [frames |-> Append(p.frames, f), map |-> Mapped(p, f), hand |-> p.hand, store |-> p.store, moved |-> p.moved]

\* The frame can be kept beside the files s.
Backed(f, s) == f.pins = 0 /\ (~ f.dirty => Readable(s, f.page) /\ s[f.page] = f.data)

LEMMA FrameIsPut ==
  ASSUME NEW n \in Nat, NEW p, Sound(p, n), NEW i \in 1..Len(p.frames), NEW f \in Frames,
         f.page = p.frames[i].page, Backed(f, p.store)
  PROVE  /\ Sound(SetFrame(p, i, f), n)
         /\ SetFrame(p, i, f).store = p.store /\ SetFrame(p, i, f).map = p.map
         /\ Len(SetFrame(p, i, f).frames) = Len(p.frames)
         /\ SetFrame(p, i, f).frames[i] = f
         /\ \A j \in 1..Len(p.frames) : j # i => SetFrame(p, i, f).frames[j] = p.frames[j]
<1> DEFINE q == SetFrame(p, i, f)
<1>1. p \in Pools /\ p.frames \in Seq(Frames)
  BY PoolFields DEF Sound
<1>2. /\ q = [frames |-> [p.frames EXCEPT ![i] = f], map |-> p.map, hand |-> p.hand, store |-> p.store, moved |-> p.moved]
  BY <1>1, PoolFields DEF SetFrame
<1> HIDE DEF q
<1>3. /\ q.frames = [p.frames EXCEPT ![i] = f] /\ q.map = p.map /\ q.hand = p.hand /\ q.store = p.store /\ q.moved = p.moved
  BY <1>2
<1>4. q.frames \in Seq(Frames) /\ Len(q.frames) = Len(p.frames)
  BY <1>1, <1>3
<1>5. q.frames[i] = f /\ \A j \in 1..Len(p.frames) : j # i => q.frames[j] = p.frames[j]
  BY <1>1, <1>3
<1>6. q \in Pools
  BY <1>1, <1>2, <1>3, <1>4, PoolFields DEF Pools
<1>7. ASSUME NEW j \in 1..Len(q.frames)
      PROVE  /\ q.frames[j].pins = 0
             /\ q.frames[j].page \in DOMAIN q.map /\ q.map[q.frames[j].page] = j
             /\ ~ q.frames[j].dirty =>
                  Readable(q.store, q.frames[j].page) /\ q.store[q.frames[j].page] = q.frames[j].data
  <2>1. j \in 1..Len(p.frames) /\ q.frames[j].page = p.frames[j].page
    BY <1>4, <1>5
  <2>2. p.frames[j].page \in DOMAIN p.map /\ p.map[p.frames[j].page] = j
    BY <2>1 DEF Sound
  <2>3. CASE j = i
    BY <1>3, <1>5, <2>1, <2>2, <2>3 DEF Backed
  <2>4. CASE j # i
    <3>1. q.frames[j] = p.frames[j]
      BY <1>5, <2>1, <2>4
    <3>2. /\ p.frames[j].pins = 0
          /\ ~ p.frames[j].dirty =>
               Readable(p.store, p.frames[j].page) /\ p.store[p.frames[j].page] = p.frames[j].data
      BY <2>1 DEF Sound
    <3> QED  BY <1>3, <2>2, <3>1, <3>2
  <2> QED  BY <2>3, <2>4
<1>8. \A id \in DOMAIN q.map : q.map[id] \in 1..Len(q.frames) /\ q.frames[q.map[id]].page = id
  <2> TAKE id \in DOMAIN q.map
  <2>1. p.map[id] \in 1..Len(p.frames) /\ p.frames[p.map[id]].page = id
    BY <1>3 DEF Sound
  <2> QED  BY <1>3, <1>4, <1>5, <2>1
<1>9. ~ q.moved /\ DOMAIN q.map \subseteq 1..(n - 1) /\ DOMAIN q.store \subseteq 1..(n - 1)
  BY <1>3 DEF Sound
<1>10. Sound(q, n)
  BY <1>6, <1>7, <1>8, <1>9 DEF Sound
<1> QED  BY <1>3, <1>4, <1>5, <1>10 DEF q

LEMMA FrameIsAdded ==
  ASSUME NEW n \in Nat, NEW p, Sound(p, n), NEW f \in Frames,
         f.page \in 1..(n - 1), f.page \notin DOMAIN p.map, Backed(f, p.store)
  PROVE  /\ Sound(AddFrame(p, f), n)
         /\ AddFrame(p, f).store = p.store
         /\ DOMAIN AddFrame(p, f).map = DOMAIN p.map \cup {f.page}
         /\ AddFrame(p, f).map[f.page] = Len(p.frames) + 1
         /\ AddFrame(p, f).frames[Len(p.frames) + 1] = f
         /\ \A id \in DOMAIN p.map : /\ AddFrame(p, f).map[id] = p.map[id]
                                     /\ AddFrame(p, f).frames[p.map[id]] = p.frames[p.map[id]]
<1> DEFINE q == AddFrame(p, f)
           m == Mapped(p, f)
<1>1. p \in Pools /\ p.frames \in Seq(Frames) /\ Len(p.frames) \in Nat
  BY PoolFields DEF Sound
<1>2. q = [frames |-> Append(p.frames, f), map |-> m, hand |-> p.hand, store |-> p.store, moved |-> p.moved]
  BY DEF AddFrame
<1>3. /\ DOMAIN m = DOMAIN p.map \cup {f.page} /\ m[f.page] = Len(p.frames) + 1
      /\ \A id \in DOMAIN p.map : m[id] = p.map[id]
  BY DEF Mapped
<1>4. m \in Partial(Nat)
  <2>0. DOMAIN p.map \subseteq Nat /\ f.page \in Nat /\ \A id \in DOMAIN p.map : p.map[id] \in Nat
    BY <1>1, PoolFields DEF Frames
  <2>1. m \in [DOMAIN p.map \cup {f.page} -> Nat] /\ DOMAIN p.map \cup {f.page} \in SUBSET Nat
    BY <1>1, <2>0 DEF Mapped
  <2> QED  BY <2>1, PartialIs
<1> HIDE DEF q, m
<1>5. /\ q.frames = Append(p.frames, f) /\ q.map = m /\ q.hand = p.hand /\ q.store = p.store /\ q.moved = p.moved
  BY <1>2
<1>6. /\ q.frames \in Seq(Frames) /\ Len(q.frames) = Len(p.frames) + 1
      /\ q.frames[Len(p.frames) + 1] = f /\ \A j \in 1..Len(p.frames) : q.frames[j] = p.frames[j]
  BY <1>1, <1>5
<1>7. q \in Pools
  BY <1>1, <1>2, <1>4, <1>5, <1>6, PoolFields DEF Pools
<1>8. \A id \in DOMAIN p.map : p.map[id] \in 1..Len(p.frames) /\ p.frames[p.map[id]].page = id
  BY DEF Sound
<1>9. ASSUME NEW j \in 1..Len(q.frames)
      PROVE  /\ q.frames[j].pins = 0
             /\ q.frames[j].page \in DOMAIN q.map /\ q.map[q.frames[j].page] = j
             /\ ~ q.frames[j].dirty =>
                  Readable(q.store, q.frames[j].page) /\ q.store[q.frames[j].page] = q.frames[j].data
  <2>1. CASE j = Len(p.frames) + 1
    BY <1>3, <1>5, <1>6, <2>1 DEF Backed
  <2>2. CASE j # Len(p.frames) + 1
    <3>1. j \in 1..Len(p.frames) /\ q.frames[j] = p.frames[j]
      BY <1>1, <1>6, <2>2
    <3>2. /\ p.frames[j].pins = 0
          /\ p.frames[j].page \in DOMAIN p.map /\ p.map[p.frames[j].page] = j
          /\ ~ p.frames[j].dirty =>
               Readable(p.store, p.frames[j].page) /\ p.store[p.frames[j].page] = p.frames[j].data
      BY <3>1 DEF Sound
    <3> QED  BY <1>3, <1>5, <3>1, <3>2
  <2> QED  BY <2>1, <2>2
<1>10. \A id \in DOMAIN q.map : q.map[id] \in 1..Len(q.frames) /\ q.frames[q.map[id]].page = id
  <2> TAKE id \in DOMAIN q.map
  <2>1. CASE id = f.page
    BY <1>1, <1>3, <1>5, <1>6, <2>1
  <2>2. CASE id # f.page
    BY <1>1, <1>3, <1>5, <1>6, <1>8, <2>2
  <2> QED  BY <2>1, <2>2
<1>11. ~ q.moved /\ DOMAIN q.map \subseteq 1..(n - 1) /\ DOMAIN q.store \subseteq 1..(n - 1)
  BY <1>3, <1>5 DEF Sound
<1>12. Sound(q, n)
  BY <1>7, <1>9, <1>10, <1>11 DEF Sound
<1> QED  BY <1>3, <1>5, <1>6, <1>8, <1>12 DEF q

----------------------------------------------------------------------------
(* One page is read or written through a handle.                           *)

\* Every page but id shows what it showed.
OthersSame(p, q, id) == \A a : a # id => SameAt(p, q, a) /\ OlderAt(p, q, a)

LEMMA PutShows ==
  ASSUME NEW n \in Nat, NEW p, Sound(p, n), NEW i \in 1..Len(p.frames), NEW f \in Frames,
         f.page = p.frames[i].page, Backed(f, p.store)
  PROVE  /\ Sound(SetFrame(p, i, f), n)
         /\ OthersSame(p, SetFrame(p, i, f), f.page)
         /\ Pinnable(SetFrame(p, i, f), f.page) /\ Image(SetFrame(p, i, f), f.page) = f.data
         /\ Versions(SetFrame(p, i, f), f.page) \subseteq Versions(p, f.page) \cup {f.data}
<1> DEFINE q == SetFrame(p, i, f)
<1>1. /\ Sound(q, n) /\ q.store = p.store /\ q.map = p.map
      /\ q.frames[i] = f /\ \A j \in 1..Len(p.frames) : j # i => q.frames[j] = p.frames[j]
  BY FrameIsPut
<1> HIDE DEF q
<1>2. \A id \in DOMAIN p.map : p.map[id] \in 1..Len(p.frames) /\ p.frames[p.map[id]].page = id
  BY DEF Sound
<1>3. f.page \in DOMAIN p.map /\ p.map[f.page] = i
  BY DEF Sound
<1>4. \A a \in DOMAIN p.map : a # f.page => q.frames[q.map[a]] = p.frames[p.map[a]]
  BY <1>1, <1>2
<1>5. OthersSame(p, q, f.page)
  BY <1>1, <1>4 DEF OthersSame, SameAt, OlderAt, Versions, Pinnable, Image
<1>6. /\ Pinnable(q, f.page) /\ Image(q, f.page) = f.data
      /\ Versions(q, f.page) \subseteq Versions(p, f.page) \cup {f.data}
  BY <1>1, <1>3 DEF Versions, Pinnable, Image
<1> QED  BY <1>1, <1>5, <1>6 DEF q

LEMMA AddShows ==
  ASSUME NEW n \in Nat, NEW p, Sound(p, n), NEW f \in Frames,
         f.page \in 1..(n - 1), f.page \notin DOMAIN p.map, Backed(f, p.store)
  PROVE  /\ Sound(AddFrame(p, f), n)
         /\ OthersSame(p, AddFrame(p, f), f.page)
         /\ f.page \in DOMAIN AddFrame(p, f).map
         /\ Pinnable(AddFrame(p, f), f.page) /\ Image(AddFrame(p, f), f.page) = f.data
         /\ Versions(AddFrame(p, f), f.page) \subseteq Versions(p, f.page) \cup {f.data}
<1> DEFINE q == AddFrame(p, f)
<1>1. /\ Sound(q, n) /\ q.store = p.store
      /\ DOMAIN q.map = DOMAIN p.map \cup {f.page}
      /\ q.map[f.page] = Len(p.frames) + 1 /\ q.frames[Len(p.frames) + 1] = f
      /\ \A id \in DOMAIN p.map : q.map[id] = p.map[id] /\ q.frames[p.map[id]] = p.frames[p.map[id]]
  BY FrameIsAdded
<1> HIDE DEF q
<1>2. OthersSame(p, q, f.page)
  BY <1>1 DEF OthersSame, SameAt, OlderAt, Versions, Pinnable, Image
<1>3. /\ f.page \in DOMAIN q.map /\ Pinnable(q, f.page) /\ Image(q, f.page) = f.data
      /\ Versions(q, f.page) \subseteq Versions(p, f.page) \cup {f.data}
  BY <1>1 DEF Versions, Pinnable, Image
<1> QED  BY <1>1, <1>2, <1>3 DEF q

LEMMA FrameIsReplaced ==
  ASSUME NEW p \in Pools, NEW i \in 1..Len(p.frames), NEW f \in Frames
  PROVE  /\ SetFrame(p, i, f) \in Pools /\ SetFrame(p, i, f).frames[i] = f
         /\ Len(SetFrame(p, i, f).frames) = Len(p.frames) /\ SetFrame(p, i, f).map = p.map
         /\ \A g \in Frames : SetFrame(SetFrame(p, i, f), i, g) = SetFrame(p, i, g)
<1> DEFINE q == SetFrame(p, i, f)
<1>1. p.frames \in Seq(Frames)
  BY PoolFields
<1>2. \A r \in Pools, g \in Frames :
        SetFrame(r, i, g) = [frames |-> [r.frames EXCEPT ![i] = g], map |-> r.map, hand |-> r.hand,
                             store |-> r.store, moved |-> r.moved]
  <2> TAKE r \in Pools, g \in Frames
  <2>1. r = [frames |-> r.frames, map |-> r.map, hand |-> r.hand, store |-> r.store, moved |-> r.moved]
    BY PoolFields
  <2> QED  BY <2>1 DEF SetFrame
<1>3. q = [frames |-> [p.frames EXCEPT ![i] = f], map |-> p.map, hand |-> p.hand,
           store |-> p.store, moved |-> p.moved]
  BY <1>2
<1> HIDE DEF q
<1>4. q.frames = [p.frames EXCEPT ![i] = f] /\ q.map = p.map /\ q.hand = p.hand /\ q.store = p.store /\ q.moved = p.moved
  BY <1>3
<1>5. q.frames \in Seq(Frames) /\ Len(q.frames) = Len(p.frames) /\ q.frames[i] = f
  BY <1>1, <1>4
<1>6. q \in Pools
  BY <1>3, <1>4, <1>5, PoolFields DEF Pools
<1>7. ASSUME NEW g \in Frames PROVE SetFrame(q, i, g) = SetFrame(p, i, g)
  <2>1. [q.frames EXCEPT ![i] = g] = [p.frames EXCEPT ![i] = g]
    BY <1>1, <1>4
  <2>2. SetFrame(q, i, g) = [frames |-> [q.frames EXCEPT ![i] = g], map |-> q.map, hand |-> q.hand,
                             store |-> q.store, moved |-> q.moved]
    BY <1>2, <1>6
  <2>3. SetFrame(p, i, g) = [frames |-> [p.frames EXCEPT ![i] = g], map |-> p.map, hand |-> p.hand,
                             store |-> p.store, moved |-> p.moved]
    BY <1>2
  <2> QED  BY <1>4, <2>1, <2>2, <2>3
<1> QED  BY <1>4, <1>5, <1>6, <1>7 DEF q

\* unpin of a frame that is pinned once, with or without marking it dirty.
LEMMA UnpinEdits ==
  ASSUME NEW p \in Pools, NEW i \in 1..Len(p.frames), p.frames[i].pins = 1, NEW c \in BOOLEAN
  PROVE  \E g \in Frames :
           /\ Unpin(p, i, c) = SetFrame(p, i, g)
           /\ g.page = p.frames[i].page /\ g.pins = 0 /\ g.data = p.frames[i].data
           /\ (g.dirty <=> p.frames[i].dirty \/ c)
<1> DEFINE f == p.frames[i]
           g == [f EXCEPT !.pins = IF f.pins = 0 THEN 0 ELSE f.pins - 1, !.dirty = f.dirty \/ c]
<1>1. Unpin(p, i, c) = SetFrame(p, i, g)
  BY DEF Unpin
<1>2. f \in Frames /\ f.pins = 1
  BY PoolFields
<1>3. g = [f EXCEPT !.pins = IF f.pins = 0 THEN 0 ELSE f.pins - 1, !.dirty = f.dirty \/ c]
  OBVIOUS
<1> HIDE DEF f, g
<1>4. g.page = f.page /\ g.data = f.data /\ g.pins = IF f.pins = 0 THEN 0 ELSE f.pins - 1
  BY <1>2, <1>3, Zenon DEF Frames
<1>5. g.pins = 0
  BY <1>2, <1>4
<1>6. g.dirty = (f.dirty \/ c)
  BY <1>2, <1>3, Zenon DEF Frames
<1>7. g.dirty <=> f.dirty \/ c
  BY <1>6
<1>8. g \in Frames
  <2>1. (f.dirty \/ c) \in BOOLEAN /\ (IF f.pins = 0 THEN 0 ELSE f.pins - 1) \in Nat
    BY <1>2
  <2>2. \E k \in Nat, d \in BOOLEAN : g = [f EXCEPT !.pins = k, !.dirty = d]
    BY <1>3, <2>1, Zenon
  <2> QED  BY <1>2, <2>2 DEF Frames
<1> QED  BY <1>1, <1>4, <1>5, <1>7, <1>8 DEF f

LEMMA WriteEdits ==
  ASSUME NEW p \in Pools, NEW i \in 1..Len(p.frames), NEW image \in Images
  PROVE  \E g \in Frames :
           /\ WritePayload(p, i, image) = SetFrame(p, i, g)
           /\ g.page = p.frames[i].page /\ g.pins = p.frames[i].pins /\ g.data = image /\ g.dirty
<1> DEFINE f == p.frames[i]
           g == [f EXCEPT !.data = image, !.dirty = TRUE]
<1>1. WritePayload(p, i, image) = SetFrame(p, i, g)
  BY DEF WritePayload
<1>2. f \in Frames
  BY PoolFields
<1>3. g = [f EXCEPT !.data = image, !.dirty = TRUE]
  OBVIOUS
<1> HIDE DEF f, g
<1>4. g.page = f.page /\ g.data = image /\ g.pins = f.pins
  BY <1>2, <1>3, Zenon DEF Frames
<1>5. g.dirty = TRUE
  BY <1>2, <1>3, Zenon DEF Frames
<1>6. g \in Frames
  BY <1>2, <1>3 DEF Frames
<1> QED  BY <1>1, <1>4, <1>5, <1>6 DEF f

\* pin of a page that is in no other hand.
LEMMA PinEdits ==
  ASSUME NEW p \in Pools, NEW i \in 1..Len(p.frames), p.frames[i].pins = 0
  PROVE  \E g \in Frames :
           /\ SetFrame(p, i, [p.frames[i] EXCEPT !.pins = @ + 1, !.ref = TRUE]) = SetFrame(p, i, g)
           /\ g.page = p.frames[i].page /\ g.pins = 1 /\ g.data = p.frames[i].data
           /\ (g.dirty <=> p.frames[i].dirty)
<1> DEFINE f == p.frames[i]
           g == [f EXCEPT !.pins = f.pins + 1, !.ref = TRUE]
<1>1. SetFrame(p, i, [p.frames[i] EXCEPT !.pins = @ + 1, !.ref = TRUE]) = SetFrame(p, i, g)
  OBVIOUS
<1>2. f \in Frames /\ f.pins = 0
  BY PoolFields
<1>3. g = [f EXCEPT !.pins = f.pins + 1, !.ref = TRUE]
  OBVIOUS
<1> HIDE DEF f, g
<1>4. g.page = f.page /\ g.data = f.data /\ g.pins = f.pins + 1 /\ g.dirty = f.dirty
  BY <1>2, <1>3, Zenon DEF Frames
<1>5. g.pins = 1
  BY <1>2, <1>4
<1>6. g \in Frames
  <2>1. TRUE \in BOOLEAN /\ f.pins + 1 \in Nat
    BY <1>2
  <2>2. \E k \in Nat, d \in BOOLEAN : g = [f EXCEPT !.pins = k, !.ref = d]
    BY <1>3, <2>1, Zenon
  <2> QED  BY <1>2, <2>2 DEF Frames
<1> QED  BY <1>1, <1>4, <1>5, <1>6 DEF f

\* q shows image v for page id and, for every other page, what p shows.
Shows(p, q, id, v, n) ==
  /\ Sound(q, n) /\ OthersSame(p, q, id)
  /\ Pinnable(q, id) /\ Image(q, id) = v
  /\ Versions(q, id) \subseteq Versions(p, id) \cup {v}

\* r is the answer of a method that has pinned page id on behalf of the caller: the
\* frame it holds is the only one that is pinned, and p is the pool without it.
Held(p, r, id, n) ==
  /\ r = [p |-> r.p, ok |-> TRUE, fid |-> r.fid]
  /\ r.p \in Pools /\ r.fid \in 1..Len(r.p.frames)
  /\ r.p.frames[r.fid].page = id /\ r.p.frames[r.fid].pins = 1
  /\ ~ r.p.frames[r.fid].dirty => Readable(p.store, id) /\ p.store[id] = r.p.frames[r.fid].data
  /\ \A g \in Frames :
       g.page = id /\ Backed(g, p.store) => Shows(p, SetFrame(r.p, r.fid, g), id, g.data, n)

LEMMA HeldIsRead ==
  ASSUME NEW p, NEW r, NEW id, NEW n, Held(p, r, id, n)
  PROVE  Shows(p, Unpin(r.p, r.fid, FALSE), id, r.p.frames[r.fid].data, n)
<1>1. r.p \in Pools /\ r.fid \in 1..Len(r.p.frames) /\ r.p.frames[r.fid].pins = 1
  BY DEF Held
<1>2. PICK g \in Frames :
        /\ Unpin(r.p, r.fid, FALSE) = SetFrame(r.p, r.fid, g)
        /\ g.page = r.p.frames[r.fid].page /\ g.pins = 0 /\ g.data = r.p.frames[r.fid].data
        /\ (g.dirty <=> r.p.frames[r.fid].dirty \/ FALSE)
  BY <1>1, UnpinEdits
<1>3. g.page = id /\ Backed(g, p.store)
  BY <1>2 DEF Held, Backed
<1>4. Shows(p, SetFrame(r.p, r.fid, g), id, g.data, n)
  BY <1>3 DEF Held
<1> QED  BY <1>2, <1>4

LEMMA HeldIsWritten ==
  ASSUME NEW p, NEW r, NEW id, NEW n, Held(p, r, id, n), NEW image \in Images
  PROVE  Written(r, image).ok /\ Shows(p, Written(r, image).p, id, image, n)
<1>1. r.p \in Pools /\ r.fid \in 1..Len(r.p.frames) /\ r.p.frames[r.fid].pins = 1
  BY DEF Held
<1>2. PICK h \in Frames :
        /\ WritePayload(r.p, r.fid, image) = SetFrame(r.p, r.fid, h)
        /\ h.page = r.p.frames[r.fid].page /\ h.pins = r.p.frames[r.fid].pins /\ h.data = image /\ h.dirty
  BY <1>1, WriteEdits
<1> DEFINE q == SetFrame(r.p, r.fid, h)
<1>3. /\ q \in Pools /\ q.frames[r.fid] = h /\ Len(q.frames) = Len(r.p.frames)
      /\ \A g \in Frames : SetFrame(q, r.fid, g) = SetFrame(r.p, r.fid, g)
  BY <1>1, FrameIsReplaced
<1> HIDE DEF q
<1>4. r.fid \in 1..Len(q.frames) /\ q.frames[r.fid].pins = 1
  BY <1>1, <1>2, <1>3
<1>5. PICK g \in Frames :
        /\ Unpin(q, r.fid, TRUE) = SetFrame(q, r.fid, g)
        /\ g.page = q.frames[r.fid].page /\ g.pins = 0 /\ g.data = q.frames[r.fid].data
        /\ (g.dirty <=> q.frames[r.fid].dirty \/ TRUE)
  BY <1>3, <1>4, UnpinEdits
<1>6. r.p.frames[r.fid].page = id
  BY DEF Held
<1>7. g.page = id /\ g.data = image /\ g.dirty /\ g.pins = 0
  BY <1>2, <1>3, <1>5, <1>6
<1>8. Shows(p, SetFrame(r.p, r.fid, g), id, g.data, n)
  BY <1>7 DEF Held, Backed
<1>9. r = [p |-> r.p, ok |-> TRUE, fid |-> r.fid]
  BY DEF Held
<1>10. Written(r, image) = [r EXCEPT !.p = Unpin(WritePayload(r.p, r.fid, image), r.fid, TRUE)]
  BY <1>9 DEF Written
<1>11. Written(r, image).ok /\ Written(r, image).p = Unpin(WritePayload(r.p, r.fid, image), r.fid, TRUE)
  BY <1>9, <1>10
<1>12. Unpin(WritePayload(r.p, r.fid, image), r.fid, TRUE) = SetFrame(r.p, r.fid, g)
  BY <1>2, <1>3, <1>5 DEF q
<1> QED  BY <1>7, <1>8, <1>11, <1>12

\* A pool whose frames and page table are replaced.
LEMMA TwoFields ==
  ASSUME NEW p, p = [frames |-> p.frames, map |-> p.map, hand |-> p.hand, store |-> p.store, moved |-> p.moved],
         NEW x, NEW y
  PROVE  [p EXCEPT !.frames = x, !.map = y] =
           [frames |-> x, map |-> y, hand |-> p.hand, store |-> p.store, moved |-> p.moved]
<1> DEFINE names == {"frames", "map", "hand", "store", "moved"}
           put == [i \in names |-> IF i = "frames" THEN x ELSE IF i = "map" THEN y ELSE p[i]]
<1>1. DOMAIN p = names
  OBVIOUS
<1>2. [p EXCEPT !.frames = x, !.map = y] = put
  BY <1>1
<1>3. [frames |-> x, map |-> y, hand |-> p.hand, store |-> p.store, moved |-> p.moved] = put
  OBVIOUS
<1> QED  BY <1>2, <1>3

LEMMA LastIsReplaced ==
  ASSUME NEW s \in Seq(Frames), NEW f \in Frames, NEW g \in Frames, NEW k, k = Len(s) + 1
  PROVE  [Append(s, f) EXCEPT ![k] = g] = Append(s, g)
<1> DEFINE u == [Append(s, f) EXCEPT ![k] = g]
           v == Append(s, g)
<1>1. Append(s, f) \in Seq(Frames) /\ Len(Append(s, f)) = k /\ k \in Nat
  OBVIOUS
<1>2. u \in Seq(Frames) /\ Len(u) = k /\ u[k] = g
  BY <1>1
<1>3. v \in Seq(Frames) /\ Len(v) = k /\ v[k] = g
  OBVIOUS
<1>4. \A i \in 1..k : i # k => Append(s, f)[i] = s[i] /\ v[i] = s[i]
  OBVIOUS
<1>5. \A i \in 1..k : i # k => u[i] = Append(s, f)[i]
  <2> DEFINE t == Append(s, f)
  <2>1. t \in Seq(Frames) /\ Len(t) = k /\ u = [t EXCEPT ![k] = g]
    BY <1>1
  <2> HIDE DEF t, u
  <2>2. \A i \in 1..k : i # k => u[i] = t[i]
    BY <2>1
  <2> QED  BY <2>2 DEF t
<1>6. \A i \in 1..k : u[i] = v[i]
  BY <1>2, <1>3, <1>4, <1>5
<1> HIDE DEF u, v
<1>7. u = v
  BY <1>2, <1>3, <1>6, SeqEqual
<1> QED  BY <1>7 DEF u, v

LEMMA AddedIsReplaced ==
  ASSUME NEW n \in Nat, NEW p, Sound(p, n), NEW f \in Frames, f.page \notin DOMAIN p.map
  PROVE  /\ AddFrame(p, f) \in Pools
         /\ Len(AddFrame(p, f).frames) = Len(p.frames) + 1
         /\ AddFrame(p, f).frames[Len(p.frames) + 1] = f
         /\ \A g \in Frames : g.page = f.page =>
              SetFrame(AddFrame(p, f), Len(p.frames) + 1, g) = AddFrame(p, g)
<1> DEFINE q == AddFrame(p, f)
           k == Len(p.frames) + 1
<1>1. p \in Pools /\ p.frames \in Seq(Frames) /\ Len(p.frames) \in Nat
  BY PoolFields DEF Sound
<1>2. q = [frames |-> Append(p.frames, f), map |-> Mapped(p, f), hand |-> p.hand, store |-> p.store, moved |-> p.moved]
  BY DEF AddFrame
<1>3. Mapped(p, f) \in Partial(Nat)
  <2>0. DOMAIN p.map \subseteq Nat /\ f.page \in Nat /\ \A id \in DOMAIN p.map : p.map[id] \in Nat
    BY <1>1, PoolFields DEF Frames
  <2>1. Mapped(p, f) \in [DOMAIN p.map \cup {f.page} -> Nat] /\ DOMAIN p.map \cup {f.page} \in SUBSET Nat
    BY <1>1, <2>0 DEF Mapped
  <2> QED  BY <2>1, PartialIs
<1>4. Append(p.frames, f) \in Seq(Frames) /\ Len(Append(p.frames, f)) = k /\ Append(p.frames, f)[k] = f
  BY <1>1
<1>5. q \in Pools
  BY <1>1, <1>2, <1>3, <1>4, PoolFields DEF Pools
<1>6. ASSUME NEW g \in Frames, g.page = f.page
      PROVE  SetFrame(q, k, g) = AddFrame(p, g)
  <2>1. [Append(p.frames, f) EXCEPT ![k] = g] = Append(p.frames, g)
    BY <1>1, LastIsReplaced
  <2>2. Mapped(p, f) = Mapped(p, g)
    BY <1>6 DEF Mapped
  <2>3. SetFrame(q, k, g) = [frames |-> [q.frames EXCEPT ![k] = g], map |-> q.map, hand |-> q.hand,
                             store |-> q.store, moved |-> q.moved]
    <3> HIDE DEF q
    <3>1. q = [frames |-> q.frames, map |-> q.map, hand |-> q.hand, store |-> q.store, moved |-> q.moved]
      BY <1>2
    <3> QED  BY <3>1 DEF SetFrame
  <2>4. /\ q.frames = Append(p.frames, f) /\ q.map = Mapped(p, f) /\ q.hand = p.hand
        /\ q.store = p.store /\ q.moved = p.moved
    BY <1>2
  <2> QED  BY <2>1, <2>2, <2>3, <2>4 DEF AddFrame
<1>7. q.frames[k] = f /\ Len(q.frames) = k
  BY <1>2, <1>4
<1> QED  BY <1>5, <1>6, <1>7

LEMMA PushedHolds ==
  ASSUME NEW n \in Nat, NEW p, Sound(p, n), NEW f \in Frames,
         f.page \in 1..(n - 1), f.page \notin DOMAIN p.map, f.pins = 1,
         ~ f.dirty => Readable(p.store, f.page) /\ p.store[f.page] = f.data
  PROVE  /\ Held(p, Pushed(p, f), f.page, n)
         /\ Pushed(p, f).p.frames[Pushed(p, f).fid] = f
<1> DEFINE k == Len(p.frames) + 1
<1>1. p \in Pools /\ Len(p.frames) \in Nat
  BY PoolFields DEF Sound
<1>2. Pushed(p, f).p = AddFrame(p, f) /\ Pushed(p, f).fid = k /\ Pushed(p, f).ok = TRUE
      /\ Pushed(p, f) = [p |-> Pushed(p, f).p, ok |-> TRUE, fid |-> Pushed(p, f).fid]
  <2>1. p = [frames |-> p.frames, map |-> p.map, hand |-> p.hand, store |-> p.store, moved |-> p.moved]
    BY <1>1, PoolFields
  <2>2. [p EXCEPT !.frames = Append(p.frames, f), !.map = Mapped(p, f)] = AddFrame(p, f)
    BY <2>1, TwoFields DEF AddFrame
  <2> QED  BY <2>2 DEF Pushed, Mapped
<1> DEFINE r == Pushed(p, f)
<1> HIDE DEF r
<1>3. /\ AddFrame(p, f) \in Pools /\ Len(AddFrame(p, f).frames) = k /\ AddFrame(p, f).frames[k] = f
      /\ \A g \in Frames : g.page = f.page => SetFrame(AddFrame(p, f), k, g) = AddFrame(p, g)
  BY AddedIsReplaced
<1>4. ASSUME NEW g \in Frames, g.page = f.page, Backed(g, p.store)
      PROVE  Shows(p, SetFrame(AddFrame(p, f), k, g), f.page, g.data, n)
  <2>1. Shows(p, AddFrame(p, g), g.page, g.data, n)
    BY <1>4, AddShows DEF Shows
  <2> QED  BY <1>3, <1>4, <2>1
<1>5. r = [p |-> r.p, ok |-> TRUE, fid |-> r.fid] /\ r.p = AddFrame(p, f) /\ r.fid = k
  BY <1>2 DEF r
<1>6. Held(p, r, f.page, n)
  BY <1>1, <1>3, <1>4, <1>5 DEF Held
<1> QED  BY <1>3, <1>5, <1>6 DEF r

LEMMA PinHolds ==
  ASSUME NEW n \in Nat, NEW p, Sound(p, n), NEW id, Pinnable(p, id)
  PROVE  /\ Held(p, Pin(p, id), id, n)
         /\ Pin(p, id).p.frames[Pin(p, id).fid].data = Image(p, id)
<1>1. p \in Pools /\ p.frames \in Seq(Frames) /\ Len(p.frames) \in Nat /\ id \in 1..(n - 1)
  BY PoolFields, ImagesAre DEF Sound
<1>2. CASE id \in DOMAIN p.map
  <2> DEFINE i == p.map[id]
             r == Pin(p, id)
  <2>1. i \in 1..Len(p.frames) /\ p.frames[i].page = id /\ p.frames[i].pins = 0
    BY <1>2 DEF Sound
  <2>2. ~ p.frames[i].dirty => Readable(p.store, id) /\ p.store[id] = p.frames[i].data
    BY <2>1 DEF Sound
  <2>3. /\ r = [p |-> r.p, ok |-> TRUE, fid |-> r.fid] /\ r.fid = i
        /\ r.p = SetFrame(p, i, [p.frames[i] EXCEPT !.pins = @ + 1, !.ref = TRUE])
    BY <1>2 DEF Pin
  <2>4. PICK h \in Frames :
          /\ SetFrame(p, i, [p.frames[i] EXCEPT !.pins = @ + 1, !.ref = TRUE]) = SetFrame(p, i, h)
          /\ h.page = p.frames[i].page /\ h.pins = 1 /\ h.data = p.frames[i].data
          /\ (h.dirty <=> p.frames[i].dirty)
    BY <1>1, <2>1, PinEdits
  <2> HIDE DEF r
  <2>5. /\ SetFrame(p, i, h) \in Pools /\ SetFrame(p, i, h).frames[i] = h
        /\ Len(SetFrame(p, i, h).frames) = Len(p.frames)
        /\ \A g \in Frames : SetFrame(SetFrame(p, i, h), i, g) = SetFrame(p, i, g)
    BY <1>1, <2>1, FrameIsReplaced
  <2>6. ASSUME NEW g \in Frames, g.page = id, Backed(g, p.store)
        PROVE  Shows(p, SetFrame(SetFrame(p, i, h), i, g), id, g.data, n)
    <3>1. Shows(p, SetFrame(p, i, g), g.page, g.data, n)
      BY <2>1, <2>6, PutShows DEF Shows
    <3> QED  BY <2>5, <2>6, <3>1
  <2>7. r.p = SetFrame(p, i, h)
    BY <2>3, <2>4
  <2>8. r.p \in Pools /\ r.p.frames[r.fid] = h /\ r.fid \in 1..Len(r.p.frames)
    BY <2>1, <2>3, <2>5, <2>7
  <2>9. \A g \in Frames : g.page = id /\ Backed(g, p.store) => Shows(p, SetFrame(r.p, r.fid, g), id, g.data, n)
    BY <2>3, <2>6, <2>7
  <2>10. Held(p, r, id, n)
    BY <2>1, <2>2, <2>3, <2>4, <2>8, <2>9 DEF Held
  <2>11. Image(p, id) = p.frames[i].data
    BY <1>2 DEF Image
  <2> QED  BY <2>4, <2>8, <2>10, <2>11 DEF r
<1>3. CASE id \notin DOMAIN p.map
  <2> DEFINE f == Frame(id, p.store[id], FALSE)
  <2>1. Readable(p.store, id) /\ p.store[id] \in Images /\ Image(p, id) = p.store[id]
    BY <1>1, <1>3, PoolFields DEF Pinnable, Image, Readable, Contents
  <2>2. Pin(p, id) = Pushed(p, f)
    BY <1>3, <2>1 DEF Pin
  <2>3. f \in Frames /\ f.page = id /\ f.pins = 1 /\ f.data = p.store[id]
    BY <1>1, <2>1 DEF Frame, Frames
  <2> HIDE DEF f
  <2>4. Held(p, Pushed(p, f), f.page, n) /\ Pushed(p, f).p.frames[Pushed(p, f).fid] = f
    BY <1>1, <1>3, <2>1, <2>3, PushedHolds
  <2> QED  BY <2>1, <2>2, <2>3, <2>4
<1> QED  BY <1>2, <1>3

LEMMA PinFails ==
  ASSUME NEW p, NEW id, ~ Pinnable(p, id)
  PROVE  ~ Pin(p, id).ok /\ Pin(p, id).p = p /\ Pin(p, id) = [p |-> p, ok |-> FALSE, fid |-> 0]
BY DEF Pinnable, Pin

----------------------------------------------------------------------------
(* Eviction.                                                               *)

Whatever(p) == p = [frames |-> p.frames, map |-> p.map, hand |-> p.hand, store |-> p.store, moved |-> p.moved]

LEMMA TailIsMoved ==
  ASSUME NEW n \in Nat, NEW p, Sound(p, n), NEW v \in 1..Len(p.frames)
  PROVE  /\ SwapRemoved(p.frames, v) \in Seq(Frames)
         /\ Len(SwapRemoved(p.frames, v)) = Len(p.frames) - 1
         /\ \A j \in 1..(Len(p.frames) - 1) :
              SwapRemoved(p.frames, v)[j] = IF j = v THEN p.frames[Len(p.frames)] ELSE p.frames[j]
<1> DEFINE k == Len(p.frames) - 1
           s == [i \in 1..k |-> IF i = v THEN p.frames[Len(p.frames)] ELSE p.frames[i]]
<1>1. p.frames \in Seq(Frames) /\ k \in Nat
  BY PoolFields DEF Sound
<1>2. \A i \in 1..k : s[i] = (IF i = v THEN p.frames[Len(p.frames)] ELSE p.frames[i]) /\ s[i] \in Frames
  BY <1>1
<1>3. s \in [1..k -> Frames]
  BY <1>2
<1>4. s \in Seq(Frames) /\ Len(s) = k
  BY <1>1, <1>3
<1> QED  BY <1>2, <1>4 DEF SwapRemoved

LEMMA PagesAreRepointed ==
  ASSUME NEW n \in Nat, NEW p, Sound(p, n), NEW v \in 1..Len(p.frames),
         NEW q, q.map = Repointed(p.map, p.frames, v), q.frames = SwapRemoved(p.frames, v)
  PROVE  /\ q.map \in Partial(Nat)
         /\ \A id : id \in DOMAIN q.map <=> id \in DOMAIN p.map /\ id # p.frames[v].page
         /\ \A id \in DOMAIN q.map : q.map[id] \in 1..Len(q.frames) /\ q.frames[q.map[id]] = p.frames[p.map[id]]
         /\ \A j \in 1..Len(q.frames) : \E id \in DOMAIN q.map : q.map[id] = j /\ q.frames[j] = p.frames[p.map[id]]
<1> DEFINE L == Len(p.frames)
<1>1. p \in Pools /\ L \in Nat /\ DOMAIN p.map \subseteq Nat
  BY PoolFields DEF Sound
<1>2. /\ \A i \in 1..L : p.frames[i].page \in DOMAIN p.map /\ p.map[p.frames[i].page] = i
      /\ \A id \in DOMAIN p.map : p.map[id] \in 1..L /\ p.frames[p.map[id]].page = id
  BY DEF Sound
<1>0. v \in 1..L /\ L \in 1..L
  BY <1>1
<1>3. Len(q.frames) = L - 1 /\ \A j \in 1..(L - 1) : q.frames[j] = IF j = v THEN p.frames[L] ELSE p.frames[j]
  BY TailIsMoved
<1>4. /\ DOMAIN q.map = DOMAIN p.map \ {p.frames[v].page}
      /\ \A id \in DOMAIN q.map :
           /\ v < L /\ id = p.frames[L].page => q.map[id] = v
           /\ ~ (v < L /\ id = p.frames[L].page) => q.map[id] = p.map[id]
  BY DEF Repointed
<1> HIDE DEF L
<1>5. ASSUME NEW id \in DOMAIN q.map PROVE q.map[id] \in 1..(L - 1) /\ q.frames[q.map[id]] = p.frames[p.map[id]]
  <2>1. id \in DOMAIN p.map /\ id # p.frames[v].page
    BY <1>4
  <2>2. p.map[id] \in 1..L /\ p.frames[p.map[id]].page = id /\ p.map[id] # v
    BY <1>2, <2>1
  <2>3. CASE v < L /\ id = p.frames[L].page
    <3>1. q.map[id] = v /\ p.map[id] = L
      BY <1>0, <1>2, <1>4, <2>3
    <3> QED  BY <1>1, <1>3, <2>3, <3>1
  <2>4. CASE ~ (v < L /\ id = p.frames[L].page)
    <3>1. q.map[id] = p.map[id]
      BY <1>4, <2>4
    <3>2. p.map[id] # L
      BY <1>0, <1>1, <2>2, <2>4
    <3> QED  BY <1>1, <1>3, <2>2, <3>1, <3>2
  <2> QED  BY <2>3, <2>4
<1>6. ASSUME NEW j \in 1..(L - 1) PROVE \E id \in DOMAIN q.map : q.map[id] = j /\ q.frames[j] = p.frames[p.map[id]]
  <2> DEFINE i == IF j = v THEN L ELSE j
             id == p.frames[i].page
  <2>1. i \in 1..L /\ i # v
    BY <1>1
  <2>2. id \in DOMAIN p.map /\ p.map[id] = i
    BY <1>2, <2>1
  <2>3. id \in DOMAIN q.map
    <3> HIDE DEF i, id
    <3>1. p.frames[v].page \in DOMAIN p.map /\ p.map[p.frames[v].page] = v
      BY <1>0, <1>2
    <3>2. id # p.frames[v].page
      BY <2>1, <2>2, <3>1
    <3> QED  BY <1>4, <2>2, <3>2
  <2>4. q.map[id] = j
    <3>1. CASE j = v
      <4>1. i = L /\ v < L /\ id = p.frames[L].page
        BY <1>1, <3>1
      <4> QED  BY <1>4, <2>3, <3>1, <4>1
    <3>2. CASE j # v
      <4>1. i = j /\ p.map[id] = j /\ j # L
        BY <1>1, <2>2, <3>2
      <4>2. id # p.frames[L].page
        BY <1>0, <1>2, <4>1
      <4> QED  BY <1>4, <2>3, <4>1, <4>2
    <3> QED  BY <3>1, <3>2
  <2>5. q.frames[j] = p.frames[i]
    BY <1>3
  <2> QED  BY <2>2, <2>3, <2>4, <2>5
<1>7. q.map \in Partial(Nat)
  <2>1. \A id \in DOMAIN q.map : q.map[id] \in Nat
    BY <1>1, <1>5
  <2>2. q.map = [id \in DOMAIN q.map |-> q.map[id]]
    BY DEF Repointed
  <2>3. q.map \in [DOMAIN q.map -> Nat]
    BY <2>1, <2>2
  <2> QED  BY <1>1, <1>4, <2>3, PartialIs
<1> QED  BY <1>3, <1>4, <1>5, <1>6, <1>7

\* The pool without the frame v, over files that differ from p's in that frame's page only.
LEMMA VictimIsDropped ==
  ASSUME NEW n \in Nat, NEW p, Sound(p, n), NEW v \in 1..Len(p.frames), NEW q, Whatever(q),
         q.frames = SwapRemoved(p.frames, v), q.map = Repointed(p.map, p.frames, v),
         q.hand \in Nat, q.moved = FALSE,
         q.store \in Files, DOMAIN q.store \subseteq 1..(n - 1),
         \A a : a # p.frames[v].page =>
           /\ Readable(q.store, a) <=> Readable(p.store, a)
           /\ Readable(p.store, a) => q.store[a] = p.store[a]
  PROVE  /\ Sound(q, n) /\ OthersSame(p, q, p.frames[v].page)
         /\ p.frames[v].page \notin DOMAIN q.map
<1> DEFINE d == p.frames[v].page
<1>1. /\ q.map \in Partial(Nat)
      /\ \A a : a \in DOMAIN q.map <=> a \in DOMAIN p.map /\ a # d
      /\ \A a \in DOMAIN q.map : q.map[a] \in 1..Len(q.frames) /\ q.frames[q.map[a]] = p.frames[p.map[a]]
      /\ \A j \in 1..Len(q.frames) : \E a \in DOMAIN q.map : q.map[a] = j /\ q.frames[j] = p.frames[p.map[a]]
  BY PagesAreRepointed
<1>2. q.frames \in Seq(Frames)
  BY TailIsMoved
<1>3. q \in Pools
  BY <1>1, <1>2 DEF Pools, Whatever
<1>4. ASSUME NEW j \in 1..Len(q.frames)
      PROVE  /\ q.frames[j].pins = 0
             /\ q.frames[j].page \in DOMAIN q.map /\ q.map[q.frames[j].page] = j
             /\ ~ q.frames[j].dirty =>
                  Readable(q.store, q.frames[j].page) /\ q.store[q.frames[j].page] = q.frames[j].data
  <2>1. PICK a \in DOMAIN q.map : q.map[a] = j /\ q.frames[j] = p.frames[p.map[a]]
    BY <1>1
  <2>2. a \in DOMAIN p.map /\ a # d
    BY <1>1
  <2>3. PICK i \in 1..Len(p.frames) : i = p.map[a] /\ p.frames[i].page = a
    BY <2>2 DEF Sound
  <2>4. /\ p.frames[i].pins = 0
        /\ ~ p.frames[i].dirty =>
             Readable(p.store, p.frames[i].page) /\ p.store[p.frames[i].page] = p.frames[i].data
    BY DEF Sound
  <2> QED  BY <2>1, <2>2, <2>3, <2>4
<1>5. \A a \in DOMAIN q.map : q.map[a] \in 1..Len(q.frames) /\ q.frames[q.map[a]].page = a
  <2> TAKE a \in DOMAIN q.map
  <2>1. a \in DOMAIN p.map /\ q.frames[q.map[a]] = p.frames[p.map[a]] /\ q.map[a] \in 1..Len(q.frames)
    BY <1>1
  <2>2. p.frames[p.map[a]].page = a
    BY <2>1 DEF Sound
  <2> QED  BY <2>1, <2>2
<1>6. DOMAIN q.map \subseteq 1..(n - 1)
  BY <1>1 DEF Sound
<1>7. Sound(q, n)
  BY <1>3, <1>4, <1>5, <1>6 DEF Sound
<1>8. ASSUME NEW a, a # d
      PROVE  SameAt(p, q, a) /\ OlderAt(p, q, a)
  <2>1. a \in DOMAIN q.map <=> a \in DOMAIN p.map
    BY <1>1, <1>8
  <2>2. a \in DOMAIN q.map => q.frames[q.map[a]] = p.frames[p.map[a]]
    BY <1>1
  <2>3. (Readable(q.store, a) <=> Readable(p.store, a)) /\ (Readable(p.store, a) => q.store[a] = p.store[a])
    BY <1>8
  <2> QED  BY <2>1, <2>2, <2>3 DEF SameAt, OlderAt, Versions, Pinnable, Image
<1> QED  BY <1>1, <1>7, <1>8 DEF OthersSame

\* Another hand.
LEMMA HandField ==
  ASSUME NEW x, NEW y, NEW g, NEW w, NEW z, NEW h,
         NEW p, p = [frames |-> x, map |-> y, hand |-> g, store |-> w, moved |-> z]
  PROVE  [p EXCEPT !.hand = h] = [frames |-> x, map |-> y, hand |-> h, store |-> w, moved |-> z]
OBVIOUS

LEMMA Remainder ==
  ASSUME NEW a \in Nat, NEW b \in Nat \ {0}
  PROVE  a % b \in Nat /\ a % b < b
OBVIOUS

FilePut(s, id, v) == [j \in DOMAIN s \cup {id} |-> IF j = id THEN v ELSE s[j]]

LEMMA PageIsPut ==
  ASSUME NEW s \in Files, NEW n \in Nat, DOMAIN s \subseteq 1..(n - 1),
         NEW id \in 1..(n - 1), NEW v \in Contents,
         NEW t, t = FilePut(s, id, v)
  PROVE  /\ t \in Files
         /\ DOMAIN t \subseteq 1..(n - 1)
         /\ \A a : a # id => /\ Readable(t, a) <=> Readable(s, a)
                             /\ Readable(s, a) => t[a] = s[a]
         /\ t[id] = v /\ (Readable(t, id) <=> v # TornPage)
<1>1. \A j \in DOMAIN s : s[j] \in Contents
  BY PartialIs DEF Files
<1>2. DOMAIN t = DOMAIN s \cup {id} /\ \A j \in DOMAIN s \cup {id} : t[j] = IF j = id THEN v ELSE s[j]
  BY DEF FilePut
<1>3. DOMAIN s \cup {id} \in SUBSET Nat
  OBVIOUS
<1>4. t \in [DOMAIN s \cup {id} -> Contents]
  BY <1>1 DEF FilePut
<1>5. t \in Files
  BY <1>3, <1>4, PartialIs DEF Files
<1>6. t[id] = v /\ (Readable(t, id) <=> v # TornPage)
  BY <1>2 DEF Readable
<1>7. \A a : a # id => /\ Readable(t, a) <=> Readable(s, a)
                       /\ Readable(s, a) => t[a] = s[a]
  BY <1>2 DEF Readable
<1> QED  BY <1>2, <1>5, <1>6, <1>7

\* The files after a page was written: in full, not at all, or torn.
LEMMA FilesWritten ==
  ASSUME NEW s \in Files, NEW n \in Nat, DOMAIN s \subseteq 1..(n - 1),
         NEW id \in 1..(n - 1), NEW image \in Images, NEW fault, NEW t, t = StoreWrite(s, id, image, fault)
  PROVE  /\ t \in Files
         /\ DOMAIN t \subseteq 1..(n - 1)
         /\ \A a : a # id => /\ Readable(t, a) <=> Readable(s, a)
                             /\ Readable(s, a) => t[a] = s[a]
         /\ ~ WriteFails(fault, id) => Readable(t, id) /\ t[id] = image
         /\ Readable(t, id) => t[id] = image \/ (Readable(s, id) /\ t[id] = s[id])
<1>1. CASE ~ WriteFails(fault, id)
  <2>1. t = FilePut(s, id, image)
    BY <1>1 DEF StoreWrite, FilePut
  <2>2. image \in Contents /\ image # TornPage
    BY TornIsNoImage DEF Contents
  <2>3. /\ t \in Files
        /\ DOMAIN t \subseteq 1..(n - 1)
        /\ \A a : a # id => /\ Readable(t, a) <=> Readable(s, a)
                            /\ Readable(s, a) => t[a] = s[a]
        /\ t[id] = image /\ (Readable(t, id) <=> image # TornPage)
    BY <2>1, <2>2, PageIsPut
  <2> QED  BY <1>1, <2>2, <2>3
<1>2. CASE WriteFails(fault, id) /\ fault.torn
  <2>1. t = FilePut(s, id, TornPage)
    BY <1>2 DEF StoreWrite, FilePut
  <2>2. TornPage \in Contents
    BY DEF Contents
  <2>3. /\ t \in Files
        /\ DOMAIN t \subseteq 1..(n - 1)
        /\ \A a : a # id => /\ Readable(t, a) <=> Readable(s, a)
                            /\ Readable(s, a) => t[a] = s[a]
        /\ t[id] = TornPage
    BY <2>1, <2>2, PageIsPut
  <2>4. ~ Readable(t, id)
    BY <2>3 DEF Readable
  <2> QED  BY <1>2, <2>3, <2>4
<1>3. CASE WriteFails(fault, id) /\ ~ fault.torn
  <2>1. t = s
    BY <1>3 DEF StoreWrite
  <2> QED  BY <1>3, <2>1
<1> QED  BY <1>1, <1>2, <1>3

\* What a pin of any page answers in q it also answers in p, and in q it answers no
\* image that was not one of p's.
AllSame(p, q) == \A a : SameAt(p, q, a) /\ OlderAt(p, q, a)
AllOlder(p, q) == \A a : OlderAt(p, q, a)

LEMMA EvictedIsSound ==
  ASSUME NEW n \in Nat, NEW p, Sound(p, n), NEW v \in 1..Len(p.frames), NEW fault
  PROVE  LET r == Evicted(p, v, fault) IN
         /\ Sound(r.p, n)
         /\ AllOlder(p, r.p)
         /\ r.ok => AllSame(p, r.p)
         /\ ~ r.ok => WriteFails(fault, p.frames[v].page)
         /\ r.ok \in BOOLEAN
<1> DEFINE f == p.frames[v]
           x == SwapRemoved(p.frames, v)
           y == Repointed(p.map, p.frames, v)
           z == p.moved \/ (v < Len(p.frames) /\ ~ Idle(p.frames[Len(p.frames)]))
           w == IF f.dirty THEN StoreWrite(p.store, f.page, f.data, fault) ELSE p.store
           h == IF Len(p.frames) = 1 THEN 0 ELSE p.hand % (Len(p.frames) - 1)
           out == [p EXCEPT !.frames = x, !.map = y, !.moved = z, !.store = w]
           r == Evicted(p, v, fault)
<1>1. p \in Pools /\ p.frames \in Seq(Frames) /\ Len(p.frames) \in Nat /\ Whatever(p) /\ p.hand \in Nat
      /\ p.store \in Files /\ DOMAIN p.store \subseteq 1..(n - 1)
  BY PoolFields DEF Sound, Whatever
<1>2. f \in Frames /\ f.data \in Images
  <2>1. f \in Frames
    BY <1>1
  <2> HIDE DEF f
  <2> QED  BY <2>1 DEF Frames
<1>3. f.page \in DOMAIN p.map /\ p.map[f.page] = v
  BY DEF Sound
<1>4. f.page \in 1..(n - 1)
  BY <1>3 DEF Sound
<1>5. ~ f.dirty => Readable(p.store, f.page) /\ p.store[f.page] = f.data
  BY DEF Sound
<1>6. z = FALSE
  <2>1. \A i \in 1..Len(p.frames) : p.frames[i].pins = 0
    BY DEF Sound
  <2>2. v < Len(p.frames) => Idle(p.frames[Len(p.frames)])
    BY <1>1, <2>1 DEF Idle
  <2>3. ~ p.moved
    BY DEF Sound
  <2> QED  BY <2>2, <2>3
<1>7. h \in Nat
  <2>1. CASE Len(p.frames) = 1
    BY <2>1
  <2>2. CASE Len(p.frames) # 1
    <3>1. Len(p.frames) - 1 \in Nat \ {0}
      BY <1>1, <2>2
    <3>2. p.hand % (Len(p.frames) - 1) \in Nat
      BY <1>1, <3>1, Remainder
    <3> QED  BY <2>2, <3>2
  <2> QED  BY <2>1, <2>2
<1>8. /\ w \in Files /\ DOMAIN w \subseteq 1..(n - 1)
      /\ \A a : a # f.page =>
           /\ Readable(w, a) <=> Readable(p.store, a)
           /\ Readable(p.store, a) => w[a] = p.store[a]
      /\ ~ (f.dirty /\ WriteFails(fault, f.page)) => Readable(w, f.page) /\ w[f.page] = f.data
      /\ Readable(w, f.page) => w[f.page] = f.data \/ (Readable(p.store, f.page) /\ w[f.page] = p.store[f.page])
  <2>1. CASE f.dirty
    <3>1. w = StoreWrite(p.store, f.page, f.data, fault)
      BY <2>1
    <3> HIDE DEF w, f
    <3>2. /\ w \in Files
          /\ DOMAIN w \subseteq 1..(n - 1)
          /\ \A a : a # f.page => /\ Readable(w, a) <=> Readable(p.store, a)
                                  /\ Readable(p.store, a) => w[a] = p.store[a]
          /\ ~ WriteFails(fault, f.page) => Readable(w, f.page) /\ w[f.page] = f.data
          /\ Readable(w, f.page) => w[f.page] = f.data \/ (Readable(p.store, f.page) /\ w[f.page] = p.store[f.page])
      BY <1>1, <1>2, <1>4, <3>1, FilesWritten
    <3> QED  BY <2>1, <3>2
  <2>2. CASE ~ f.dirty
    <3>1. w = p.store
      BY <2>2
    <3> HIDE DEF w, f
    <3> QED  BY <1>1, <1>5, <2>2, <3>1
  <2> QED  BY <2>1, <2>2
<1>9. out = [frames |-> x, map |-> y, hand |-> p.hand, store |-> w, moved |-> z]
  <2> HIDE DEF x, y, z, w
  <2> DEFINE names == {"frames", "map", "hand", "store", "moved"}
             put == [i \in names |-> IF i = "frames" THEN x ELSE IF i = "map" THEN y
                                     ELSE IF i = "moved" THEN z ELSE IF i = "store" THEN w ELSE p[i]]
  <2>2. DOMAIN p = names
    BY <1>1 DEF Whatever
  <2>3. out = put
    BY <2>2
  <2>4. [frames |-> x, map |-> y, hand |-> p.hand, store |-> w, moved |-> z] = put
    OBVIOUS
  <2> QED  BY <2>3, <2>4
<1> DEFINE fails == f.dirty /\ WriteFails(fault, f.page)
<1>10. /\ fails => r = [p |-> out, ok |-> FALSE, fid |-> 0]
       /\ ~ fails => r = [p |-> [out EXCEPT !.hand = h], ok |-> TRUE, fid |-> 0]
  BY DEF Evicted
<1> HIDE DEF r, x, y, z, w, h
<1>11. \E g \in Nat : r.p = [frames |-> x, map |-> y, hand |-> g, store |-> w, moved |-> z]
  <2>1. CASE fails
    BY <1>1, <1>9, <1>10, <2>1
  <2>2. CASE ~ fails
    <3> HIDE DEF fails, out
    <3>1. [out EXCEPT !.hand = h] = [frames |-> x, map |-> y, hand |-> h, store |-> w, moved |-> z]
      BY <1>9, HandField
    <3> QED  BY <1>7, <1>10, <2>2, <3>1
  <2> QED  BY <2>1, <2>2
<1>12. r.ok \in BOOLEAN /\ (r.ok <=> ~ fails)
  <2>1. CASE fails
    <3>1. r.ok = FALSE
      BY <1>10, <2>1
    <3> QED  BY <2>1, <3>1
  <2>2. CASE ~ fails
    <3>1. r.ok = TRUE
      BY <1>10, <2>2
    <3> QED  BY <2>2, <3>1
  <2> QED  BY <2>1, <2>2
<1> DEFINE q == r.p
<1>13. Whatever(q) /\ q.frames = x /\ q.map = y /\ q.hand \in Nat /\ q.moved = FALSE /\ q.store = w
  BY <1>6, <1>11 DEF Whatever
<1> HIDE DEF q
<1>14. Sound(q, n) /\ OthersSame(p, q, f.page) /\ f.page \notin DOMAIN q.map
  <2>1. q.frames = SwapRemoved(p.frames, v) /\ q.map = Repointed(p.map, p.frames, v)
    BY <1>13 DEF x, y
  <2> HIDE DEF f
  <2>2. /\ q.store \in Files /\ DOMAIN q.store \subseteq 1..(n - 1)
        /\ \A a : a # f.page =>
             /\ Readable(q.store, a) <=> Readable(p.store, a)
             /\ Readable(p.store, a) => q.store[a] = p.store[a]
    BY <1>8, <1>13
  <2> USE DEF f
  <2> QED  BY <1>13, <2>1, <2>2, VictimIsDropped
<1>15. OlderAt(p, q, f.page)
  <2>1. Versions(p, f.page) = {f.data} \cup (IF Readable(p.store, f.page) THEN {p.store[f.page]} ELSE {})
    BY <1>3 DEF Versions
  <2>2. Versions(q, f.page) = IF Readable(w, f.page) THEN {w[f.page]} ELSE {}
    BY <1>13, <1>14 DEF Versions
  <2> HIDE DEF f
  <2> QED  BY <1>8, <2>1, <2>2 DEF OlderAt
<1>16. ~ fails => SameAt(p, q, f.page)
  <2>1. Pinnable(p, f.page) /\ Image(p, f.page) = f.data
    BY <1>3 DEF Pinnable, Image
  <2> HIDE DEF f
  <2>2. ~ fails => Readable(q.store, f.page) /\ q.store[f.page] = f.data
    BY <1>8, <1>13
  <2> QED  BY <1>14, <2>1, <2>2 DEF SameAt, Pinnable, Image
<1>17. AllOlder(p, q) /\ (~ fails => AllSame(p, q))
  <2> HIDE DEF f, fails
  <2> QED  BY <1>14, <1>15, <1>16 DEF AllOlder, AllSame, OthersSame
<1> QED  BY <1>12, <1>14, <1>17 DEF q, r

\* Two pools that differ in the hand and in reference bits only.
LEMMA AlikeIsSame ==
  ASSUME NEW n \in Nat, NEW p, Sound(p, n), NEW q, Whatever(q), q.hand \in Nat,
         q.map = p.map, q.store = p.store, q.moved = p.moved,
         q.frames \in Seq(Frames), Len(q.frames) = Len(p.frames),
         \A i \in 1..Len(p.frames) :
           /\ q.frames[i].page = p.frames[i].page /\ q.frames[i].pins = p.frames[i].pins
           /\ q.frames[i].data = p.frames[i].data /\ (q.frames[i].dirty <=> p.frames[i].dirty)
  PROVE  Sound(q, n) /\ AllSame(p, q)
<1>1. p \in Pools /\ p.map \in Partial(Nat) /\ p.store \in Files /\ p.moved \in BOOLEAN
  BY PoolFields DEF Sound
<1>2. q \in Pools
  BY <1>1 DEF Pools, Whatever
<1>3. ASSUME NEW i \in 1..Len(q.frames)
      PROVE  /\ q.frames[i].pins = 0
             /\ q.frames[i].page \in DOMAIN q.map /\ q.map[q.frames[i].page] = i
             /\ ~ q.frames[i].dirty =>
                  Readable(q.store, q.frames[i].page) /\ q.store[q.frames[i].page] = q.frames[i].data
  <2>1. i \in 1..Len(p.frames)
    OBVIOUS
  <2>2. /\ p.frames[i].pins = 0
        /\ p.frames[i].page \in DOMAIN p.map /\ p.map[p.frames[i].page] = i
        /\ ~ p.frames[i].dirty =>
             Readable(p.store, p.frames[i].page) /\ p.store[p.frames[i].page] = p.frames[i].data
    BY <2>1 DEF Sound
  <2> QED  BY <2>1, <2>2
<1>4. \A id \in DOMAIN q.map : q.map[id] \in 1..Len(q.frames) /\ q.frames[q.map[id]].page = id
  <2> TAKE id \in DOMAIN q.map
  <2>1. p.map[id] \in 1..Len(p.frames) /\ p.frames[p.map[id]].page = id
    BY DEF Sound
  <2> QED  BY <2>1
<1>5. Sound(q, n)
  BY <1>2, <1>3, <1>4 DEF Sound
<1>6. ASSUME NEW a PROVE SameAt(p, q, a) /\ OlderAt(p, q, a)
  <2>1. a \in DOMAIN p.map => q.frames[p.map[a]].data = p.frames[p.map[a]].data
    <3>1. a \in DOMAIN p.map => p.map[a] \in 1..Len(p.frames)
      BY DEF Sound
    <3> QED  BY <3>1
  <2> QED  BY <2>1 DEF SameAt, OlderAt, Versions, Pinnable, Image
<1> QED  BY <1>5, <1>6 DEF AllSame

LEMMA BitIsCleared ==
  ASSUME NEW f \in Frames, NEW g, g = [f EXCEPT !.ref = FALSE]
  PROVE  /\ g \in Frames /\ g.page = f.page /\ g.pins = f.pins /\ g.data = f.data
         /\ (g.dirty <=> f.dirty)
<1>1. g.page = f.page /\ g.pins = f.pins /\ g.data = f.data /\ g.dirty = f.dirty
  BY Zenon DEF Frames
<1>2. g \in Frames
  BY DEF Frames
<1> QED  BY <1>1, <1>2

LEMMA SweepStays ==
  ASSUME NEW n \in Nat, NEW p, Sound(p, n), Len(p.frames) > 0, NEW k \in Nat
  PROVE  SweepFrame(p, k) \in 1..Len(p.frames)
<1>1. p.hand \in Nat /\ Len(p.frames) \in Nat \ {0}
  BY PoolFields DEF Sound
<1>2. p.hand + k \in Nat
  BY <1>1
<1>3. (p.hand + k) % Len(p.frames) \in Nat /\ (p.hand + k) % Len(p.frames) < Len(p.frames)
  BY <1>1, <1>2, Remainder
<1> DEFINE m == (p.hand + k) % Len(p.frames)
<1> HIDE DEF m
<1>4. m \in Nat /\ m < Len(p.frames)
  BY <1>3 DEF m
<1>5. m + 1 \in 1..Len(p.frames)
  BY <1>1, <1>4
<1> QED  BY <1>5 DEF SweepFrame, m

LEMMA SweptIsSame ==
  ASSUME NEW n \in Nat, NEW p, Sound(p, n), Len(p.frames) > 0, NEW k \in Nat
  PROVE  /\ Sound(Swept(p, k), n) /\ AllSame(p, Swept(p, k))
         /\ Len(Swept(p, k).frames) = Len(p.frames)
         /\ \A i \in 1..Len(p.frames) : Swept(p, k).frames[i].page = p.frames[i].page
<1> DEFINE hit(i) == Idle(p.frames[i]) /\ \E j \in 0..(k - 1) : SweepFrame(p, j) = i
           x == [i \in DOMAIN p.frames |-> IF hit(i) THEN [p.frames[i] EXCEPT !.ref = FALSE] ELSE p.frames[i]]
           h == IF k = 0 THEN p.hand ELSE SweepFrame(p, k - 1)
           q == Swept(p, k)
           names == {"frames", "map", "hand", "store", "moved"}
           put == [i \in names |-> IF i = "frames" THEN x ELSE IF i = "hand" THEN h ELSE p[i]]
<1>1. p \in Pools /\ p.frames \in Seq(Frames) /\ Len(p.frames) \in Nat /\ p.hand \in Nat /\ Whatever(p)
      /\ DOMAIN p.frames = 1..Len(p.frames)
  BY PoolFields DEF Sound, Whatever
<1>2. h \in Nat
  <2>1. CASE k = 0
    BY <1>1, <2>1
  <2>2. CASE k # 0
    <3>1. k - 1 \in Nat
      BY <2>2
    <3>2. SweepFrame(p, k - 1) \in 1..Len(p.frames)
      BY <3>1, SweepStays
    <3> QED  BY <1>1, <2>2, <3>2
  <2> QED  BY <2>1, <2>2
<1>3. ASSUME NEW i \in 1..Len(p.frames)
      PROVE  /\ x[i] \in Frames
             /\ x[i].page = p.frames[i].page /\ x[i].pins = p.frames[i].pins
             /\ x[i].data = p.frames[i].data /\ (x[i].dirty <=> p.frames[i].dirty)
  <2>1. p.frames[i] \in Frames
    BY <1>1
  <2> HIDE DEF hit
  <2>2. x[i] = IF hit(i) THEN [p.frames[i] EXCEPT !.ref = FALSE] ELSE p.frames[i]
    BY <1>1
  <2> HIDE DEF x
  <2>3. CASE hit(i)
    <3>1. x[i] = [p.frames[i] EXCEPT !.ref = FALSE]
      BY <2>2, <2>3
    <3> QED  BY <2>1, <3>1, BitIsCleared
  <2>4. CASE ~ hit(i)
    BY <2>1, <2>2, <2>4
  <2> QED  BY <2>3, <2>4
<1>4. x \in Seq(Frames) /\ Len(x) = Len(p.frames)
  <2>1. DOMAIN x = 1..Len(p.frames) /\ \A i \in 1..Len(p.frames) : x[i] \in Frames
    BY <1>1, <1>3
  <2>2. x = [i \in 1..Len(p.frames) |-> x[i]]
    BY <1>1
  <2> HIDE DEF x
  <2>3. x \in [1..Len(p.frames) -> Frames]
    BY <2>1, <2>2
  <2> QED  BY <1>1, <2>3
<1> HIDE DEF hit
<1>5. q = [p EXCEPT !.frames = x, !.hand = h]
  BY DEF Swept, hit
<1> HIDE DEF x, h, q
<1>6. DOMAIN p = names
  BY <1>1 DEF Whatever
<1>7. q = put
  BY <1>5, <1>6
<1>8. [frames |-> x, map |-> p.map, hand |-> h, store |-> p.store, moved |-> p.moved] = put
  OBVIOUS
<1>9. q = [frames |-> x, map |-> p.map, hand |-> h, store |-> p.store, moved |-> p.moved]
  BY <1>7, <1>8
<1>10. Whatever(q) /\ q.frames = x /\ q.map = p.map /\ q.hand = h /\ q.store = p.store /\ q.moved = p.moved
  BY <1>9 DEF Whatever
<1>11. Sound(q, n) /\ AllSame(p, q)
  BY <1>2, <1>3, <1>4, <1>10, AlikeIsSame
<1> QED  BY <1>3, <1>4, <1>10, <1>11 DEF q

LEMMA SameChains ==
  ASSUME NEW p, NEW q, NEW r, AllSame(p, q)
  PROVE  (AllSame(q, r) => AllSame(p, r)) /\ (AllOlder(q, r) => AllOlder(p, r))
BY DEF AllSame, AllOlder, SameAt, OlderAt

\* make_room always finds a victim, and fails only if the victim cannot be written.
LEMMA RoomIsMade ==
  ASSUME NEW n \in Nat, NEW p, Sound(p, n), NEW fault
  PROVE  LET r == MakeRoom(p, fault) IN
         /\ Sound(r.p, n) /\ AllOlder(p, r.p) /\ r.ok \in BOOLEAN
         /\ r.ok => AllSame(p, r.p)
         /\ ~ r.ok => \E id \in 1..(n - 1) : WriteFails(fault, id)
<1> DEFINE r == MakeRoom(p, fault)
           L == Len(p.frames)
<1>1. p \in Pools /\ L \in Nat
  BY PoolFields DEF Sound
<1>2. CASE L < Capacity
  <2>1. r = [p |-> p, ok |-> TRUE, fid |-> 0]
    BY <1>2 DEF MakeRoom
  <2>2. AllOlder(p, p) /\ AllSame(p, p)
    BY DEF AllOlder, AllSame, SameAt, OlderAt
  <2> HIDE DEF r
  <2>3. r.p = p /\ r.ok = TRUE
    BY <2>1
  <2> QED  BY <2>2, <2>3 DEF r
<1>3. CASE ~ (L < Capacity)
  <2>1. L > 0
    BY <1>1, <1>3, CapacityAssumption
  <2>2. L \in VictimSteps(p)
    <3>1. SweepFrame(p, L) \in 1..L
      BY <1>1, <2>1, SweepStays
    <3>2. p.frames[SweepFrame(p, L)].pins = 0
      BY <3>1 DEF Sound
    <3>3. L \in SweepSteps(p)
      BY <1>1, <2>1 DEF SweepSteps
    <3> QED  BY <1>1, <3>2, <3>3 DEF VictimSteps, Idle
  <2>3. VictimSteps(p) \subseteq Nat
    <3>1. SweepSteps(p) \subseteq Nat
      BY <1>1 DEF SweepSteps
    <3> QED  BY <3>1 DEF VictimSteps
  <2> DEFINE k == CHOOSE j \in VictimSteps(p) : \A i \in VictimSteps(p) : j <= i
             s == Swept(p, k)
             v == SweepFrame(p, k)
  <2>4. k \in VictimSteps(p)
    <3>1. PICK j \in VictimSteps(p) : \A i \in VictimSteps(p) : ~ (i < j)
      BY <2>2, <2>3, LeastNumber
    <3>2. \A i \in VictimSteps(p) : j <= i
      BY <2>3, <3>1
    <3> QED  BY <3>1, <3>2
  <2>5. r = Evicted(s, v, fault)
    BY <1>3, <2>2 DEF MakeRoom
  <2> HIDE DEF k, r
  <2>6. k \in Nat
    BY <2>3, <2>4
  <2>7. /\ Sound(s, n) /\ AllSame(p, s) /\ Len(s.frames) = L
        /\ \A i \in 1..L : s.frames[i].page = p.frames[i].page
    BY <2>1, <2>6, SweptIsSame
  <2>8. v \in 1..L
    BY <2>1, <2>6, SweepStays
  <2> HIDE DEF s, v
  <2>9. v \in 1..Len(s.frames)
    BY <2>7, <2>8
  <2>10. /\ Sound(r.p, n) /\ AllOlder(s, r.p) /\ (r.ok => AllSame(s, r.p))
         /\ ~ r.ok => WriteFails(fault, s.frames[v].page)
         /\ r.ok \in BOOLEAN
    BY <2>5, <2>7, <2>9, EvictedIsSound
  <2>11. s.frames[v].page \in 1..(n - 1)
    BY <2>7, <2>9 DEF Sound
  <2>12. AllOlder(p, r.p) /\ (r.ok => AllSame(p, r.p))
    BY <2>7, <2>10, SameChains
  <2> QED  BY <2>10, <2>11, <2>12 DEF r
<1> QED  BY <1>2, <1>3

----------------------------------------------------------------------------
(* Pages are created, and flushed.                                         *)

LEMMA SoundGrows ==
  ASSUME NEW n \in Nat, NEW p, Sound(p, n)
  PROVE  Sound(p, n + 1) /\ ~ Pinnable(p, n) /\ Versions(p, n) = {}
<1>1. DOMAIN p.map \subseteq 1..(n - 1) /\ DOMAIN p.store \subseteq 1..(n - 1)
  BY DEF Sound
<1>2. DOMAIN p.map \subseteq 1..((n + 1) - 1) /\ DOMAIN p.store \subseteq 1..((n + 1) - 1)
  BY <1>1
<1>3. Sound(p, n + 1)
  BY <1>2 DEF Sound
<1>4. n \notin DOMAIN p.map /\ n \notin DOMAIN p.store
  BY <1>1
<1> QED  BY <1>3, <1>4 DEF Pinnable, Versions, Readable

\* create_page of a fresh id, written blank.  It fails only in make_room.
LEMMA PageIsAllocated ==
  ASSUME NEW n \in Nat \ {0}, NEW p, Sound(p, n), NEW fault
  PROVE  LET r == AllocPage(p, n, fault) IN
         /\ Sound(r.p, n + 1) /\ r.ok \in BOOLEAN
         /\ \A a : a # n => OlderAt(p, r.p, a) /\ (r.ok => SameAt(p, r.p, a))
         /\ r.ok => Pinnable(r.p, n) /\ Image(r.p, n) = Blank /\ Versions(r.p, n) \subseteq {Blank}
         /\ ~ r.ok => \E id \in 1..(n - 1) : WriteFails(fault, id)
<1> DEFINE m == MakeRoom(p, fault)
           f == Frame(n, Blank, TRUE)
           c == CreatePage(p, n, fault)
           r == AllocPage(p, n, fault)
<1>1. DOMAIN p.map \subseteq 1..(n - 1) /\ DOMAIN p.store \subseteq 1..(n - 1)
  BY DEF Sound
<1>2. n \notin DOMAIN p.map
  BY <1>1
<1>3. ~ StoreContains(p.store, n)
  <2>1. \A j \in DOMAIN p.store : ~ (j >= n)
    BY <1>1
  <2> QED  BY <2>1 DEF StoreContains
<1>4. c = IF m.ok THEN Pushed(m.p, f) ELSE m
  BY <1>2, <1>3 DEF CreatePage
<1>5. r = Written(c, Blank)
  BY DEF AllocPage
<1>6. /\ Sound(m.p, n) /\ AllOlder(p, m.p) /\ m.ok \in BOOLEAN
      /\ m.ok => AllSame(p, m.p)
      /\ ~ m.ok => \E id \in 1..(n - 1) : WriteFails(fault, id)
  BY RoomIsMade
<1>7. Sound(m.p, n + 1) /\ Versions(m.p, n) = {} /\ ~ Pinnable(m.p, n)
  BY <1>6, SoundGrows
<1>8. f \in Frames /\ f.page = n /\ f.pins = 1 /\ f.dirty = TRUE /\ f.data = Blank
  BY TornIsNoImage DEF Frame, Frames
<1> HIDE DEF m, c, f, r
<1>9. CASE m.ok
  <2>1. c = Pushed(m.p, f)
    BY <1>4, <1>9
  <2>2. n \in 1..((n + 1) - 1) /\ n \notin DOMAIN m.p.map /\ n + 1 \in Nat
    BY <1>7 DEF Pinnable
  <2>3. Held(m.p, c, n, n + 1)
    BY <1>7, <1>8, <2>1, <2>2, PushedHolds
  <2>4. r.ok /\ Shows(m.p, r.p, n, Blank, n + 1)
    BY <1>5, <2>3, TornIsNoImage, HeldIsWritten
  <2>5. \A a : a # n => SameAt(m.p, r.p, a) /\ OlderAt(m.p, r.p, a)
    BY <2>4 DEF Shows, OthersSame
  <2>6. \A a : SameAt(p, m.p, a) /\ OlderAt(p, m.p, a)
    BY <1>6, <1>9 DEF AllSame
  <2>7. \A a : a # n => SameAt(p, r.p, a) /\ OlderAt(p, r.p, a)
    BY <2>5, <2>6 DEF SameAt, OlderAt
  <2>8. r.ok = TRUE
    <3>1. c.ok = TRUE /\ c = [p |-> c.p, ok |-> TRUE, fid |-> c.fid]
      BY <2>3 DEF Held
    <3> QED  BY <1>5, <3>1 DEF Written
  <2>9. Sound(r.p, n + 1) /\ Pinnable(r.p, n) /\ Image(r.p, n) = Blank /\ Versions(r.p, n) \subseteq {Blank}
    BY <1>7, <2>4 DEF Shows
  <2> QED  BY <2>7, <2>8, <2>9 DEF r
<1>10. CASE ~ m.ok
  <2>1. r = m
    BY <1>4, <1>5, <1>10 DEF Written
  <2> QED  BY <1>6, <1>7, <1>10, <2>1 DEF r, AllOlder
<1> QED  BY <1>6, <1>9, <1>10

\* Files that are brought up to the frames, or of which only pages of dirty frames are torn.
LEMMA FlushIsSame ==
  ASSUME NEW n \in Nat, NEW p, Sound(p, n), NEW q, Whatever(q), q.hand \in Nat,
         q.map = p.map, q.moved = p.moved, q.store \in Files, DOMAIN q.store \subseteq 1..(n - 1),
         q.frames \in Seq(Frames), Len(q.frames) = Len(p.frames),
         \A i \in 1..Len(p.frames) :
           /\ q.frames[i].page = p.frames[i].page /\ q.frames[i].pins = p.frames[i].pins
           /\ q.frames[i].data = p.frames[i].data
           /\ ~ q.frames[i].dirty =>
                Readable(q.store, p.frames[i].page) /\ q.store[p.frames[i].page] = p.frames[i].data
           /\ Readable(q.store, p.frames[i].page) =>
                \/ q.store[p.frames[i].page] = p.frames[i].data
                \/ Readable(p.store, p.frames[i].page) /\ q.store[p.frames[i].page] = p.store[p.frames[i].page],
         \A a : a \notin DOMAIN p.map =>
           /\ Readable(q.store, a) <=> Readable(p.store, a)
           /\ Readable(p.store, a) => q.store[a] = p.store[a]
  PROVE  Sound(q, n) /\ AllSame(p, q)
<1>1. p \in Pools /\ p.map \in Partial(Nat) /\ p.moved \in BOOLEAN
  BY PoolFields DEF Sound
<1>2. q \in Pools
  BY <1>1 DEF Pools, Whatever
<1>3. ASSUME NEW i \in 1..Len(q.frames)
      PROVE  /\ q.frames[i].pins = 0
             /\ q.frames[i].page \in DOMAIN q.map /\ q.map[q.frames[i].page] = i
             /\ ~ q.frames[i].dirty =>
                  Readable(q.store, q.frames[i].page) /\ q.store[q.frames[i].page] = q.frames[i].data
  <2>1. i \in 1..Len(p.frames)
    OBVIOUS
  <2>2. p.frames[i].pins = 0 /\ p.frames[i].page \in DOMAIN p.map /\ p.map[p.frames[i].page] = i
    BY <2>1 DEF Sound
  <2>3. /\ q.frames[i].page = p.frames[i].page /\ q.frames[i].pins = p.frames[i].pins
        /\ q.frames[i].data = p.frames[i].data
        /\ ~ q.frames[i].dirty =>
             Readable(q.store, p.frames[i].page) /\ q.store[p.frames[i].page] = p.frames[i].data
    BY <2>1
  <2> QED  BY <2>2, <2>3
<1>4. \A id \in DOMAIN q.map : q.map[id] \in 1..Len(q.frames) /\ q.frames[q.map[id]].page = id
  <2> TAKE id \in DOMAIN q.map
  <2>1. p.map[id] \in 1..Len(p.frames) /\ p.frames[p.map[id]].page = id
    BY DEF Sound
  <2> QED  BY <2>1
<1>5. Sound(q, n)
  BY <1>2, <1>3, <1>4 DEF Sound
<1>6. ASSUME NEW a PROVE SameAt(p, q, a) /\ OlderAt(p, q, a)
  <2>1. CASE a \in DOMAIN p.map
    <3>1. PICK i \in 1..Len(p.frames) : p.map[a] = i /\ p.frames[i].page = a
      BY <2>1 DEF Sound
    <3>2. /\ q.frames[i].data = p.frames[i].data
          /\ Readable(q.store, a) =>
               \/ q.store[a] = p.frames[i].data
               \/ Readable(p.store, a) /\ q.store[a] = p.store[a]
      BY <3>1
    <3> QED  BY <2>1, <3>1, <3>2 DEF SameAt, OlderAt, Versions, Pinnable, Image
  <2>2. CASE a \notin DOMAIN p.map
    <3>1. (Readable(q.store, a) <=> Readable(p.store, a)) /\ (Readable(p.store, a) => q.store[a] = p.store[a])
      BY <2>2
    <3> QED  BY <2>2, <3>1 DEF SameAt, OlderAt, Versions, Pinnable, Image
  <2> QED  BY <2>1, <2>2
<1> QED  BY <1>5, <1>6 DEF AllSame

LEMMA FrameIsClean ==
  ASSUME NEW f \in Frames, NEW g, g = [f EXCEPT !.dirty = FALSE]
  PROVE  g \in Frames /\ g.page = f.page /\ g.pins = f.pins /\ g.data = f.data /\ ~ g.dirty
<1>1. g.page = f.page /\ g.pins = f.pins /\ g.data = f.data /\ g.dirty = FALSE
  BY Zenon DEF Frames
<1>2. g \in Frames
  BY DEF Frames
<1> QED  BY <1>1, <1>2

LEMMA FlushedIsSame ==
  ASSUME NEW n \in Nat, NEW p, Sound(p, n), NEW fault
  PROVE  LET q == FlushAll(p, fault).p IN Sound(q, n) /\ AllSame(p, q)
<1> DEFINE dirty == {i \in DOMAIN p.frames : p.frames[i].dirty}
           stops == {i \in dirty : WriteFails(fault, p.frames[i].page)}
           done == {i \in dirty : \A j \in stops : i < j}
           pages == {p.frames[i].page : i \in done}
           at(id) == CHOOSE i \in done : p.frames[i].page = id
           x == [i \in DOMAIN p.frames |->
                   IF i \in done THEN [p.frames[i] EXCEPT !.dirty = FALSE] ELSE p.frames[i]]
           y == [id \in DOMAIN p.store \cup pages |->
                   IF \E i \in done : p.frames[i].page = id THEN p.frames[at(id)].data ELSE p.store[id]]
           flushed == [p EXCEPT !.frames = x, !.store = y]
           w == IF stops = {} THEN y ELSE StoreWrite(y, fault.page, Blank, fault)
           q == FlushAll(p, fault).p
           L == Len(p.frames)
<1>1. p \in Pools /\ p.frames \in Seq(Frames) /\ L \in Nat /\ p.hand \in Nat /\ Whatever(p)
      /\ DOMAIN p.frames = 1..L /\ p.store \in Files /\ DOMAIN p.store \subseteq 1..(n - 1)
      /\ \A id \in DOMAIN p.store : p.store[id] \in Contents
  BY PoolFields DEF Sound, Whatever
<1>2. \A i \in 1..L : /\ p.frames[i] \in Frames /\ p.frames[i].data \in Images
                      /\ p.frames[i].page \in 1..(n - 1)
                      /\ p.map[p.frames[i].page] = i
  <2> TAKE i \in 1..L
  <2>1. p.frames[i] \in Frames
    BY <1>1
  <2>2. p.frames[i].page \in DOMAIN p.map /\ p.map[p.frames[i].page] = i
    BY DEF Sound
  <2>3. p.frames[i].page \in 1..(n - 1)
    BY <2>2 DEF Sound
  <2> QED  BY <2>1, <2>2, <2>3 DEF Frames
<1>3. done \subseteq 1..L /\ \A i \in 1..L : i \in done => p.frames[i].dirty
  BY <1>1
<1>4. /\ q = [frames |-> x, map |-> p.map, hand |-> p.hand, store |-> w, moved |-> p.moved]
  <2> DEFINE names == {"frames", "map", "hand", "store", "moved"}
             put == [i \in names |-> IF i = "frames" THEN x ELSE IF i = "store" THEN y ELSE p[i]]
  <2>1. q = IF stops = {} THEN flushed ELSE [flushed EXCEPT !.store = StoreWrite(flushed.store, fault.page, Blank, fault)]
    BY DEF FlushAll
  <2> HIDE DEF x, y, q, stops
  <2>2. DOMAIN p = names
    BY <1>1 DEF Whatever
  <2>3. flushed = put
    BY <2>2
  <2>4. [frames |-> x, map |-> p.map, hand |-> p.hand, store |-> y, moved |-> p.moved] = put
    OBVIOUS
  <2>5. flushed = [frames |-> x, map |-> p.map, hand |-> p.hand, store |-> y, moved |-> p.moved]
    BY <2>3, <2>4
  <2> HIDE DEF flushed
  <2>6. flushed.store = y
    BY <2>5
  <2>7. CASE stops = {}
    BY <2>1, <2>5, <2>7
  <2>8. CASE stops # {}
    <3>1. q = [flushed EXCEPT !.store = w]
      BY <2>1, <2>6, <2>8
    <3> HIDE DEF w
    <3> QED  BY <2>5, <3>1
  <2> QED  BY <2>7, <2>8
<1>5. \A i \in 1..L : x[i] = IF i \in done THEN [p.frames[i] EXCEPT !.dirty = FALSE] ELSE p.frames[i]
  BY <1>1
<1>6. \A i \in 1..L : /\ x[i] \in Frames
                      /\ x[i].page = p.frames[i].page /\ x[i].pins = p.frames[i].pins
                      /\ x[i].data = p.frames[i].data
                      /\ (x[i].dirty <=> p.frames[i].dirty /\ i \notin done)
  <2> TAKE i \in 1..L
  <2> HIDE DEF x, done
  <2>1. CASE i \in done
    <3>1. x[i] = [p.frames[i] EXCEPT !.dirty = FALSE]
      BY <1>5, <2>1
    <3> QED  BY <1>2, <2>1, <3>1, FrameIsClean
  <2>2. CASE i \notin done
    BY <1>2, <1>5, <2>2
  <2> QED  BY <2>1, <2>2
<1>7. x \in Seq(Frames) /\ Len(x) = L
  <2>1. x = [i \in 1..L |-> x[i]]
    BY <1>1
  <2> HIDE DEF x, done
  <2>2. x \in [1..L -> Frames]
    BY <1>6, <2>1
  <2> QED  BY <1>1, <2>2
<1>8. /\ \A i \in 1..L : i \in done => p.frames[i].page \in DOMAIN y /\ y[p.frames[i].page] = p.frames[i].data
      /\ \A id \in 1..(n - 1) : (\A i \in done : p.frames[i].page # id) =>
           (id \in DOMAIN y <=> id \in DOMAIN p.store) /\ (id \in DOMAIN y => y[id] = p.store[id])
      /\ DOMAIN y \subseteq 1..(n - 1)
  <2> HIDE DEF done
  <2>1. DOMAIN y = DOMAIN p.store \cup pages
    OBVIOUS
  <2>2. ASSUME NEW i \in 1..L, i \in done
        PROVE  p.frames[i].page \in DOMAIN y /\ y[p.frames[i].page] = p.frames[i].data
    <3>1. p.frames[i].page \in pages
      BY <2>2
    <3>2. at(p.frames[i].page) \in done /\ p.frames[at(p.frames[i].page)].page = p.frames[i].page
      BY <2>2
    <3> HIDE DEF at
    <3>3. at(p.frames[i].page) = i
      BY <1>2, <1>3, <3>2
    <3> QED  BY <2>2, <3>1, <3>3
  <2>3. ASSUME NEW id \in 1..(n - 1), \A i \in done : p.frames[i].page # id
        PROVE  (id \in DOMAIN y <=> id \in DOMAIN p.store) /\ (id \in DOMAIN y => y[id] = p.store[id])
    BY <2>3
  <2>4. DOMAIN y \subseteq 1..(n - 1)
    <3>1. pages \subseteq 1..(n - 1)
      BY <1>2, <1>3
    <3> HIDE DEF pages, y
    <3> QED  BY <1>1, <2>1, <3>1
  <2> QED  BY <2>2, <2>3, <2>4
<1>9. y \in Files
  <2>1. ASSUME NEW id \in DOMAIN y PROVE y[id] \in Contents
    <3>1. id \in 1..(n - 1)
      BY <1>8
    <3> HIDE DEF y, done
    <3>2. CASE \E i \in done : p.frames[i].page = id
      <4>1. PICK i \in 1..L : i \in done /\ p.frames[i].page = id
        BY <1>3, <3>2
      <4>2. y[id] = p.frames[i].data
        BY <1>8, <4>1
      <4> QED  BY <1>2, <4>2 DEF Contents
    <3>3. CASE ~ \E i \in done : p.frames[i].page = id
      BY <1>1, <1>8, <3>1, <3>3
    <3> QED  BY <3>2, <3>3
  <2>2. y = [id \in DOMAIN y |-> y[id]]
    OBVIOUS
  <2> HIDE DEF y
  <2>3. y \in [DOMAIN y -> Contents]
    BY <2>1, <2>2
  <2>4. DOMAIN y \in SUBSET Nat
    BY <1>8
  <2> QED  BY <2>3, <2>4, PartialIs DEF Files
<1> HIDE DEF x, y, q, done
\* The page whose write fails, if one does, is in a frame that stays dirty.
<1>10. /\ w \in Files
       /\ DOMAIN w \subseteq 1..(n - 1)
       /\ \A a : (\A i \in 1..L : p.frames[i].page = a /\ p.frames[i].dirty => i \in done) =>
            /\ Readable(w, a) <=> Readable(y, a)
            /\ Readable(y, a) => w[a] = y[a]
       /\ \A a \in 1..(n - 1) : Readable(w, a) => Readable(y, a) /\ w[a] = y[a]
  <2>1. CASE stops = {}
    BY <1>8, <1>9, <2>1
  <2>2. CASE stops # {}
    <3>1. PICK i \in stops : TRUE
      BY <2>2
    <3>2. i \in 1..L /\ fault.page = p.frames[i].page /\ i \notin done /\ p.frames[i].dirty
      BY <1>1, <3>1 DEF WriteFails, done
    <3>3. w = StoreWrite(y, fault.page, Blank, fault)
      BY <2>2
    <3> HIDE DEF stops, w
    <3>4. fault.page \in 1..(n - 1) /\ WriteFails(fault, fault.page)
      BY <1>2, <3>2 DEF WriteFails
    <3>5. CASE fault.torn
      <4>1. w = FilePut(y, fault.page, TornPage)
        BY <3>3, <3>4, <3>5 DEF StoreWrite, FilePut
      <4>2. TornPage \in Contents
        BY DEF Contents
      <4>3. /\ w \in Files
            /\ DOMAIN w \subseteq 1..(n - 1)
            /\ \A a : a # fault.page => /\ Readable(w, a) <=> Readable(y, a)
                                        /\ Readable(y, a) => w[a] = y[a]
            /\ w[fault.page] = TornPage
        BY <1>8, <1>9, <3>4, <4>1, <4>2, PageIsPut
      <4>4. ~ Readable(w, fault.page)
        BY <4>3 DEF Readable
      <4> QED  BY <3>2, <4>3, <4>4
    <3>6. CASE ~ fault.torn
      <4>1. w = y
        BY <3>3, <3>4, <3>6 DEF StoreWrite
      <4> QED  BY <1>8, <1>9, <4>1
    <3> QED  BY <3>5, <3>6
  <2> QED  BY <2>1, <2>2
<1> HIDE DEF w
<1>11. /\ Whatever(q) /\ q.frames = x /\ q.map = p.map /\ q.hand = p.hand /\ q.store = w /\ q.moved = p.moved
  BY <1>4 DEF Whatever
<1>12. ASSUME NEW i \in 1..L
       PROVE  /\ ~ x[i].dirty => Readable(w, p.frames[i].page) /\ w[p.frames[i].page] = p.frames[i].data
              /\ Readable(w, p.frames[i].page) =>
                   \/ w[p.frames[i].page] = p.frames[i].data
                   \/ Readable(p.store, p.frames[i].page) /\ w[p.frames[i].page] = p.store[p.frames[i].page]
  <2> DEFINE a == p.frames[i].page
  <2>1. a \in 1..(n - 1) /\ p.map[a] = i /\ p.frames[i].data \in Images
    BY <1>2
  <2>2. CASE i \in done
    <3>1. Readable(y, a) /\ y[a] = p.frames[i].data
      BY <1>8, <2>1, <2>2, TornIsNoImage DEF Readable
    <3>2. \A j \in 1..L : p.frames[j].page = a => j \in done
      BY <1>2, <2>1, <2>2
    <3> QED  BY <1>10, <3>1, <3>2
  <2>3. CASE i \notin done
    <3>1. \A j \in done : p.frames[j].page # a
      BY <1>2, <1>3, <2>1, <2>3
    <3>2. (a \in DOMAIN y <=> a \in DOMAIN p.store) /\ (a \in DOMAIN y => y[a] = p.store[a])
      BY <1>8, <2>1, <3>1
    <3>3. Readable(w, a) => Readable(p.store, a) /\ w[a] = p.store[a]
      BY <1>10, <2>1, <3>2 DEF Readable
    <3>4. CASE p.frames[i].dirty
      BY <1>6, <2>3, <3>3, <3>4
    <3>5. CASE ~ p.frames[i].dirty
      <4>1. Readable(p.store, a) /\ p.store[a] = p.frames[i].data
        BY <3>5 DEF Sound
      <4>2. Readable(y, a) /\ y[a] = p.frames[i].data
        BY <3>2, <4>1 DEF Readable
      <4>3. \A j \in 1..L : p.frames[j].page = a /\ p.frames[j].dirty => j \in done
        BY <1>2, <2>1, <3>5
      <4> QED  BY <1>10, <4>2, <4>3
    <3> QED  BY <3>4, <3>5
  <2> QED  BY <2>2, <2>3
<1>13. ASSUME NEW a, a \notin DOMAIN p.map
       PROVE  (Readable(w, a) <=> Readable(p.store, a)) /\ (Readable(p.store, a) => w[a] = p.store[a])
  <2>1. \A i \in 1..L : p.frames[i].page # a
    BY <1>13 DEF Sound
  <2>2. (Readable(w, a) <=> Readable(y, a)) /\ (Readable(y, a) => w[a] = y[a])
    BY <1>10, <2>1
  <2>3. \A i \in done : p.frames[i].page # a
    BY <1>3, <2>1
  <2>4. CASE a \in 1..(n - 1)
    <3>1. (a \in DOMAIN y <=> a \in DOMAIN p.store) /\ (a \in DOMAIN y => y[a] = p.store[a])
      BY <1>8, <2>3, <2>4
    <3> QED  BY <2>2, <3>1 DEF Readable
  <2>5. CASE a \notin 1..(n - 1)
    BY <1>1, <1>10, <2>5 DEF Readable
  <2> QED  BY <2>4, <2>5
<1>14. Sound(q, n) /\ AllSame(p, q)
  BY <1>1, <1>6, <1>7, <1>10, <1>11, <1>12, <1>13, FlushIsSame
<1> QED  BY <1>14 DEF q

----------------------------------------------------------------------------
(* Rows are appended to a page.                                            *)

LEMMA UsedIsNumber ==
  ASSUME NEW rows \in Seq(Rows)
  PROVE  Used(rows) \in Nat /\ (rows = << >> => Used(rows) = 0)
<1> DEFINE N == Len(rows)
<1>1. N \in Nat /\ \A n \in 1..N : rows[n].size \in Nat
  <2>1. N \in Nat /\ \A n \in 1..N : rows[n] \in Rows
    OBVIOUS
  <2> QED  BY <2>1 DEF Rows
<1> DEFINE step == [n \in 1..N |-> [s \in Nat |-> s + rows[n].size]]
<1>2. step \in [1..N -> [Nat -> Nat]]
  <2>1. \A n \in 1..N : [s \in Nat |-> s + rows[n].size] \in [Nat -> Nat]
    BY <1>1
  <2> QED  BY <2>1
<1>3. \A n \in 1..N : \A s \in Nat : step[n][s] = s + rows[n].size
  OBVIOUS
<1> HIDE DEF step, N
<1>4. PICK f \in [0..N -> Nat] : Follows(f, N, 0, step)
  <2>1. 0 \in Nat
    OBVIOUS
  <2> QED  BY <1>1, <1>2, <2>1, RecursionTo
<1>5. \A n \in 1..N : f[n] = f[n - 1] + rows[n].size
  <2> TAKE n \in 1..N
  <2>1. n - 1 \in 0..N
    BY <1>1
  <2>2. f[n - 1] \in Nat
    BY <2>1
  <2> QED  BY <1>3, <1>4, <2>2 DEF Follows
<1>6. f = [n \in 0..N |-> IF n = 0 THEN 0 ELSE f[n - 1] + rows[n].size]
  <2>1. \A n \in 0..N : f[n] = IF n = 0 THEN 0 ELSE f[n - 1] + rows[n].size
    BY <1>1, <1>4, <1>5 DEF Follows
  <2> QED  BY <2>1
<1> DEFINE g == CHOOSE sum : sum = [n \in 0..N |-> IF n = 0 THEN 0 ELSE sum[n - 1] + rows[n].size]
<1>7. g = [n \in 0..N |-> IF n = 0 THEN 0 ELSE g[n - 1] + rows[n].size]
  BY <1>6
<1>8. Used(rows) = g[N]
  BY DEF Used, N
<1> HIDE DEF g
<1>9. g[0] = 0 /\ \A n \in 1..N : g[n] = g[n - 1] + rows[n].size
  BY <1>1, <1>7
<1> DEFINE Good == {n \in 0..N : g[n] \in Nat}
<1>10. 0 \in Good
  BY <1>1, <1>9
<1>11. ASSUME NEW n \in 0..(N - 1), n \in Good PROVE n + 1 \in Good
  <2>1. n + 1 \in 1..N /\ (n + 1) - 1 = n /\ n + 1 \in 0..N
    BY <1>1
  <2>2. g[n + 1] = g[n] + rows[n + 1].size /\ rows[n + 1].size \in Nat /\ g[n] \in Nat
    BY <1>1, <1>9, <1>11, <2>1
  <2> QED  BY <2>1, <2>2
<1>12. \A n \in 0..N : n \in Good
  <2> HIDE DEF Good
  <2> QED  BY <1>1, <1>10, <1>11, InductionTo
<1>13. N \in 0..N
  BY <1>1
<1>14. g[N] \in Nat
  BY <1>12, <1>13
<1>15. rows = << >> => N = 0
  BY DEF N
<1> QED  BY <1>8, <1>9, <1>14, <1>15

\* link_pages points a page at the next one.
LEMMA PageIsLinked ==
  ASSUME NEW n \in Nat, NEW p, Sound(p, n), NEW id, NEW next \in Nat
  PROVE  LET r == LinkPages(p, id, next) IN
         /\ Pinnable(p, id) => r.ok = TRUE /\ Shows(p, r.p, id, [Image(p, id) EXCEPT !.next = next], n)
         /\ ~ Pinnable(p, id) => r.ok = FALSE /\ r.p = p
<1> DEFINE c == Pin(p, id)
           r == LinkPages(p, id, next)
           v == [Image(p, id) EXCEPT !.next = next]
<1>1. r = Written(c, v)
  BY DEF LinkPages
<1> HIDE DEF r
<1>2. CASE Pinnable(p, id)
  <2>1. Held(p, c, id, n)
    BY <1>2, PinHolds
  <2>2. v \in Images
    <3>1. Image(p, id) \in Images
      BY <1>2, ImagesAre
    <3> QED  BY <3>1 DEF Images
  <2> HIDE DEF v, c
  <2>3. Shows(p, r.p, id, v, n)
    BY <1>1, <2>1, <2>2, HeldIsWritten
  <2>4. c.ok = TRUE /\ c = [p |-> c.p, ok |-> TRUE, fid |-> c.fid]
    BY <2>1 DEF Held
  <2>5. r.ok = TRUE
    BY <1>1, <2>4 DEF Written
  <2> QED  BY <1>2, <2>3, <2>5 DEF v, r
<1>3. CASE ~ Pinnable(p, id)
  <2>1. c = [p |-> p, ok |-> FALSE, fid |-> 0]
    BY <1>3, PinFails
  <2> HIDE DEF v, c
  <2>2. r = c
    BY <1>1, <2>1 DEF Written
  <2>3. r.p = p /\ r.ok = FALSE
    BY <2>1, <2>2
  <2> QED  BY <1>3, <2>3 DEF r
<1> QED  BY <1>2, <1>3

\* The image of a page with one more row.
Extended(v, row) == [v EXCEPT !.rows = Append(v.rows, row)]

LEMMA RowIsOffered ==
  ASSUME NEW n \in Nat, NEW p, Sound(p, n), NEW id, NEW row \in Rows
  PROVE  LET r == TryAppend(p, id, row)
             fits == Used(Image(p, id).rows) + row.size <= PageArea IN
         /\ Pinnable(p, id) /\ fits =>
              r.ok = TRUE /\ r.fits = TRUE /\ Shows(p, r.p, id, Extended(Image(p, id), row), n)
         /\ Pinnable(p, id) /\ ~ fits => r.ok = TRUE /\ r.fits = FALSE /\ Sound(r.p, n) /\ AllSame(p, r.p)
         /\ ~ Pinnable(p, id) => r.ok = FALSE /\ r.p = p
<1> DEFINE c == Pin(p, id)
           v == Image(p, id)
           fits == Used(v.rows) + row.size <= PageArea
           r == TryAppend(p, id, row)
           u == Unpin(c.p, c.fid, FALSE)
<1>1. /\ ~ c.ok => r = [p |-> c.p, ok |-> FALSE, fits |-> FALSE]
      /\ c.ok /\ fits => r = [p |-> Written(c, Extended(v, row)).p, ok |-> TRUE, fits |-> TRUE]
      /\ c.ok /\ ~ fits => r = [p |-> u, ok |-> TRUE, fits |-> FALSE]
  BY DEF TryAppend, Extended
<1> HIDE DEF r, u
<1>2. CASE Pinnable(p, id)
  <2>1. Held(p, c, id, n) /\ c.p.frames[c.fid].data = v
    BY <1>2, PinHolds
  <2>2. v \in Images
    BY <1>2, ImagesAre
  <2> HIDE DEF v, c, fits
  <2>3. Extended(v, row) \in Images
    <3>1. Append(v.rows, row) \in Seq(Rows)
      BY <2>2 DEF Images
    <3> QED  BY <2>2, <3>1 DEF Images, Extended
  <2>4. c.ok = TRUE
    <3>1. c = [p |-> c.p, ok |-> TRUE, fid |-> c.fid]
      BY <2>1 DEF Held
    <3> QED  BY <3>1
  <2>5. CASE fits
    <3>1. r.ok = TRUE /\ r.fits = TRUE /\ r.p = Written(c, Extended(v, row)).p
      BY <1>1, <2>4, <2>5
    <3>2. Shows(p, r.p, id, Extended(v, row), n)
      BY <2>1, <2>3, <3>1, HeldIsWritten
    <3> QED  BY <1>2, <2>5, <3>1, <3>2 DEF r, v, fits
  <2>6. CASE ~ fits
    <3>1. r.ok = TRUE /\ r.fits = FALSE /\ r.p = u
      BY <1>1, <2>4, <2>6
    <3>2. Shows(p, r.p, id, v, n)
      BY <2>1, <3>1, HeldIsRead DEF u
    <3>3. Versions(p, id) = Versions(p, id) \cup {v}
      BY <1>2, ImagesAre DEF v
    <3>4. SameAt(p, r.p, id) /\ OlderAt(p, r.p, id)
      BY <1>2, <3>2, <3>3 DEF SameAt, OlderAt, Shows, v
    <3>5. Sound(r.p, n) /\ AllSame(p, r.p)
      BY <3>2, <3>4 DEF Shows, OthersSame, AllSame
    <3> QED  BY <1>2, <2>6, <3>1, <3>5 DEF r, v, fits
  <2> QED  BY <2>5, <2>6
<1>3. CASE ~ Pinnable(p, id)
  <2>1. c = [p |-> p, ok |-> FALSE, fid |-> 0]
    BY <1>3, PinFails
  <2> HIDE DEF v, c, fits
  <2>2. c.p = p /\ ~ c.ok
    BY <2>1
  <2>3. r.p = p /\ r.ok = FALSE
    BY <1>1, <2>2
  <2> QED  BY <1>3, <2>3 DEF r
<1> QED  BY <1>2, <1>3

----------------------------------------------------------------------------
(* Chains.                                                                 *)

\* The pages C form a chain that holds rows of R: whichever image of a page is
\* read, a later page of C follows it or none, and its rows are in order and
\* come before those of every later page.
Chain(p, C, R) ==
  \A a \in C : \A v \in Versions(p, a) :
    /\ v.next = 0 \/ (v.next \in C /\ v.next > a)
    /\ InOrder(v.rows) /\ ToSet(v.rows) \subseteq R
    /\ \A b \in C : b > a =>
         \A w \in Versions(p, b) : \A x \in ToSet(v.rows), y \in ToSet(w.rows) : x.id < y.id

\* Each page of the chain can be read and names the one behind it, and each row of R is there.
Complete(p, C, R) ==
  /\ \A a \in C :
       /\ Pinnable(p, a)
       /\ Image(p, a).next = 0 => \A b \in C : b <= a
       /\ Image(p, a).next # 0 => \A b \in C : b > a => b >= Image(p, a).next
  /\ \A x \in R : \E a \in C : x \in ToSet(Image(p, a).rows)

LEMMA ChainStays ==
  ASSUME NEW p, NEW q, NEW C, NEW R, \A a \in C : OlderAt(p, q, a)
  PROVE  /\ Chain(p, C, R) => Chain(q, C, R)
         /\ (\A a \in C : SameAt(p, q, a)) /\ Complete(p, C, R) => Complete(q, C, R)
<1>1. \A a \in C : \A v \in Versions(q, a) : v \in Versions(p, a)
  BY DEF OlderAt
<1>2. Chain(p, C, R) => Chain(q, C, R)
  <2> SUFFICES ASSUME Chain(p, C, R), NEW a \in C, NEW v \in Versions(q, a)
               PROVE  /\ v.next = 0 \/ (v.next \in C /\ v.next > a)
                      /\ InOrder(v.rows) /\ ToSet(v.rows) \subseteq R
                      /\ \A b \in C : b > a =>
                           \A w \in Versions(q, b) : \A x \in ToSet(v.rows), y \in ToSet(w.rows) : x.id < y.id
    BY DEF Chain
  <2>1. v \in Versions(p, a)
    BY <1>1
  <2>2. /\ v.next = 0 \/ (v.next \in C /\ v.next > a)
        /\ InOrder(v.rows) /\ ToSet(v.rows) \subseteq R
        /\ \A b \in C : b > a =>
             \A w \in Versions(p, b) : \A x \in ToSet(v.rows), y \in ToSet(w.rows) : x.id < y.id
    BY <2>1 DEF Chain
  <2> QED  BY <1>1, <2>2
<1>3. ASSUME \A a \in C : SameAt(p, q, a), Complete(p, C, R)
      PROVE  Complete(q, C, R)
  <2>1. \A a \in C : Pinnable(p, a)
    BY <1>3 DEF Complete
  <2>2. \A a \in C : Pinnable(q, a) /\ Image(q, a) = Image(p, a)
    BY <1>3, <2>1 DEF SameAt
  <2>3. \A a \in C : /\ Image(p, a).next = 0 => \A b \in C : b <= a
                     /\ Image(p, a).next # 0 => \A b \in C : b > a => b >= Image(p, a).next
    BY <1>3 DEF Complete
  <2>4. \A x \in R : \E a \in C : x \in ToSet(Image(p, a).rows)
    BY <1>3 DEF Complete
  <2>5. \A a \in C : /\ Pinnable(q, a)
                     /\ Image(q, a).next = 0 => \A b \in C : b <= a
                     /\ Image(q, a).next # 0 => \A b \in C : b > a => b >= Image(q, a).next
    BY <2>2, <2>3
  <2>6. \A x \in R : \E a \in C : x \in ToSet(Image(q, a).rows)
    BY <2>2, <2>4
  <2> QED  BY <2>5, <2>6 DEF Complete
<1> QED  BY <1>2, <1>3

LEMMA RowAppended ==
  ASSUME NEW v \in Images, NEW row \in Rows, NEW w, w = Extended(v, row)
  PROVE  /\ w \in Images /\ w.next = v.next
         /\ \A x : x \in ToSet(w.rows) <=> x \in ToSet(v.rows) \/ x = row
         /\ InOrder(v.rows) /\ (\A x \in ToSet(v.rows) : x.id < row.id) => InOrder(w.rows)
<1>1. v.rows \in Seq(Rows) /\ v.next \in Nat
  BY DEF Images
<1> DEFINE t == Append(v.rows, row)
           L == Len(v.rows)
<1>2. /\ t \in Seq(Rows) /\ Len(t) = L + 1 /\ L \in Nat /\ t[L + 1] = row
      /\ \A i \in 1..L : t[i] = v.rows[i]
      /\ DOMAIN t = 1..(L + 1) /\ DOMAIN v.rows = 1..L
  BY <1>1
<1>3. w.next = v.next /\ w.rows = t /\ w \in Images
  <2> HIDE DEF t
  <2>1. w = [v EXCEPT !.rows = t]
    BY DEF Extended, t
  <2> QED  BY <1>1, <1>2, <2>1 DEF Images
<1> HIDE DEF t
<1>4. \A x : x \in ToSet(t) <=> x \in ToSet(v.rows) \/ x = row
  <2>1. ASSUME NEW x, x \in ToSet(t) PROVE x \in ToSet(v.rows) \/ x = row
    <3>1. PICK i \in 1..(L + 1) : x = t[i]
      BY <1>2, <2>1 DEF ToSet
    <3>2. CASE i = L + 1
      BY <1>2, <3>1, <3>2
    <3>3. CASE i # L + 1
      <4>1. i \in 1..L /\ x = v.rows[i]
        BY <1>2, <3>1, <3>3
      <4> QED  BY <1>2, <4>1 DEF ToSet
    <3> QED  BY <3>2, <3>3
  <2>2. ASSUME NEW x \in ToSet(v.rows) PROVE x \in ToSet(t)
    <3>1. PICK i \in 1..L : x = v.rows[i]
      BY <1>2 DEF ToSet
    <3>2. i \in 1..(L + 1) /\ x = t[i]
      BY <1>2, <3>1
    <3> QED  BY <1>2, <3>2 DEF ToSet
  <2>3. row \in ToSet(t)
    <3>1. L + 1 \in 1..(L + 1)
      BY <1>2
    <3> QED  BY <1>2, <3>1 DEF ToSet
  <2> QED  BY <2>1, <2>2, <2>3
<1>5. ASSUME InOrder(v.rows), \A x \in ToSet(v.rows) : x.id < row.id
      PROVE  InOrder(t)
  <2>1. SUFFICES ASSUME NEW i \in 1..(L + 1), NEW j \in 1..(L + 1), i < j PROVE t[i].id < t[j].id
    BY <1>2 DEF InOrder
  <2>2. i \in 1..L /\ t[i] = v.rows[i]
    BY <1>2, <2>1
  <2>3. CASE j = L + 1
    <3>1. v.rows[i] \in ToSet(v.rows)
      BY <1>2, <2>2 DEF ToSet
    <3> QED  BY <1>2, <1>5, <2>2, <2>3, <3>1
  <2>4. CASE j # L + 1
    <3>1. j \in 1..L /\ t[j] = v.rows[j]
      BY <1>2, <2>4
    <3> QED  BY <1>2, <1>5, <2>1, <2>2, <3>1 DEF InOrder
  <2> QED  BY <2>3, <2>4
<1> QED  BY <1>3, <1>4, <1>5

\* A row goes onto the last page of a chain.
LEMMA RowJoins ==
  ASSUME NEW n \in Nat, NEW p, Sound(p, n), NEW C \in SUBSET (1..(n - 1)), NEW R,
         NEW l \in C, \A b \in C : b <= l, Pinnable(p, l), Chain(p, C, R),
         NEW row \in Rows, \A x \in R : x.id < row.id,
         NEW q, Shows(p, q, l, Extended(Image(p, l), row), n)
  PROVE  Chain(q, C, R \cup {row}) /\ (Complete(p, C, R) => Complete(q, C, R \cup {row}))
<1> DEFINE v == Image(p, l)
           w == Extended(v, row)
<1>1. v \in Images /\ v \in Versions(p, l)
  BY ImagesAre
<1> HIDE DEF v
<1>2. /\ v.next = 0 \/ (v.next \in C /\ v.next > l)
      /\ InOrder(v.rows) /\ ToSet(v.rows) \subseteq R
  BY <1>1 DEF Chain
<1>3. /\ w.next = v.next
      /\ \A x : x \in ToSet(w.rows) <=> x \in ToSet(v.rows) \/ x = row
      /\ InOrder(w.rows)
  BY <1>1, <1>2, RowAppended
<1> HIDE DEF w
<1>4. /\ \A a : a # l => SameAt(p, q, a) /\ OlderAt(p, q, a)
      /\ Pinnable(q, l) /\ Image(q, l) = w /\ Versions(q, l) \subseteq Versions(p, l) \cup {w}
  BY DEF Shows, OthersSame, v, w
<1>5. \A a \in C : \A z \in Versions(q, a) : z \in Versions(p, a) \/ (a = l /\ z = w)
  BY <1>4 DEF OlderAt
<1>6. ASSUME NEW a \in C, NEW z \in Versions(q, a)
      PROVE  /\ z.next = 0 \/ (z.next \in C /\ z.next > a)
             /\ InOrder(z.rows) /\ ToSet(z.rows) \subseteq R \cup {row}
             /\ \A b \in C : b > a =>
                  \A u \in Versions(q, b) : \A x \in ToSet(z.rows), y \in ToSet(u.rows) : x.id < y.id
  <2>1. CASE z \in Versions(p, a)
    <3>1. /\ z.next = 0 \/ (z.next \in C /\ z.next > a)
          /\ InOrder(z.rows) /\ ToSet(z.rows) \subseteq R
          /\ \A b \in C : b > a =>
               \A u \in Versions(p, b) : \A x \in ToSet(z.rows), y \in ToSet(u.rows) : x.id < y.id
      BY <2>1 DEF Chain
    <3>2. ASSUME NEW b \in C, b > a, NEW u \in Versions(q, b), NEW x \in ToSet(z.rows), NEW y \in ToSet(u.rows)
          PROVE  x.id < y.id
      <4>1. CASE u \in Versions(p, b)
        BY <3>1, <3>2, <4>1
      <4>2. CASE b = l /\ u = w
        <5>1. CASE y \in ToSet(v.rows)
          BY <1>1, <3>1, <3>2, <4>2, <5>1
        <5>2. CASE y = row
          BY <3>1, <5>2
        <5> QED  BY <1>3, <4>2, <5>1, <5>2
      <4> QED  BY <1>5, <4>1, <4>2
    <3> QED  BY <3>1, <3>2
  <2>2. CASE a = l /\ z = w
    <3>1. \A b \in C : ~ (b > a)
      BY <2>2
    <3>2. ToSet(z.rows) \subseteq R \cup {row}
      BY <1>2, <1>3, <2>2
    <3> QED  BY <1>2, <1>3, <2>2, <3>1, <3>2
  <2> QED  BY <1>5, <2>1, <2>2
<1>7. Chain(q, C, R \cup {row})
  BY <1>6 DEF Chain
<1>8. ASSUME Complete(p, C, R) PROVE Complete(q, C, R \cup {row})
  <2>1. /\ \A a \in C : Pinnable(p, a)
        /\ \A a \in C : Image(p, a).next = 0 => \A b \in C : b <= a
        /\ \A a \in C : Image(p, a).next # 0 => \A b \in C : b > a => b >= Image(p, a).next
        /\ \A x \in R : \E a \in C : x \in ToSet(Image(p, a).rows)
    BY <1>8 DEF Complete
  <2>2. \A a \in C : a # l => Pinnable(q, a) /\ Image(q, a) = Image(p, a)
    BY <1>4, <2>1 DEF SameAt
  <2>3. ASSUME NEW a \in C
        PROVE  /\ Pinnable(q, a)
               /\ Image(q, a).next = 0 => \A b \in C : b <= a
               /\ Image(q, a).next # 0 => \A b \in C : b > a => b >= Image(q, a).next
    <3>1. Image(q, a).next = Image(p, a).next /\ Pinnable(q, a)
      BY <1>3, <1>4, <2>2 DEF v
    <3> QED  BY <2>1, <3>1
  <2>4. ASSUME NEW x \in R \cup {row} PROVE \E a \in C : x \in ToSet(Image(q, a).rows)
    <3>1. CASE x = row
      BY <1>3, <1>4, <3>1
    <3>2. CASE x \in R
      <4>1. PICK a \in C : x \in ToSet(Image(p, a).rows)
        BY <2>1, <3>2
      <4>2. x \in ToSet(Image(q, a).rows)
        BY <1>3, <1>4, <2>2, <4>1 DEF v
      <4> QED  BY <4>2
    <3> QED  BY <3>1, <3>2
  <2> QED  BY <2>3, <2>4 DEF Complete
<1> QED  BY <1>7, <1>8

\* A blank page n is linked behind the last page of a chain.
LEMMA PageJoins ==
  ASSUME NEW n \in Nat, NEW p, Sound(p, n), NEW C \in SUBSET (1..(n - 1)), NEW R,
         NEW l \in C, \A b \in C : b <= l, Pinnable(p, l), Chain(p, C, R),
         NEW q, NEW w, w = [Image(p, l) EXCEPT !.next = n],
         \A a : a # n /\ a # l => SameAt(p, q, a) /\ OlderAt(p, q, a),
         Pinnable(q, l), Image(q, l) = w, Versions(q, l) \subseteq Versions(p, l) \cup {w},
         Pinnable(q, n), Image(q, n) = Blank, Versions(q, n) \subseteq {Blank}
  PROVE  Chain(q, C \cup {n}, R) /\ (Complete(p, C, R) => Complete(q, C \cup {n}, R))
<1> DEFINE v == Image(p, l)
           D == C \cup {n}
<1>1. v \in Images /\ v \in Versions(p, l)
  BY ImagesAre
<1>2. w.next = n /\ w.rows = v.rows
  <2> HIDE DEF v
  <2>1. w = [v EXCEPT !.next = n]
    BY DEF v
  <2> QED  BY <1>1, <2>1 DEF Images
<1> HIDE DEF v
<1>3. InOrder(v.rows) /\ ToSet(v.rows) \subseteq R
  BY <1>1 DEF Chain
<1>4. \A a \in C : a \in Nat /\ a < n /\ a # n
  OBVIOUS
<1>5. Blank.next = 0 /\ ToSet(Blank.rows) = {} /\ InOrder(Blank.rows)
  BY DEF Blank, ToSet, InOrder
<1>6. \A a \in C : \A z \in Versions(q, a) : z \in Versions(p, a) \/ (a = l /\ z = w)
  BY <1>4 DEF OlderAt
<1>7. \A z \in Versions(q, n) : z = Blank
  OBVIOUS
<1>8. ASSUME NEW a \in D, NEW z \in Versions(q, a)
      PROVE  /\ z.next = 0 \/ (z.next \in D /\ z.next > a)
             /\ InOrder(z.rows) /\ ToSet(z.rows) \subseteq R
             /\ \A b \in D : b > a =>
                  \A u \in Versions(q, b) : \A x \in ToSet(z.rows), y \in ToSet(u.rows) : x.id < y.id
  <2>1. CASE a = n
    <3>1. z = Blank
      BY <1>7, <2>1
    <3> QED  BY <1>5, <3>1
  <2>2. CASE a \in C
    <3>1. \/ z \in Versions(p, a)
          \/ a = l /\ z = w
      BY <1>6, <2>2
    <3>2. PICK o \in Versions(p, a) : o.rows = z.rows /\ (z = o \/ (a = l /\ z.next = n))
      BY <1>1, <1>2, <3>1
    <3>3. /\ o.next = 0 \/ (o.next \in C /\ o.next > a)
          /\ InOrder(o.rows) /\ ToSet(o.rows) \subseteq R
          /\ \A b \in C : b > a =>
               \A u \in Versions(p, b) : \A x \in ToSet(o.rows), y \in ToSet(u.rows) : x.id < y.id
      BY <2>2 DEF Chain
    <3>4. z.next = 0 \/ (z.next \in D /\ z.next > a)
      BY <1>4, <3>2, <3>3
    <3>5. ASSUME NEW b \in D, b > a, NEW u \in Versions(q, b), NEW x \in ToSet(z.rows), NEW y \in ToSet(u.rows)
          PROVE  x.id < y.id
      <4>1. b # n
        BY <1>5, <1>7, <3>5
      <4>2. b \in C
        BY <4>1
      <4>3. PICK t \in Versions(p, b) : t.rows = u.rows
        BY <1>1, <1>2, <1>6, <4>2
      <4> QED  BY <3>2, <3>3, <3>5, <4>2, <4>3
    <3> QED  BY <3>2, <3>3, <3>4, <3>5
  <2> QED  BY <2>1, <2>2
<1>9. Chain(q, D, R)
  BY <1>8 DEF Chain
<1>10. ASSUME Complete(p, C, R) PROVE Complete(q, D, R)
  <2>1. /\ \A a \in C : Pinnable(p, a)
        /\ \A a \in C : Image(p, a).next = 0 => \A b \in C : b <= a
        /\ \A a \in C : Image(p, a).next # 0 => \A b \in C : b > a => b >= Image(p, a).next
        /\ \A x \in R : \E a \in C : x \in ToSet(Image(p, a).rows)
    BY <1>10 DEF Complete
  <2>2. \A a \in C : a # l => Pinnable(q, a) /\ Image(q, a) = Image(p, a)
    BY <1>4, <2>1 DEF SameAt
  <2>3. ASSUME NEW a \in D
        PROVE  /\ Pinnable(q, a)
               /\ Image(q, a).next = 0 => \A b \in D : b <= a
               /\ Image(q, a).next # 0 => \A b \in D : b > a => b >= Image(q, a).next
    <3>1. CASE a = n
      <4>1. \A b \in D : b <= n
        BY <1>4
      <4> QED  BY <1>5, <3>1, <4>1
    <3>2. CASE a = l
      <4>0. Image(q, a) = w /\ n # 0
        <5>1. l \in 1..(n - 1)
          OBVIOUS
        <5> QED  BY <3>2, <5>1
      <4>1. Image(q, a).next = n /\ n # 0
        BY <1>2, <4>0
      <4>2. \A b \in D : b > a => b >= n
        BY <1>4, <3>2
      <4> QED  BY <3>2, <4>1, <4>2
    <3>3. CASE a \in C /\ a # l
      <4>1. Pinnable(q, a) /\ Image(q, a) = Image(p, a)
        BY <2>2, <3>3
      <4>2. Image(p, a).next # 0
        BY <1>4, <2>1, <3>3
      <4>3. Image(p, a).next \in C
        <5>1. Image(p, a) \in Versions(p, a)
          BY <2>1, <3>3, ImagesAre
        <5> QED  BY <3>3, <4>2, <5>1 DEF Chain
      <4>4. \A b \in D : b > a => b >= Image(p, a).next
        BY <1>4, <2>1, <3>3, <4>2, <4>3
      <4> QED  BY <4>1, <4>2, <4>4
    <3> QED  BY <3>1, <3>2, <3>3
  <2>4. ASSUME NEW x \in R PROVE \E a \in D : x \in ToSet(Image(q, a).rows)
    <3>1. PICK a \in C : x \in ToSet(Image(p, a).rows)
      BY <2>1
    <3>2. Image(q, a).rows = Image(p, a).rows
      BY <1>2, <2>2 DEF v
    <3> QED  BY <3>1, <3>2
  <2> QED  BY <2>3, <2>4 DEF Complete
<1> QED  BY <1>9, <1>10

\* The row, if it fits a page at all.
New(row) == {x \in {row} : x.size <= PageArea}

LEMMA NewRow ==
  ASSUME NEW row \in Rows
  PROVE  /\ row.size <= PageArea => New(row) = {row}
         /\ ~ (row.size <= PageArea) => New(row) = {}
         /\ Used(<< >>) + row.size <= PageArea <=> row.size <= PageArea
<1>1. Used(<< >>) = 0
  <2>1. << >> \in Seq(Rows)
    OBVIOUS
  <2> QED  BY <2>1, UsedIsNumber
<1>2. row.size \in Nat
  BY DEF Rows
<1> QED  BY <1>1, <1>2 DEF New

\* The metadata after a row went onto the fresh page n.
Behind(m, n) == [m EXCEPT !.last = n, !.count = m.count + 1]

\* append_row behind a full last page.  It fails only if a page cannot be written, or
\* if a page of the chain was lost before.
LEMMA RowOnFreshPage ==
  ASSUME NEW n \in Nat \ {0}, NEW p, Sound(p, n), NEW C \in SUBSET (1..(n - 1)), NEW R,
         NEW m, NEW l \in C, m.last = l, \A b \in C : b <= l, Chain(p, C, R),
         NEW row \in Rows, \A x \in R : x.id < row.id, NEW fault
  PROVE  LET r == AppendToFresh(p, m, row, n, fault) IN
         /\ r.next = n + 1 /\ Sound(r.p, n + 1) /\ r.ok \in BOOLEAN
         /\ \A a : a # n /\ a \notin C => OlderAt(p, r.p, a) /\ (r.ok => SameAt(p, r.p, a))
         /\ r.ok => /\ r.meta = Behind(m, n)
                    /\ Chain(r.p, C \cup {n}, R \cup New(row))
                    /\ Complete(p, C, R) => Complete(r.p, C \cup {n}, R \cup New(row))
         /\ ~ r.ok => /\ \A a : a # n => OlderAt(p, r.p, a)
                      /\ Complete(p, C, R) => \E id \in 1..(n - 1) : WriteFails(fault, id)
<1> DEFINE r == AppendToFresh(p, m, row, n, fault)
           s == AllocPage(p, n, fault)
           k == LinkPages(s.p, m.last, n)
           t == TryAppend(k.p, n, row)
           D == C \cup {n}
<1>1. /\ Sound(s.p, n + 1) /\ s.ok \in BOOLEAN
      /\ \A a : a # n => OlderAt(p, s.p, a) /\ (s.ok => SameAt(p, s.p, a))
      /\ s.ok => Pinnable(s.p, n) /\ Image(s.p, n) = Blank /\ Versions(s.p, n) \subseteq {Blank}
      /\ ~ s.ok => \E id \in 1..(n - 1) : WriteFails(fault, id)
  BY PageIsAllocated
<1>2. /\ ~ s.ok => r = [p |-> s.p, ok |-> FALSE, meta |-> m, next |-> n + 1]
      /\ s.ok /\ ~ k.ok => r = [p |-> k.p, ok |-> FALSE, meta |-> m, next |-> n + 1]
      /\ s.ok /\ k.ok => r = [p |-> t.p, ok |-> t.ok, next |-> n + 1,
                              meta |-> Behind(m, n)]
  BY DEF AppendToFresh, Behind
<1>3. /\ Pinnable(s.p, l) => k.ok = TRUE /\ Shows(s.p, k.p, l, [Image(s.p, l) EXCEPT !.next = n], n + 1)
      /\ ~ Pinnable(s.p, l) => k.ok = FALSE /\ k.p = s.p
  <2>1. k = LinkPages(s.p, l, n)
    OBVIOUS
  <2> DEFINE q == s.p
  <2>2. Sound(q, n + 1) /\ n + 1 \in Nat /\ n \in Nat
    BY <1>1
  <2> HIDE DEF k, q
  <2>3. LET j == LinkPages(q, l, n) IN
        /\ Pinnable(q, l) => j.ok = TRUE /\ Shows(q, j.p, l, [Image(q, l) EXCEPT !.next = n], n + 1)
        /\ ~ Pinnable(q, l) => j.ok = FALSE /\ j.p = q
    BY <2>2, PageIsLinked
  <2> QED  BY <2>1, <2>3 DEF q
<1>4. \A a \in C : a # n /\ a \in Nat /\ n \in Nat /\ l # n
  OBVIOUS
<1> HIDE DEF r, s, k, t
<1>5. CASE ~ s.ok
  <2>1. r.p = s.p /\ r.ok = FALSE /\ r.next = n + 1
    BY <1>2, <1>5
  <2> QED  BY <1>1, <1>5, <2>1 DEF r
<1>6. CASE s.ok /\ ~ Pinnable(s.p, l)
  <2>1. r.p = s.p /\ r.ok = FALSE /\ r.next = n + 1
    BY <1>2, <1>3, <1>6
  <2>2. ~ Complete(p, C, R)
    <3>1. SameAt(p, s.p, l)
      BY <1>1, <1>4, <1>6
    <3> QED  BY <1>6, <3>1 DEF SameAt, Complete
  <2> QED  BY <1>1, <2>1, <2>2 DEF r
<1>7. CASE s.ok /\ Pinnable(s.p, l)
  <2>1. k.ok = TRUE /\ Shows(s.p, k.p, l, [Image(s.p, l) EXCEPT !.next = n], n + 1)
    BY <1>3, <1>7
  <2>2. SameAt(p, s.p, l) /\ Pinnable(p, l) /\ Image(s.p, l) = Image(p, l)
    BY <1>1, <1>4, <1>7 DEF SameAt
  <2> DEFINE w == [Image(p, l) EXCEPT !.next = n]
  <2>3. Shows(s.p, k.p, l, w, n + 1)
    BY <2>1, <2>2
  <2> HIDE DEF w
  <2>4. \A a : a # l => SameAt(s.p, k.p, a) /\ OlderAt(s.p, k.p, a)
    BY <2>3 DEF Shows, OthersSame
  <2>5. \A a : a # n /\ a # l => SameAt(p, k.p, a) /\ OlderAt(p, k.p, a)
    BY <1>1, <1>7, <2>4 DEF SameAt, OlderAt
  <2>6. /\ Sound(k.p, n + 1) /\ Pinnable(k.p, l) /\ Image(k.p, l) = w
        /\ Versions(k.p, l) \subseteq Versions(p, l) \cup {w}
    BY <1>1, <1>4, <2>3 DEF Shows, OlderAt
  <2>7. Pinnable(k.p, n) /\ Image(k.p, n) = Blank /\ Versions(k.p, n) \subseteq {Blank}
    BY <1>1, <1>4, <1>7, <2>4 DEF SameAt, OlderAt
  <2>8. Chain(k.p, D, R) /\ (Complete(p, C, R) => Complete(k.p, D, R))
    BY <2>2, <2>5, <2>6, <2>7, PageJoins DEF w
  <2>9. /\ Used(<< >>) + row.size <= PageArea =>
             t.ok = TRUE /\ t.fits = TRUE /\ Shows(k.p, t.p, n, Extended(Blank, row), n + 1)
        /\ ~ (Used(<< >>) + row.size <= PageArea) => t.ok = TRUE /\ t.fits = FALSE /\ Sound(t.p, n + 1) /\ AllSame(k.p, t.p)
    <3>1. Image(k.p, n).rows = << >>
      BY <2>7 DEF Blank
    <3>2. n + 1 \in Nat
      OBVIOUS
    <3> QED  BY <2>6, <2>7, <3>1, <3>2, RowIsOffered DEF t
  <2>10. /\ r.p = t.p /\ r.ok = TRUE /\ r.next = n + 1
         /\ r.meta = Behind(m, n)
    <3>1. r = [p |-> t.p, ok |-> t.ok, next |-> n + 1, meta |-> Behind(m, n)]
      BY <1>2, <1>7, <2>1
    <3> QED  BY <2>9, <3>1
  <2>11. CASE row.size <= PageArea
    <3>1. Shows(k.p, t.p, n, Extended(Image(k.p, n), row), n + 1) /\ New(row) = {row}
      BY <2>7, <2>9, <2>11, NewRow
    <3>2. Chain(t.p, D, R \cup {row}) /\ (Complete(k.p, D, R) => Complete(t.p, D, R \cup {row}))
      <4>1. D \in SUBSET (1..((n + 1) - 1)) /\ n \in D /\ \A b \in D : b <= n
        BY <1>4
      <4> HIDE DEF D
      <4> QED  BY <2>6, <2>7, <2>8, <3>1, <4>1, RowJoins
    <3>3. \A a : a # n => SameAt(k.p, t.p, a) /\ OlderAt(k.p, t.p, a)
      BY <3>1 DEF Shows, OthersSame
    <3>4. \A a : a # n /\ a \notin C => OlderAt(p, t.p, a) /\ SameAt(p, t.p, a)
      BY <2>5, <3>3 DEF SameAt, OlderAt
    <3>5. Sound(t.p, n + 1)
      BY <3>1 DEF Shows
    <3> QED  BY <2>8, <2>10, <3>1, <3>2, <3>4, <3>5 DEF r
  <2>12. CASE ~ (row.size <= PageArea)
    <3>1. Sound(t.p, n + 1) /\ AllSame(k.p, t.p) /\ New(row) = {}
      BY <2>9, <2>12, NewRow
    <3>2. Chain(t.p, D, R) /\ (Complete(k.p, D, R) => Complete(t.p, D, R))
      BY <2>8, <3>1, ChainStays DEF AllSame
    <3>3. \A a : a # n /\ a \notin C => OlderAt(p, t.p, a) /\ SameAt(p, t.p, a)
      BY <2>5, <3>1 DEF SameAt, OlderAt, AllSame
    <3>4. R \cup New(row) = R
      BY <3>1
    <3> QED  BY <2>8, <2>10, <3>1, <3>2, <3>3, <3>4 DEF r
  <2> QED  BY <2>11, <2>12
<1> QED  BY <1>1, <1>5, <1>6, <1>7

Metas == [tid : Nat, first : Nat, last : Nat, count : Nat]

\* The metadata of a table name the first and the last page of its chain.
Ends(m, C) ==
  IF m.first = 0 THEN C = {} /\ m.last = 0
  ELSE m.first \in C /\ m.last \in C /\ \A b \in C : m.first <= b /\ b <= m.last

\* r answers that row was inserted: C has grown, at most by pages from n on, to D.
Inserted(p, m, C, R, row, n, r, D) ==
  /\ C \subseteq D /\ \A a \in D : a \in C \/ a >= n
  /\ r.meta \in Metas /\ r.meta.tid = m.tid /\ r.meta.count = m.count + 1 /\ Ends(r.meta, D)
  /\ Chain(r.p, D, R \cup New(row))
  /\ Complete(p, C, R) => Complete(r.p, D, R \cup New(row))

\* What append_row does to the pool p, to the chain C of the table and to all the others.
Appended(p, m, C, R, row, n, fault, r) ==
  /\ r.next \in Nat /\ n <= r.next /\ Sound(r.p, r.next) /\ r.ok \in BOOLEAN
  /\ \A a \in 1..(n - 1) : OlderAt(p, r.p, a) \/ (r.ok /\ a \in C)
  /\ r.ok => /\ \A a \in 1..(n - 1) : a \notin C => SameAt(p, r.p, a)
             /\ \E D \in SUBSET (1..(r.next - 1)) : Inserted(p, m, C, R, row, n, r, D)
  /\ ~ r.ok /\ Complete(p, C, R) => \E id \in Nat \ {0} : WriteFails(fault, id)

LEMMA RowInChain ==
  ASSUME NEW n \in Nat \ {0}, NEW p, Sound(p, n), NEW C \in SUBSET (1..(n - 1)), NEW R,
         NEW m \in Metas, m.first # 0, Ends(m, C), Chain(p, C, R),
         NEW row \in Rows, \A x \in R : x.id < row.id, NEW fault
  PROVE  Appended(p, m, C, R, row, n, fault, AppendToChain(p, m, row, n, fault))
<1> DEFINE r == AppendToChain(p, m, row, n, fault)
           l == m.last
           t == TryAppend(p, l, row)
           u == AppendToFresh(t.p, m, row, n, fault)
           fits == Used(Image(p, l).rows) + row.size <= PageArea
<1>1. l \in C /\ m.first \in C /\ \A b \in C : m.first <= b /\ b <= l
  BY DEF Ends
<1>2. /\ Pinnable(p, l) /\ fits =>
           t.ok = TRUE /\ t.fits = TRUE /\ Shows(p, t.p, l, Extended(Image(p, l), row), n)
      /\ Pinnable(p, l) /\ ~ fits => t.ok = TRUE /\ t.fits = FALSE /\ Sound(t.p, n) /\ AllSame(p, t.p)
      /\ ~ Pinnable(p, l) => t.ok = FALSE /\ t.p = p
  <2> HIDE DEF l
  <2> QED  BY RowIsOffered
<1>3. /\ ~ t.ok => r = [p |-> t.p, ok |-> FALSE, meta |-> m, next |-> n]
      /\ t.ok /\ t.fits => r = [p |-> t.p, ok |-> TRUE, meta |-> [m EXCEPT !.count = m.count + 1], next |-> n]
      /\ t.ok /\ ~ t.fits => r = u
  BY DEF AppendToChain
<1>4. n \in Nat /\ n <= n
  OBVIOUS
<1> HIDE DEF r, t, u
<1>5. CASE ~ Pinnable(p, l)
  <2>1. r.p = p /\ r.ok = FALSE /\ r.next = n
    BY <1>2, <1>3, <1>5
  <2>2. ~ Complete(p, C, R)
    BY <1>1, <1>5 DEF Complete
  <2>3. \A a : OlderAt(p, p, a)
    BY DEF OlderAt
  <2> QED  BY <1>4, <2>1, <2>2, <2>3 DEF Appended, r
<1>6. CASE Pinnable(p, l) /\ fits
  <2>1. t.ok = TRUE /\ t.fits = TRUE /\ Shows(p, t.p, l, Extended(Image(p, l), row), n)
    BY <1>2, <1>6
  <2>2. /\ r.p = t.p /\ r.ok = TRUE /\ r.next = n /\ r.meta = [m EXCEPT !.count = m.count + 1]
    BY <1>3, <2>1
  <2>3. row.size <= PageArea
    <3>1. Image(p, l) \in Images
      BY <1>6, ImagesAre
    <3>2. Used(Image(p, l).rows) \in Nat
      BY <3>1, UsedIsNumber DEF Images
    <3>3. row.size \in Nat /\ PageArea \in Nat
      BY PageAreaAssumption DEF Rows
    <3> QED  BY <1>6, <3>2, <3>3
  <2>4. Chain(t.p, C, R \cup {row}) /\ (Complete(p, C, R) => Complete(t.p, C, R \cup {row}))
    <3> HIDE DEF l, fits
    <3>1. n \in Nat
      OBVIOUS
    <3> QED  BY <1>1, <1>6, <2>1, <3>1, RowJoins
  <2>5. New(row) = {row}
    BY <2>3, NewRow
  <2>6. /\ r.meta \in Metas /\ r.meta.tid = m.tid /\ r.meta.count = m.count + 1
        /\ r.meta.first = m.first /\ r.meta.last = m.last
    BY <2>2 DEF Metas
  <2>7. Ends(r.meta, C)
    BY <2>6 DEF Ends
  <2>8. \A a : a # l => SameAt(p, r.p, a) /\ OlderAt(p, r.p, a)
    BY <2>1, <2>2 DEF Shows, OthersSame
  <2>9. Inserted(p, m, C, R, row, n, r, C)
    BY <2>2, <2>4, <2>5, <2>6, <2>7 DEF Inserted
  <2>10. Sound(r.p, n)
    BY <2>1, <2>2 DEF Shows
  <2> QED  BY <1>1, <1>4, <2>2, <2>8, <2>9, <2>10 DEF Appended, r
<1>7. CASE Pinnable(p, l) /\ ~ fits
  <2>1. t.ok = TRUE /\ t.fits = FALSE /\ Sound(t.p, n) /\ AllSame(p, t.p)
    BY <1>2, <1>7
  <2>2. r = u
    BY <1>3, <2>1
  <2>3. Chain(t.p, C, R) /\ (Complete(p, C, R) => Complete(t.p, C, R))
    BY <2>1, ChainStays DEF AllSame
  <2>4. /\ u.next = n + 1 /\ Sound(u.p, n + 1) /\ u.ok \in BOOLEAN
        /\ \A a : a # n /\ a \notin C => OlderAt(t.p, u.p, a) /\ (u.ok => SameAt(t.p, u.p, a))
        /\ u.ok => /\ u.meta = Behind(m, n)
                   /\ Chain(u.p, C \cup {n}, R \cup New(row))
                   /\ Complete(t.p, C, R) => Complete(u.p, C \cup {n}, R \cup New(row))
        /\ ~ u.ok => /\ \A a : a # n => OlderAt(t.p, u.p, a)
                     /\ Complete(t.p, C, R) => \E id \in 1..(n - 1) : WriteFails(fault, id)
    <3>1. m.last = l
      OBVIOUS
    <3> DEFINE q == t.p
    <3>2. u = AppendToFresh(q, m, row, n, fault)
      BY DEF u
    <3>3. Sound(q, n) /\ Chain(q, C, R)
      BY <2>1, <2>3
    <3> HIDE DEF l, q
    <3>4. \A b \in C : b <= l
      BY <1>1
    <3>5. LET j == AppendToFresh(q, m, row, n, fault) IN
          /\ j.next = n + 1 /\ Sound(j.p, n + 1) /\ j.ok \in BOOLEAN
          /\ \A a : a # n /\ a \notin C => OlderAt(q, j.p, a) /\ (j.ok => SameAt(q, j.p, a))
          /\ j.ok => /\ j.meta = Behind(m, n)
                     /\ Chain(j.p, C \cup {n}, R \cup New(row))
                     /\ Complete(q, C, R) => Complete(j.p, C \cup {n}, R \cup New(row))
          /\ ~ j.ok => /\ \A a : a # n => OlderAt(q, j.p, a)
                       /\ Complete(q, C, R) => \E id \in 1..(n - 1) : WriteFails(fault, id)
      BY <1>1, <3>1, <3>3, <3>4, RowOnFreshPage
    <3> QED  BY <3>2, <3>5 DEF q
  <2>5. \A a : SameAt(p, t.p, a) /\ OlderAt(p, t.p, a)
    BY <2>1 DEF AllSame
  <2>6. \A a \in 1..(n - 1) : a # n
    OBVIOUS
  <2>7. /\ \A a \in 1..(n - 1) : OlderAt(p, u.p, a) \/ (u.ok /\ a \in C)
        /\ u.ok => \A a \in 1..(n - 1) : a \notin C => SameAt(p, u.p, a)
    BY <2>4, <2>5, <2>6 DEF SameAt, OlderAt
  <2>8. ASSUME u.ok PROVE C \cup {n} \in SUBSET (1..(u.next - 1)) /\ Inserted(p, m, C, R, row, n, u, C \cup {n})
    <3>1. /\ u.meta \in Metas /\ u.meta.tid = m.tid /\ u.meta.count = m.count + 1
          /\ u.meta.first = m.first /\ u.meta.last = n
      <4>1. u.meta = Behind(m, n)
        BY <2>4, <2>8
      <4>2. u.meta = [tid |-> m.tid, first |-> m.first, last |-> n, count |-> m.count + 1]
        BY <4>1 DEF Metas, Behind
      <4> QED  BY <4>2 DEF Metas
    <3>2. \A b \in C \cup {n} : m.first <= b /\ b <= n
      <4>1. \A b \in C : b \in Nat /\ b <= n
        OBVIOUS
      <4>2. m.first \in C /\ \A b \in C : m.first <= b
        BY <1>1
      <4>3. m.first <= n /\ n <= n
        <5> DEFINE f == m.first
        <5>1. f \in C /\ n \in Int
          BY <4>2
        <5> HIDE DEF f
        <5>2. f <= n /\ n <= n
          BY <4>1, <5>1
        <5> QED  BY <5>2 DEF f
      <4> HIDE DEF l
      <4> QED  BY <4>1, <4>2, <4>3
    <3>3. Ends(u.meta, C \cup {n})
      BY <1>1, <3>1, <3>2 DEF Ends
    <3>4. \A a \in C \cup {n} : a \in C \/ a >= n
      OBVIOUS
    <3>5. C \cup {n} \in SUBSET (1..(u.next - 1))
      BY <2>4
    <3>6. /\ Chain(u.p, C \cup {n}, R \cup New(row))
          /\ Complete(p, C, R) => Complete(u.p, C \cup {n}, R \cup New(row))
      BY <2>3, <2>4, <2>8
    <3> QED  BY <3>1, <3>3, <3>4, <3>5, <3>6 DEF Inserted
  <2>9. ~ u.ok /\ Complete(p, C, R) => \E id \in Nat \ {0} : WriteFails(fault, id)
    BY <2>3, <2>4
  <2>10. Appended(p, m, C, R, row, n, fault, u)
    BY <1>4, <2>4, <2>7, <2>8, <2>9 DEF Appended
  <2> QED  BY <2>2, <2>10 DEF r
<1> QED  BY <1>5, <1>6, <1>7

\* The metadata after the first page n was allocated.
Opened(m, n) == [m EXCEPT !.first = n, !.last = n]

LEMMA MetaOpened ==
  ASSUME NEW m \in Metas, NEW n \in Nat, NEW q, q = Opened(m, n)
  PROVE  q \in Metas /\ q.tid = m.tid /\ q.count = m.count /\ q.first = n /\ q.last = n
BY DEF Metas, Opened

\* append_row: the first row of a table allocates its first page.
LEMMA RowIsAppended ==
  ASSUME NEW n \in Nat \ {0}, NEW p, Sound(p, n), NEW C \in SUBSET (1..(n - 1)), NEW R,
         NEW m \in Metas, Ends(m, C), Chain(p, C, R),
         NEW row \in Rows, \A x \in R : x.id < row.id, NEW fault
  PROVE  Appended(p, m, C, R, row, n, fault, AppendRow(p, m, row, n, fault))
<1> DEFINE s == AllocPage(p, n, fault)
           m2 == [m EXCEPT !.first = n, !.last = n]
           u == AppendToChain(s.p, m2, row, n + 1, fault)
           r == AppendRow(p, m, row, n, fault)
<1>1. CASE m.first # 0
  <2>1. r = AppendToChain(p, m, row, n, fault)
    BY <1>1 DEF AppendRow
  <2> HIDE DEF r
  <2> QED  BY <1>1, <2>1, RowInChain DEF r
<1>2. CASE m.first = 0
  <2>1. /\ s.ok => r = u
        /\ ~ s.ok => r = [p |-> s.p, ok |-> FALSE, meta |-> m, next |-> n + 1]
    BY <1>2 DEF AppendRow
  <2>2. /\ Sound(s.p, n + 1) /\ s.ok \in BOOLEAN
        /\ \A a : a # n => OlderAt(p, s.p, a) /\ (s.ok => SameAt(p, s.p, a))
        /\ s.ok => Pinnable(s.p, n) /\ Image(s.p, n) = Blank /\ Versions(s.p, n) \subseteq {Blank}
        /\ ~ s.ok => \E id \in 1..(n - 1) : WriteFails(fault, id)
    BY PageIsAllocated
  <2>3. C = {}
    BY <1>2 DEF Ends
  <2>4. /\ n + 1 \in Nat \ {0} /\ n <= n + 1 /\ {n} \in SUBSET (1..((n + 1) - 1))
        /\ \A a \in 1..(n - 1) : a # n /\ a \in 1..((n + 1) - 1) /\ a \notin {n}
    OBVIOUS
  <2>5. m2 \in Metas /\ m2.tid = m.tid /\ m2.count = m.count /\ m2.first = n /\ m2.last = n
    <3>1. m2 = Opened(m, n)
      BY DEF Opened
    <3> QED  BY <3>1, MetaOpened
  <2> HIDE DEF s, m2, u, r
  <2>6. CASE ~ s.ok
    <3>1. r.p = s.p /\ r.ok = FALSE /\ r.next = n + 1
      BY <2>1, <2>6
    <3>2. \A a \in 1..(n - 1) : OlderAt(p, r.p, a)
      BY <2>2, <2>4, <3>1
    <3>3. \E id \in Nat \ {0} : WriteFails(fault, id)
      BY <2>2, <2>6
    <3> QED  BY <2>2, <2>4, <3>1, <3>2, <3>3 DEF Appended, r
  <2>7. CASE s.ok
    <3>1. r = u
      BY <2>1, <2>7
    <3>2. Blank.next = 0 /\ ToSet(Blank.rows) = {} /\ InOrder(Blank.rows)
      BY DEF Blank, ToSet, InOrder
    <3>3. Chain(s.p, {n}, R)
      <4>1. \A v \in Versions(s.p, n) : v = Blank
        BY <2>2, <2>7
      <4>2. \A b \in {n} : ~ (b > n)
        OBVIOUS
      <4> QED  BY <3>2, <4>1, <4>2 DEF Chain
    <3>4. Complete(p, C, R) => Complete(s.p, {n}, R)
      <4>1. Complete(p, C, R) => R = {}
        BY <2>3 DEF Complete
      <4>2. \A b \in {n} : b <= n
        OBVIOUS
      <4>3. \A a \in {n} : Pinnable(s.p, a) /\ Image(s.p, a).next = 0
        BY <2>2, <2>7, <3>2
      <4> QED  BY <4>1, <4>2, <4>3 DEF Complete
    <3>5. Ends(m2, {n})
      <4>1. n # 0 /\ n \in {n} /\ \A b \in {n} : n <= b /\ b <= n
        OBVIOUS
      <4> QED  BY <2>5, <4>1 DEF Ends
    <3>6. Appended(s.p, m2, {n}, R, row, n + 1, fault, u)
      <4> DEFINE q == s.p
                 N == n + 1
                 D == {n}
      <4>1. u = AppendToChain(q, m2, row, N, fault)
        BY DEF u
      <4>2. Sound(q, N) /\ Chain(q, D, R) /\ Ends(m2, D) /\ m2 \in Metas /\ m2.first # 0
        BY <2>2, <2>4, <2>5, <3>3, <3>5
      <4>3. N \in Nat \ {0} /\ D \in SUBSET (1..(N - 1))
        BY <2>4
      <4> HIDE DEF q, N, D
      <4>4. Appended(q, m2, D, R, row, N, fault, u)
        BY <4>1, <4>2, <4>3, RowInChain
      <4> QED  BY <4>4 DEF q, N, D
    <3>7. u.next \in Nat /\ n <= u.next /\ Sound(u.p, u.next) /\ u.ok \in BOOLEAN
      <4>1. u.next \in Nat /\ n + 1 <= u.next /\ Sound(u.p, u.next) /\ u.ok \in BOOLEAN
        BY <3>6 DEF Appended
      <4> DEFINE x == u.next
      <4>2. x \in Nat /\ n + 1 <= x
        BY <4>1
      <4> HIDE DEF x
      <4>3. n <= x
        BY <4>2
      <4> QED  BY <4>1, <4>3 DEF x
    <3>8. ASSUME NEW a \in 1..(n - 1)
          PROVE  OlderAt(p, u.p, a) /\ (u.ok => SameAt(p, u.p, a))
      <4>1. a # n /\ a \in 1..((n + 1) - 1) /\ a \notin {n}
        BY <2>4
      <4>2. OlderAt(s.p, u.p, a) /\ (u.ok => SameAt(s.p, u.p, a))
        BY <3>6, <4>1 DEF Appended
      <4>3. OlderAt(p, s.p, a) /\ SameAt(p, s.p, a)
        BY <2>2, <2>7, <4>1
      <4> QED  BY <4>2, <4>3 DEF OlderAt, SameAt
    <3>9. ~ u.ok /\ Complete(p, C, R) => \E id \in Nat \ {0} : WriteFails(fault, id)
      BY <3>4, <3>6 DEF Appended
    <3>10. ASSUME u.ok PROVE \E D \in SUBSET (1..(u.next - 1)) : Inserted(p, m, C, R, row, n, u, D)
      <4>1. PICK D \in SUBSET (1..(u.next - 1)) : Inserted(s.p, m2, {n}, R, row, n + 1, u, D)
        BY <3>6, <3>10 DEF Appended
      <4>2. \A a \in D : a = n \/ a >= n + 1
        BY <4>1 DEF Inserted
      <4>3. \A a \in D : a \in Nat
        OBVIOUS
      <4>4. \A a \in D : a >= n
        BY <4>2, <4>3
      <4>5. /\ u.meta \in Metas /\ u.meta.tid = m.tid /\ u.meta.count = m.count + 1 /\ Ends(u.meta, D)
            /\ Chain(u.p, D, R \cup New(row))
            /\ Complete(p, C, R) => Complete(u.p, D, R \cup New(row))
        BY <2>5, <3>4, <4>1 DEF Inserted
      <4> QED  BY <2>3, <4>4, <4>5 DEF Inserted
    <3>11. Appended(p, m, C, R, row, n, fault, u)
      BY <3>7, <3>8, <3>9, <3>10 DEF Appended
    <3> QED  BY <3>1, <3>11 DEF r
  <2> QED  BY <2>2, <2>6, <2>7
<1> QED  BY <1>1, <1>2

----------------------------------------------------------------------------
(* Chains are scanned.                                                     *)

LEMMA RowsAreJoined ==
  ASSUME NEW a \in Seq(Rows), NEW b \in Seq(Rows)
  PROVE  /\ a \o b \in Seq(Rows)
         /\ \A x : x \in ToSet(a \o b) <=> x \in ToSet(a) \/ x \in ToSet(b)
         /\ InOrder(a) /\ InOrder(b) /\ (\A x \in ToSet(a), y \in ToSet(b) : x.id < y.id) => InOrder(a \o b)
<1> DEFINE t == a \o b
           L == Len(a)
           M == Len(b)
<1>1. /\ t \in Seq(Rows) /\ Len(t) = L + M /\ L \in Nat /\ M \in Nat
      /\ DOMAIN t = 1..(L + M) /\ DOMAIN a = 1..L /\ DOMAIN b = 1..M
      /\ \A i \in 1..L : t[i] = a[i]
      /\ \A i \in (L + 1)..(L + M) : t[i] = b[i - L]
  OBVIOUS
<1> HIDE DEF t, L, M
<1>2. ASSUME NEW i \in 1..(L + M)
      PROVE  (i \in 1..L /\ t[i] = a[i]) \/ (i > L /\ i - L \in 1..M /\ t[i] = b[i - L])
  <2>1. CASE i <= L
    <3>1. i \in 1..L
      BY <1>1, <2>1
    <3> QED  BY <1>1, <3>1
  <2>2. CASE i > L
    <3>1. i \in (L + 1)..(L + M) /\ i - L \in 1..M
      BY <1>1, <2>2
    <3> QED  BY <1>1, <2>2, <3>1
  <2> QED  BY <1>1, <2>1, <2>2
<1>3. \A i \in 1..M : i + L \in (L + 1)..(L + M) /\ i + L \in 1..(L + M) /\ t[i + L] = b[i]
  <2> TAKE i \in 1..M
  <2>1. i + L \in (L + 1)..(L + M) /\ (i + L) - L = i /\ i + L \in 1..(L + M)
    BY <1>1
  <2> QED  BY <1>1, <2>1
<1>4. \A i \in 1..L : i \in 1..(L + M)
  BY <1>1
<1>5. ASSUME NEW x PROVE x \in ToSet(t) <=> x \in ToSet(a) \/ x \in ToSet(b)
  <2>1. /\ x \in ToSet(t) <=> \E i \in 1..(L + M) : x = t[i]
        /\ x \in ToSet(a) <=> \E i \in 1..L : x = a[i]
        /\ x \in ToSet(b) <=> \E i \in 1..M : x = b[i]
    BY <1>1 DEF ToSet
  <2>2. (\E i \in 1..(L + M) : x = t[i]) => (\E i \in 1..L : x = a[i]) \/ (\E i \in 1..M : x = b[i])
    BY <1>2
  <2>3. (\E i \in 1..L : x = a[i]) => \E i \in 1..(L + M) : x = t[i]
    BY <1>1, <1>4
  <2>4. (\E i \in 1..M : x = b[i]) => \E i \in 1..(L + M) : x = t[i]
    BY <1>3
  <2> QED  BY <2>1, <2>2, <2>3, <2>4
<1>6. ASSUME InOrder(a), InOrder(b), \A x \in ToSet(a), y \in ToSet(b) : x.id < y.id,
             NEW i \in 1..(L + M), NEW j \in 1..(L + M), i < j
      PROVE  t[i].id < t[j].id
  <2>1. CASE j \in 1..L /\ t[j] = a[j]
    <3>1. i \in 1..L /\ t[i] = a[i]
      BY <1>1, <1>6, <2>1
    <3> QED  BY <1>1, <1>6, <2>1, <3>1 DEF InOrder
  <2>2. CASE j > L /\ j - L \in 1..M /\ t[j] = b[j - L]
    <3>1. CASE i \in 1..L /\ t[i] = a[i]
      <4>1. a[i] \in ToSet(a) /\ b[j - L] \in ToSet(b)
        BY <1>1, <2>2, <3>1 DEF ToSet
      <4> QED  BY <1>6, <2>2, <3>1, <4>1
    <3>2. CASE i > L /\ i - L \in 1..M /\ t[i] = b[i - L]
      <4>1. i - L < j - L
        BY <1>1, <1>6
      <4> QED  BY <1>1, <1>6, <2>2, <3>2, <4>1 DEF InOrder
    <3> QED  BY <1>2, <3>1, <3>2
  <2> QED  BY <1>2, <2>1, <2>2
<1>7. InOrder(a) /\ InOrder(b) /\ (\A x \in ToSet(a), y \in ToSet(b) : x.id < y.id) => InOrder(t)
  BY <1>1, <1>6 DEF InOrder
<1> QED  BY <1>1, <1>5, <1>7 DEF t

\* The states of a scan.
Scans == [p : Pools, ok : BOOLEAN, at : Nat, rows : Seq(Rows)]

LEMMA PageIsRead ==
  ASSUME NEW n \in Nat, NEW s \in Scans, Sound(s.p, n)
  PROVE  LET t == ScanStep(s) IN
         /\ t \in Scans /\ Sound(t.p, n) /\ AllSame(s.p, t.p)
         /\ s.at = 0 \/ ~ s.ok => t = s
         /\ s.at # 0 /\ s.ok /\ Pinnable(s.p, s.at) =>
              /\ t.ok = TRUE /\ t.at = Image(s.p, s.at).next
              /\ t.rows = s.rows \o Image(s.p, s.at).rows
         /\ s.at # 0 /\ s.ok /\ ~ Pinnable(s.p, s.at) =>
              t.ok = FALSE /\ t.at = s.at /\ t.rows = s.rows
<1> DEFINE r == Pin(s.p, s.at)
           u == Unpin(r.p, r.fid, FALSE)
           v == Image(s.p, s.at)
           t == ScanStep(s)
<1>1. /\ s.at = 0 \/ ~ s.ok => t = s
      /\ s.at # 0 /\ s.ok /\ ~ r.ok => t = [s EXCEPT !.ok = FALSE]
      /\ s.at # 0 /\ s.ok /\ r.ok => t = [p |-> u, ok |-> TRUE, at |-> v.next, rows |-> s.rows \o v.rows]
  BY DEF ScanStep
<1> HIDE DEF t, u, v
<1>2. AllSame(s.p, s.p)
  BY DEF AllSame, SameAt, OlderAt
<1>3. s.ok \in BOOLEAN /\ s.at \in Nat /\ s.rows \in Seq(Rows) /\ s.p \in Pools
  BY DEF Scans
<1>4. CASE s.at = 0 \/ ~ s.ok
  <2>1. t = s
    BY <1>1, <1>4
  <2> QED  BY <1>2, <1>4, <2>1 DEF t
<1>5. CASE s.at # 0 /\ s.ok /\ ~ Pinnable(s.p, s.at)
  <2>1. ~ r.ok
    BY <1>5, PinFails
  <2>2. t = [s EXCEPT !.ok = FALSE]
    BY <1>1, <1>5, <2>1
  <2>3. t \in Scans /\ t.p = s.p /\ t.ok = FALSE /\ t.at = s.at /\ t.rows = s.rows
    BY <2>2 DEF Scans
  <2> QED  BY <1>2, <1>5, <2>3 DEF t
<1>6. CASE s.at # 0 /\ s.ok /\ Pinnable(s.p, s.at)
  <2> DEFINE q == s.p
             id == s.at
  <2>1. Held(q, r, id, n) /\ r.p.frames[r.fid].data = v
    <3>1. Sound(q, n) /\ Pinnable(q, id) /\ r = Pin(q, id) /\ v = Image(q, id)
      BY <1>6 DEF v
    <3> HIDE DEF q, id, r
    <3> QED  BY <3>1, PinHolds
  <2>2. v \in Images /\ v \in Versions(q, id)
    <3>1. Sound(q, n) /\ Pinnable(q, id) /\ v = Image(q, id)
      BY <1>6 DEF v
    <3> HIDE DEF q, id
    <3> QED  BY <3>1, ImagesAre
  <2>3. r.ok
    <3>1. r = [p |-> r.p, ok |-> TRUE, fid |-> r.fid]
      BY <2>1 DEF Held
    <3> HIDE DEF r
    <3> QED  BY <3>1
  <2>4. t = [p |-> u, ok |-> TRUE, at |-> v.next, rows |-> s.rows \o v.rows]
    BY <1>1, <1>6, <2>3
  <2>5. Shows(q, u, id, v, n)
    <3> HIDE DEF q, id, r
    <3> QED  BY <2>1, HeldIsRead DEF u
  <2>6. SameAt(q, u, id) /\ OlderAt(q, u, id)
    <3>1. Pinnable(q, id) /\ Image(q, id) = v
      BY <1>6 DEF v
    <3> HIDE DEF q, id
    <3> QED  BY <2>2, <2>5, <3>1 DEF SameAt, OlderAt, Shows
  <2>7. AllSame(q, u) /\ Sound(u, n)
    <3> HIDE DEF q, id
    <3> QED  BY <2>5, <2>6 DEF Shows, OthersSame, AllSame
  <2>8. t.p = u /\ t.ok = TRUE /\ t.at = v.next /\ t.rows = s.rows \o v.rows
    BY <2>4
  <2>9. s.rows \o v.rows \in Seq(Rows) /\ v.next \in Nat /\ u \in Pools
    BY <1>3, <2>2, <2>7 DEF Images, Sound
  <2>10. t \in Scans
    BY <2>4, <2>9 DEF Scans
  <2> QED  BY <1>6, <2>7, <2>8, <2>10 DEF t, v
<1> QED  BY <1>3, <1>4, <1>5, <1>6

LEMMA ScanIsSteps ==
  ASSUME NEW n \in Nat, NEW p, Sound(p, n), NEW m \in Metas, NEW N \in Nat
  PROVE  LET g == ScanStates(p, m, N) IN
         /\ g[0] = [p |-> p, ok |-> TRUE, at |-> m.first, rows |-> << >>]
         /\ \A k \in 1..N : g[k] = ScanStep(g[k - 1])
         /\ \A k \in 0..N : g[k] \in Scans /\ Sound(g[k].p, n)
<1> DEFINE start == [p |-> p, ok |-> TRUE, at |-> m.first, rows |-> << >>]
           S == {s \in Scans : Sound(s.p, n)}
           step == [k \in 1..N |-> [s \in S |-> ScanStep(s)]]
           g == ScanStates(p, m, N)
<1>1. start \in S
  <2>1. p \in Pools /\ m.first \in Nat /\ << >> \in Seq(Rows)
    BY DEF Sound, Metas
  <2> QED  BY <2>1 DEF Scans
<1>2. \A s \in S : ScanStep(s) \in S
  <2> TAKE s \in S
  <2>1. s \in Scans /\ Sound(s.p, n)
    OBVIOUS
  <2>2. ScanStep(s) \in Scans /\ Sound(ScanStep(s).p, n)
    BY <2>1, PageIsRead
  <2> QED  BY <2>2
<1> HIDE DEF start
<1>3. step \in [1..N -> [S -> S]] /\ \A k \in 1..N : \A s \in S : step[k][s] = ScanStep(s)
  <2> HIDE DEF S
  <2> QED  BY <1>2
<1> HIDE DEF S, step
<1>4. PICK f \in [0..N -> S] : Follows(f, N, start, step)
  BY <1>1, <1>3, RecursionTo
<1>5. \A k \in 1..N : f[k] = ScanStep(f[k - 1])
  <2> TAKE k \in 1..N
  <2>1. k - 1 \in 0..N
    OBVIOUS
  <2>2. f[k - 1] \in S
    BY <2>1
  <2> QED  BY <1>3, <1>4, <2>2 DEF Follows
<1>6. f = [k \in 0..N |-> IF k = 0 THEN start ELSE ScanStep(f[k - 1])]
  <2>1. \A k \in 0..N : f[k] = IF k = 0 THEN start ELSE ScanStep(f[k - 1])
    BY <1>4, <1>5 DEF Follows
  <2> QED  BY <2>1
<1> DEFINE h == CHOOSE after : after = [k \in 0..N |-> IF k = 0 THEN start ELSE ScanStep(after[k - 1])]
<1>7. h = [k \in 0..N |-> IF k = 0 THEN start ELSE ScanStep(h[k - 1])]
  BY <1>6
<1>8. g = h
  BY DEF ScanStates, start
<1> HIDE DEF h, g
<1>9. g[0] = start /\ \A k \in 1..N : g[k] = ScanStep(g[k - 1])
  BY <1>7, <1>8
<1> DEFINE Good == {k \in 0..N : g[k] \in S}
<1>10. 0 \in Good
  BY <1>1, <1>9
<1>11. ASSUME NEW k \in 0..(N - 1), k \in Good PROVE k + 1 \in Good
  <2>1. k + 1 \in 1..N /\ (k + 1) - 1 = k /\ k + 1 \in 0..N
    OBVIOUS
  <2>2. ScanStep(g[k]) \in S
    <3>1. \A s \in S : ScanStep(s) \in S
      BY <1>2
    <3> QED  BY <1>11, <3>1
  <2> QED  BY <1>9, <2>1, <2>2
<1>12. \A k \in 0..N : k \in Good
  <2> HIDE DEF Good
  <2> QED  BY <1>10, <1>11, InductionTo
<1>13. \A k \in 0..N : g[k] \in Scans /\ Sound(g[k].p, n)
  BY <1>12 DEF S
<1> QED  BY <1>9, <1>13 DEF g, start

\* s has walked the chain C of pool p, and stands before page s.at.
Walked(p, C, R, s) ==
  /\ AllSame(p, s.p)
  /\ s.at = 0 \/ s.at \in C
  /\ InOrder(s.rows) /\ ToSet(s.rows) \subseteq R
  /\ s.at \in C => \A b \in C : b >= s.at =>
       \A w \in Versions(p, b) : \A x \in ToSet(s.rows), y \in ToSet(w.rows) : x.id < y.id
  /\ Complete(p, C, R) =>
       s.ok /\ \A b \in C : s.at = 0 \/ b < s.at => ToSet(Image(p, b).rows) \subseteq ToSet(s.rows)

\* One page further.
LEMMA PageIsWalked ==
  ASSUME NEW n \in Nat, NEW p, Sound(p, n), NEW C \in SUBSET (1..(n - 1)), NEW R, Chain(p, C, R),
         NEW s \in Scans, Sound(s.p, n), Walked(p, C, R, s)
  PROVE  LET t == ScanStep(s) IN
         /\ Walked(p, C, R, t)
         /\ s.at = 0 => t.at = 0
         /\ s.at # 0 /\ s.ok /\ t.ok => t.at = 0 \/ t.at > s.at
         /\ ~ s.ok => ~ t.ok
<1> DEFINE t == ScanStep(s)
           v == Image(s.p, s.at)
<1>1. /\ t \in Scans /\ Sound(t.p, n) /\ AllSame(s.p, t.p)
      /\ s.at = 0 \/ ~ s.ok => t = s
      /\ s.at # 0 /\ s.ok /\ Pinnable(s.p, s.at) => t.ok = TRUE /\ t.at = v.next /\ t.rows = s.rows \o v.rows
      /\ s.at # 0 /\ s.ok /\ ~ Pinnable(s.p, s.at) => t.ok = FALSE /\ t.at = s.at /\ t.rows = s.rows
  BY PageIsRead
<1>2. AllSame(p, t.p)
  <2>1. AllSame(p, s.p)
    BY DEF Walked
  <2> QED  BY <1>1, <2>1, SameChains
<1>3. s.rows \in Seq(Rows) /\ s.at \in Nat /\ s.ok \in BOOLEAN
  BY DEF Scans
<1> HIDE DEF t
<1>4. CASE s.at = 0 \/ ~ s.ok
  BY <1>1, <1>4 DEF t
<1>5. CASE s.at # 0 /\ s.ok
  <2>1. s.at \in C
    BY <1>5 DEF Walked
  <2>2. SameAt(p, s.p, s.at) /\ OlderAt(p, s.p, s.at)
    BY DEF Walked, AllSame
  <2>3. CASE ~ Pinnable(s.p, s.at)
    <3>1. t.ok = FALSE /\ t.at = s.at /\ t.rows = s.rows
      BY <1>1, <1>5, <2>3
    <3>2. ~ Complete(p, C, R)
      BY <2>1, <2>2, <2>3 DEF Complete, SameAt
    <3>3. Walked(p, C, R, t)
      BY <1>2, <3>1, <3>2 DEF Walked
    <3> QED  BY <1>5, <3>1, <3>3 DEF t
  <2>4. CASE Pinnable(s.p, s.at)
    <3>1. t.ok = TRUE /\ t.at = v.next /\ t.rows = s.rows \o v.rows
      BY <1>1, <1>5, <2>4
    <3>2. v = Image(p, s.at) /\ v \in Versions(p, s.at) /\ v \in Images
      <4>1. Pinnable(p, s.at) /\ v = Image(p, s.at)
        BY <2>2, <2>4 DEF SameAt
      <4> DEFINE a == s.at
      <4>2. Pinnable(p, a) /\ v = Image(p, a)
        BY <4>1
      <4> HIDE DEF a, v
      <4>3. v \in Versions(p, a) /\ v \in Images
        BY <4>2, ImagesAre
      <4> QED  BY <4>1, <4>3 DEF a, v
    <3> HIDE DEF v
    <3>3. /\ v.next = 0 \/ (v.next \in C /\ v.next > s.at)
          /\ InOrder(v.rows) /\ ToSet(v.rows) \subseteq R
          /\ \A b \in C : b > s.at =>
               \A w \in Versions(p, b) : \A x \in ToSet(v.rows), y \in ToSet(w.rows) : x.id < y.id
      BY <2>1, <3>2 DEF Chain
    <3>4. v.rows \in Seq(Rows) /\ v.next \in Nat
      BY <3>2 DEF Images
    <3>5. /\ InOrder(s.rows) /\ ToSet(s.rows) \subseteq R
          /\ \A b \in C : b >= s.at =>
               \A w \in Versions(p, b) : \A x \in ToSet(s.rows), y \in ToSet(w.rows) : x.id < y.id
      BY <2>1 DEF Walked
    <3>6. s.at >= s.at
      BY <1>3
    <3>7. \A x \in ToSet(s.rows), y \in ToSet(v.rows) : x.id < y.id
      BY <2>1, <3>2, <3>5, <3>6
    <3>8. /\ \A x : x \in ToSet(t.rows) <=> x \in ToSet(s.rows) \/ x \in ToSet(v.rows)
          /\ InOrder(t.rows)
      <4> DEFINE a == s.rows
                 b == v.rows
      <4>1. a \in Seq(Rows) /\ b \in Seq(Rows) /\ t.rows = a \o b /\ InOrder(a) /\ InOrder(b)
        BY <1>3, <3>1, <3>3, <3>4, <3>5
      <4>2. \A x \in ToSet(a), y \in ToSet(b) : x.id < y.id
        BY <3>7
      <4> HIDE DEF a, b
      <4>3. (\A x : x \in ToSet(a \o b) <=> x \in ToSet(a) \/ x \in ToSet(b)) /\ InOrder(a \o b)
        BY <4>1, <4>2, RowsAreJoined
      <4> QED  BY <4>1, <4>3 DEF a, b
    <3>9. ToSet(t.rows) \subseteq R
      BY <3>3, <3>5, <3>8
    <3>10. t.at = 0 \/ (t.at \in C /\ t.at > s.at)
      BY <3>1, <3>3
    <3>11. ASSUME t.at \in C, NEW b \in C, b >= t.at, NEW w \in Versions(p, b),
                  NEW x \in ToSet(t.rows), NEW y \in ToSet(w.rows)
           PROVE  x.id < y.id
      <4>1. t.at > s.at /\ t.at \in Nat
        <5>1. \A c \in C : c # 0 /\ c \in Nat
          OBVIOUS
        <5>2. t.at # 0 /\ t.at \in Nat
          BY <3>11, <5>1
        <5> QED  BY <3>10, <5>2
      <4>2. b > s.at /\ b >= s.at
        <5>1. b \in Nat
          OBVIOUS
        <5> DEFINE i == s.at
                   j == t.at
        <5>2. i \in Nat /\ j \in Nat /\ j > i /\ b >= j
          BY <1>3, <3>11, <4>1
        <5> HIDE DEF i, j
        <5>3. b > i /\ b >= i
          BY <5>1, <5>2
        <5> QED  BY <5>3 DEF i
      <4>3. CASE x \in ToSet(s.rows)
        BY <3>5, <3>11, <4>2, <4>3
      <4>4. CASE x \in ToSet(v.rows)
        BY <3>3, <3>11, <4>2, <4>4
      <4> QED  BY <3>8, <3>11, <4>3, <4>4
    <3>12. ASSUME Complete(p, C, R), NEW b \in C, t.at = 0 \/ b < t.at, NEW x \in ToSet(Image(p, b).rows)
           PROVE  x \in ToSet(t.rows)
      <4>1. CASE b < s.at
        <5>1. x \in ToSet(s.rows)
          BY <3>12, <4>1 DEF Walked
        <5> QED  BY <3>8, <5>1
      <4>2. CASE b = s.at
        BY <3>2, <3>8, <3>12, <4>2
      <4>3. CASE b > s.at
        <5>1. /\ v.next = 0 => \A c \in C : c <= s.at
              /\ v.next # 0 => \A c \in C : c > s.at => c >= v.next
          BY <2>1, <3>2, <3>12 DEF Complete
        <5>2. b \in Nat
          OBVIOUS
        <5> DEFINE i == s.at
                   j == v.next
        <5>3. /\ i \in Nat /\ j \in Nat /\ b > i /\ (j = 0 \/ b < j)
              /\ j = 0 => b <= i
              /\ j # 0 => b >= j
          BY <1>3, <3>1, <3>4, <3>12, <4>3, <5>1
        <5> HIDE DEF i, j
        <5>4. FALSE
          BY <5>2, <5>3
        <5> QED  BY <5>4
      <4>4. b < s.at \/ b = s.at \/ b > s.at
        <5>1. b \in Nat
          OBVIOUS
        <5> QED  BY <1>3, <5>1
      <4> QED  BY <4>1, <4>2, <4>3, <4>4
    <3>13. Walked(p, C, R, t)
      <4>1. t.at = 0 \/ t.at \in C
        BY <3>10
      <4>2. t.at \in C => \A b \in C : b >= t.at =>
              \A w \in Versions(p, b) : \A x \in ToSet(t.rows), y \in ToSet(w.rows) : x.id < y.id
        BY <3>11
      <4>3. Complete(p, C, R) =>
              t.ok /\ \A b \in C : t.at = 0 \/ b < t.at => ToSet(Image(p, b).rows) \subseteq ToSet(t.rows)
        BY <3>1, <3>12
      <4> QED  BY <1>2, <3>8, <3>9, <4>1, <4>2, <4>3 DEF Walked
    <3> QED  BY <1>5, <3>1, <3>10, <3>13 DEF t
  <2> QED  BY <2>3, <2>4
<1> QED  BY <1>3, <1>4, <1>5

\* A scan shows rows of the table, in order and none twice; all of them if the chain is
\* complete and the scan is given as many steps as there are pages.
LEMMA ChainIsScanned ==
  ASSUME NEW n \in Nat, NEW p, Sound(p, n), NEW C \in SUBSET (1..(n - 1)), NEW R, Chain(p, C, R),
         NEW m \in Metas, Ends(m, C), NEW N \in Nat
  PROVE  LET s == Scan(p, m, N) IN
         /\ Sound(s.p, n) /\ AllSame(p, s.p) /\ s.ok \in BOOLEAN
         /\ InOrder(s.rows) /\ ToSet(s.rows) \subseteq R
         /\ N >= n /\ s.ok => s.at = 0
         /\ Complete(p, C, R) => s.ok
         /\ Complete(p, C, R) /\ N >= n => R \subseteq ToSet(s.rows)
<1> DEFINE g == ScanStates(p, m, N)
           s == Scan(p, m, N)
           Good == {k \in 0..N : Walked(p, C, R, g[k]) /\ (g[k].ok /\ g[k].at # 0 => g[k].at >= k + 1)}
<1>1. /\ g[0] = [p |-> p, ok |-> TRUE, at |-> m.first, rows |-> << >>]
      /\ \A k \in 1..N : g[k] = ScanStep(g[k - 1])
      /\ \A k \in 0..N : g[k] \in Scans /\ Sound(g[k].p, n)
  BY ScanIsSteps
<1>2. s = g[N]
  BY DEF Scan
<1> HIDE DEF g, s
<1>3. \A c \in C : c \in Nat /\ c # 0 /\ c < n
  OBVIOUS
<1>4. 0 \in Good
  <2>1. g[0].p = p /\ g[0].ok = TRUE /\ g[0].at = m.first /\ g[0].rows = << >>
    BY <1>1
  <2>2. AllSame(p, p)
    BY DEF AllSame, SameAt, OlderAt
  <2>3. m.first \in Nat /\ (m.first = 0 => C = {}) /\ (m.first # 0 => m.first \in C /\ \A b \in C : m.first <= b)
    BY DEF Ends, Metas
  <2>4. InOrder(<< >>) /\ ToSet(<< >>) = {}
    BY DEF InOrder, ToSet
  <2>5. \A b \in C : ~ (m.first = 0) /\ ~ (b < m.first)
    BY <1>3, <2>3
  <2>6. Walked(p, C, R, g[0])
    BY <2>1, <2>2, <2>3, <2>4, <2>5 DEF Walked
  <2>7. m.first # 0 => m.first >= 0 + 1
    BY <2>3
  <2>8. 0 \in 0..N
    OBVIOUS
  <2> QED  BY <2>1, <2>6, <2>7, <2>8
<1>5. ASSUME NEW k \in 0..(N - 1), k \in Good PROVE k + 1 \in Good
  <2>1. k + 1 \in 1..N /\ (k + 1) - 1 = k /\ k + 1 \in 0..N /\ k \in 0..N /\ k \in Nat
    OBVIOUS
  <2>2. g[k] \in Scans /\ Sound(g[k].p, n) /\ g[k + 1] = ScanStep(g[k])
    BY <1>1, <2>1
  <2>3. Walked(p, C, R, g[k]) /\ (g[k].ok /\ g[k].at # 0 => g[k].at >= k + 1)
    BY <1>5
  <2>4. /\ Walked(p, C, R, g[k + 1])
        /\ g[k].at = 0 => g[k + 1].at = 0
        /\ g[k].at # 0 /\ g[k].ok /\ g[k + 1].ok => g[k + 1].at = 0 \/ g[k + 1].at > g[k].at
        /\ ~ g[k].ok => ~ g[k + 1].ok
    BY <2>2, <2>3, PageIsWalked
  <2>5. g[k].at \in Nat /\ g[k + 1].at \in Nat
    BY <1>1, <2>1 DEF Scans
  <2>6. ASSUME g[k + 1].ok, g[k + 1].at # 0 PROVE g[k + 1].at >= (k + 1) + 1
    <3> DEFINE i == g[k].at
               j == g[k + 1].at
    <3>1. i \in Nat /\ j \in Nat /\ i >= k + 1 /\ j > i
      BY <2>3, <2>4, <2>5, <2>6
    <3> HIDE DEF i, j
    <3>2. j >= (k + 1) + 1
      BY <2>1, <3>1
    <3> QED  BY <3>2 DEF j
  <2> QED  BY <2>1, <2>4, <2>6
<1>6. \A k \in 0..N : k \in Good
  <2> HIDE DEF Good
  <2> QED  BY <1>4, <1>5, InductionTo
<1>7. N \in 0..N
  OBVIOUS
<1>8. Walked(p, C, R, s) /\ (s.ok /\ s.at # 0 => s.at >= N + 1) /\ s \in Scans /\ Sound(s.p, n)
  BY <1>1, <1>2, <1>6, <1>7
<1>9. ASSUME N >= n, s.ok PROVE s.at = 0
  <2>1. s.at = 0 \/ s.at \in C
    BY <1>8 DEF Walked
  <2> DEFINE i == s.at
  <2>2. i # 0 => i >= N + 1
    BY <1>8, <1>9
  <2>3. i = 0 \/ (i \in Nat /\ i < n)
    BY <1>3, <2>1
  <2> HIDE DEF i
  <2>4. i = 0
    BY <1>9, <2>2, <2>3
  <2> QED  BY <2>4 DEF i
<1>12. ASSUME Complete(p, C, R), N >= n PROVE R \subseteq ToSet(s.rows)
  <2>1. s.ok /\ \A b \in C : s.at = 0 \/ b < s.at => ToSet(Image(p, b).rows) \subseteq ToSet(s.rows)
    BY <1>8, <1>12 DEF Walked
  <2>2. s.at = 0
    BY <1>9, <1>12, <2>1
  <2>3. \A x \in R : \E a \in C : x \in ToSet(Image(p, a).rows)
    BY <1>12 DEF Complete
  <2> QED  BY <2>1, <2>2, <2>3
<1>10. AllSame(p, s.p) /\ InOrder(s.rows) /\ ToSet(s.rows) \subseteq R /\ (Complete(p, C, R) => s.ok)
  BY <1>8 DEF Walked
<1>11. s.ok \in BOOLEAN
  BY <1>8 DEF Scans
<1> QED  BY <1>8, <1>9, <1>10, <1>11, <1>12 DEF s

----------------------------------------------------------------------------
(* The invariant.                                                          *)

Fitting(rows) == {row \in ToSet(rows) : row.size <= PageArea}

LEMMA FittingIs ==
  ASSUME NEW rows \in Seq(Rows), NEW row \in Rows
  PROVE  /\ Fitting(Append(rows, row)) = Fitting(rows) \cup New(row)
         /\ \A x : x \in ToSet(Append(rows, row)) <=> x \in ToSet(rows) \/ x = row
         /\ Append(rows, row) \in Seq(Rows) /\ Len(Append(rows, row)) = Len(rows) + 1
<1> DEFINE t == Append(rows, row)
           L == Len(rows)
<1>1. /\ t \in Seq(Rows) /\ Len(t) = L + 1 /\ L \in Nat /\ t[L + 1] = row
      /\ \A i \in 1..L : t[i] = rows[i]
      /\ DOMAIN t = 1..(L + 1) /\ DOMAIN rows = 1..L
  OBVIOUS
<1> HIDE DEF t, L
<1>2. \A i \in 1..(L + 1) : i = L + 1 \/ i \in 1..L
  BY <1>1
<1>3. \A i \in 1..L : i \in 1..(L + 1)
  BY <1>1
<1>4. L + 1 \in 1..(L + 1)
  BY <1>1
<1>5. ASSUME NEW x PROVE x \in ToSet(t) <=> x \in ToSet(rows) \/ x = row
  BY <1>1, <1>2, <1>3, <1>4 DEF ToSet
<1>6. Fitting(t) = Fitting(rows) \cup New(row)
  <2>1. \A x : x \in Fitting(t) <=> x \in ToSet(t) /\ x.size <= PageArea
    BY DEF Fitting
  <2>2. \A x : x \in Fitting(rows) <=> x \in ToSet(rows) /\ x.size <= PageArea
    BY DEF Fitting
  <2>3. \A x : x \in New(row) <=> x = row /\ x.size <= PageArea
    BY DEF New
  <2> QED  BY <1>5, <2>1, <2>2, <2>3
<1> QED  BY <1>1, <1>5, <1>6 DEF t, L

\* What the pool p, the pages C, the metadata m and the rows kept say of one table.
Table(p, C, m, rows, lost_) ==
  /\ Ends(m, C) /\ Chain(p, C, Fitting(rows))
  /\ ~ lost_ => Complete(p, C, Fitting(rows)) /\ m.count = Len(rows)

LEMMA TableStays ==
  ASSUME NEW p, NEW q, NEW C, NEW m, NEW rows, NEW l, NEW k, Table(p, C, m, rows, l),
         \A a \in C : OlderAt(p, q, a), ~ k => ~ l /\ \A a \in C : SameAt(p, q, a)
  PROVE  Table(q, C, m, rows, k)
<1> DEFINE R == Fitting(rows)
<1>1. Ends(m, C) /\ Chain(p, C, R) /\ (~ l => Complete(p, C, R) /\ m.count = Len(rows))
  BY DEF Table
<1> HIDE DEF R
<1>2. /\ Chain(p, C, R) => Chain(q, C, R)
      /\ (\A a \in C : SameAt(p, q, a)) /\ Complete(p, C, R) => Complete(q, C, R)
  BY ChainStays
<1> QED  BY <1>1, <1>2 DEF Table, R

Counters ==
  /\ nextPage \in Nat \ {0} /\ nextTable \in Nat \ {0} /\ tried \in Nat
  /\ lost \in BOOLEAN /\ refused \in BOOLEAN
  /\ kept \in Seq(Seq(Rows)) /\ nextTable = Len(kept) + 1
  /\ \A i \in 1..Len(kept) : \A x \in ToSet(kept[i]) : x.id <= tried
  /\ metas \in [DOMAIN metas -> Metas]
  /\ \A t \in DOMAIN metas : metas[t].tid \in 1..Len(kept)
  /\ \A t, u \in DOMAIN metas : t # u => metas[t].tid # metas[u].tid

\* The pages of the tables: no page is in two chains.
Pages(C) ==
  /\ C \in [DOMAIN metas -> SUBSET (1..(nextPage - 1))]
  /\ \A t, u \in DOMAIN metas : t # u => C[t] \cap C[u] = {}
  /\ \A t \in DOMAIN metas : Table(pool, C[t], metas[t], kept[metas[t].tid], lost)

StoreInv == Counters /\ Sound(pool, nextPage) /\ (\E C : Pages(C)) /\ ~ refused

LEMMA InitHolds == Init => StoreInv
<1> SUFFICES ASSUME Init PROVE StoreInv
  OBVIOUS
<1>1. Counters
  <2>1. kept = << >> /\ << >> \in Seq(Seq(Rows)) /\ Len(<< >>) = 0
    BY DEF Init
  <2>2. DOMAIN metas = {} /\ metas \in [DOMAIN metas -> Metas]
    BY DEF Init
  <2>3. \A i \in 1..Len(kept) : FALSE
    BY <2>1
  <2>4. nextPage = 1 /\ nextTable = 1 /\ tried = 0 /\ lost = FALSE /\ refused = FALSE
    BY DEF Init
  <2>5. nextTable = Len(kept) + 1
    BY <2>1, <2>4
  <2>6. kept \in Seq(Seq(Rows))
    BY <2>1
  <2>7. \A t \in DOMAIN metas : FALSE
    BY <2>2
  <2>8. /\ nextPage \in Nat \ {0} /\ nextTable \in Nat \ {0} /\ tried \in Nat
        /\ lost \in BOOLEAN /\ refused \in BOOLEAN
    <3>1. nextPage \in Nat \ {0} /\ nextTable \in Nat \ {0} /\ tried \in Nat
      BY <2>4
    <3>2. lost \in BOOLEAN /\ refused \in BOOLEAN
      BY <2>4, Zenon
    <3> QED  BY <3>1, <3>2
  <2>9. metas \in [DOMAIN metas -> Metas]
    BY <2>2
  <2> QED  BY <2>3, <2>5, <2>6, <2>7, <2>8, <2>9, Zenon DEF Counters
<1>2. Sound(pool, nextPage)
  <2>1. /\ pool = [frames |-> << >>, map |-> EmptyMap, hand |-> 0, store |-> EmptyMap, moved |-> FALSE]
        /\ nextPage = 1
    BY DEF Init, NewPool
  <2>2. DOMAIN EmptyMap = {} /\ EmptyMap \in Partial(Nat) /\ EmptyMap \in Files
    <3>1. DOMAIN EmptyMap = {}
      BY DEF EmptyMap
    <3>2. EmptyMap \in [{} -> Nat] /\ EmptyMap \in [{} -> Contents]
      BY DEF EmptyMap
    <3>3. {} \in SUBSET Nat
      OBVIOUS
    <3> QED  BY <3>1, <3>2, <3>3, PartialIs DEF Files
  <2>3. pool \in Pools
    <3>1. << >> \in Seq(Frames) /\ 0 \in Nat /\ FALSE \in BOOLEAN
      OBVIOUS
    <3> QED  BY <2>1, <2>2, <3>1 DEF Pools
  <2>4. Len(pool.frames) = 0 /\ DOMAIN pool.map = {} /\ DOMAIN pool.store = {} /\ ~ pool.moved
    BY <2>1, <2>2
  <2> QED  BY <2>3, <2>4 DEF Sound
<1>3. \E C : Pages(C)
  <2> DEFINE C == [t \in {} |-> {}]
  <2>1. DOMAIN metas = {}
    BY DEF Init
  <2>2. C \in [DOMAIN metas -> SUBSET (1..(nextPage - 1))]
    BY <2>1
  <2>3. Pages(C)
    BY <2>1, <2>2 DEF Pages
  <2> QED  BY <2>3
<1> QED  BY <1>1, <1>2, <1>3 DEF StoreInv, Init

\* A call that leaves every page as it was, and changes nothing but the pool.
LEMMA PoolOnly ==
  ASSUME StoreInv, Sound(pool', nextPage), AllSame(pool, pool'), refused' = refused,
         UNCHANGED <<metas, nextTable, nextPage, tried, kept, lost>>
  PROVE  StoreInv'
<1>1. Counters'
  BY DEF StoreInv, Counters
<1>2. PICK C : Pages(C)
  BY DEF StoreInv
<1>3. \A t \in DOMAIN metas : Table(pool', C[t], metas[t], kept[metas[t].tid], lost)
  <2> TAKE t \in DOMAIN metas
  <2>1. Table(pool, C[t], metas[t], kept[metas[t].tid], lost)
    BY <1>2 DEF Pages
  <2>2. \A a \in C[t] : OlderAt(pool, pool', a) /\ SameAt(pool, pool', a)
    BY DEF AllSame
  <2> QED  BY <2>1, <2>2, TableStays
<1>4. Pages(C)'
  BY <1>2, <1>3 DEF Pages
<1> QED  BY <1>1, <1>4 DEF StoreInv

LEMMA CreateKeeps == ASSUME StoreInv, NEW t \in Tables, CreateTable(t) PROVE StoreInv'
<1> DEFINE fresh == [tid |-> nextTable, first |-> 0, last |-> 0, count |-> 0]
           L == Len(kept)
<1>1. /\ t \notin DOMAIN metas /\ nextTable' = nextTable + 1 /\ kept' = Append(kept, << >>)
      /\ UNCHANGED <<pool, nextPage, tried, lost, refused>>
      /\ metas' = [u \in DOMAIN metas \cup {t} |-> IF u = t THEN fresh ELSE metas[u]]
  BY DEF CreateTable
<1>2. Counters /\ Sound(pool, nextPage) /\ ~ refused
  BY DEF StoreInv
<1>3. L \in Nat /\ nextTable = L + 1 /\ kept \in Seq(Seq(Rows))
  BY <1>2 DEF Counters
<1> HIDE DEF fresh
<1>4. /\ DOMAIN metas' = DOMAIN metas \cup {t} /\ metas'[t] = fresh
      /\ \A u \in DOMAIN metas : u # t /\ metas'[u] = metas[u]
  BY <1>1
<1>5. fresh \in Metas /\ fresh.tid = nextTable /\ fresh.first = 0 /\ fresh.last = 0 /\ fresh.count = 0
  BY <1>3 DEF fresh, Metas
<1>6. /\ kept' \in Seq(Seq(Rows)) /\ Len(kept') = L + 1 /\ kept'[L + 1] = << >>
      /\ \A i \in 1..L : kept'[i] = kept[i]
  <2>1. << >> \in Seq(Rows)
    OBVIOUS
  <2> QED  BY <1>1, <1>3, <2>1
<1>7. \A u \in DOMAIN metas : metas[u] \in Metas /\ metas[u].tid \in 1..L
  BY <1>2 DEF Counters
<1>8. ToSet(<< >>) = {}
  BY DEF ToSet
<1> HIDE DEF L
<1>9. Counters'
  <2>1. /\ nextPage' \in Nat \ {0} /\ nextTable' \in Nat \ {0} /\ tried' \in Nat
        /\ lost' \in BOOLEAN /\ refused' \in BOOLEAN
        /\ kept' \in Seq(Seq(Rows)) /\ nextTable' = Len(kept') + 1
    BY <1>1, <1>2, <1>3, <1>6 DEF Counters
  <2>2. \A i \in 1..(L + 1) : \A x \in ToSet(kept'[i]) : x.id <= tried'
    <3> TAKE i \in 1..(L + 1)
    <3>1. CASE i = L + 1
      BY <1>6, <1>8, <3>1
    <3>2. CASE i # L + 1
      <4>1. i \in 1..L
        BY <1>3, <3>2
      <4>2. \A x \in ToSet(kept[i]) : x.id <= tried
        BY <1>2, <4>1 DEF Counters, L
      <4> QED  BY <1>1, <1>6, <4>1, <4>2
    <3> QED  BY <3>1, <3>2
  <2>3. metas' \in [DOMAIN metas' -> Metas]
    <3>1. \A u \in DOMAIN metas \cup {t} : (IF u = t THEN fresh ELSE metas[u]) \in Metas
      BY <1>5, <1>7
    <3> QED  BY <1>1, <3>1
  <2>4. \A u \in DOMAIN metas' : metas'[u].tid \in 1..(L + 1)
    BY <1>3, <1>4, <1>5, <1>7
  <2>5. ASSUME NEW u \in DOMAIN metas', NEW w \in DOMAIN metas', u # w PROVE metas'[u].tid # metas'[w].tid
    <3>1. \A x \in DOMAIN metas : metas'[x].tid # fresh.tid
      BY <1>3, <1>4, <1>5, <1>7
    <3>2. CASE u \in DOMAIN metas /\ w \in DOMAIN metas
      BY <1>2, <1>4, <2>5, <3>2 DEF Counters
    <3>3. CASE u = t \/ w = t
      BY <1>4, <2>5, <3>1, <3>3
    <3> QED  BY <1>4, <3>2, <3>3
  <2> QED  BY <1>6, <2>1, <2>2, <2>3, <2>4, <2>5 DEF Counters
<1>10. PICK C : Pages(C)
  BY DEF StoreInv
<1>0. PICK D : D = [u \in DOMAIN metas' |-> IF u = t THEN {} ELSE C[u]]
  OBVIOUS
<1>11. C \in [DOMAIN metas -> SUBSET (1..(nextPage - 1))]
  BY <1>10 DEF Pages
<1>12. /\ D \in [DOMAIN metas' -> SUBSET (1..(nextPage' - 1))]
       /\ D[t] = {} /\ \A u \in DOMAIN metas : D[u] = C[u]
  <2>1. \A u \in DOMAIN metas' : (IF u = t THEN {} ELSE C[u]) \in SUBSET (1..(nextPage' - 1))
    BY <1>1, <1>4, <1>11
  <2> QED  BY <1>0, <1>4, <2>1
<1>13. ASSUME NEW u \in DOMAIN metas', NEW w \in DOMAIN metas', u # w PROVE D[u] \cap D[w] = {}
  <2>1. CASE u \in DOMAIN metas /\ w \in DOMAIN metas
    BY <1>10, <1>12, <1>13, <2>1 DEF Pages
  <2>2. CASE u = t \/ w = t
    BY <1>12, <2>2
  <2> QED  BY <1>4, <2>1, <2>2
<1>14. ASSUME NEW u \in DOMAIN metas' PROVE Table(pool', D[u], metas'[u], kept'[metas'[u].tid], lost')
  <2>1. CASE u = t
    <3>1. kept'[metas'[u].tid] = << >>
      BY <1>3, <1>4, <1>5, <1>6, <2>1
    <3>2. Fitting(<< >>) = {} /\ Len(<< >>) = 0
      BY <1>8 DEF Fitting
    <3>3. Ends(fresh, {}) /\ Chain(pool', {}, {}) /\ Complete(pool', {}, {})
      BY <1>5 DEF Ends, Chain, Complete
    <3>4. Table(pool', {}, fresh, << >>, lost')
      BY <1>5, <3>2, <3>3 DEF Table
    <3> QED  BY <1>4, <1>12, <2>1, <3>1, <3>4
  <2>2. CASE u \in DOMAIN metas
    <3>1. metas'[u] = metas[u] /\ kept'[metas[u].tid] = kept[metas[u].tid] /\ D[u] = C[u]
      BY <1>4, <1>6, <1>7, <1>12, <2>2
    <3>2. Table(pool, C[u], metas[u], kept[metas[u].tid], lost)
      BY <1>10, <2>2 DEF Pages
    <3> QED  BY <1>1, <3>1, <3>2
  <2> QED  BY <1>4, <2>1, <2>2
<1>15. Pages(D)'
  BY <1>12, <1>13, <1>14 DEF Pages
<1> QED  BY <1>1, <1>2, <1>9, <1>15 DEF StoreInv

LEMMA DropKeeps == ASSUME StoreInv, NEW t \in DOMAIN metas, DropTable(t) PROVE StoreInv'
<1>1. /\ metas' = [u \in DOMAIN metas \ {t} |-> metas[u]]
      /\ UNCHANGED <<pool, nextTable, nextPage, tried, kept, lost, refused>>
  BY DEF DropTable
<1>2. DOMAIN metas' \subseteq DOMAIN metas /\ \A u \in DOMAIN metas' : metas'[u] = metas[u]
  BY <1>1
<1>3. Counters'
  <2>1. \A u \in DOMAIN metas : metas[u] \in Metas
    BY DEF StoreInv, Counters
  <2>2. metas' \in [DOMAIN metas' -> Metas]
    BY <1>1, <2>1
  <2> QED  BY <1>1, <1>2, <2>2 DEF StoreInv, Counters
<1>4. PICK C : Pages(C)
  BY DEF StoreInv
<1>5. PICK D : D = [u \in DOMAIN metas' |-> C[u]]
  OBVIOUS
<1>6. \A u \in DOMAIN metas : C[u] \in SUBSET (1..(nextPage - 1))
  BY <1>4 DEF Pages
<1>7. D \in [DOMAIN metas' -> SUBSET (1..(nextPage' - 1))] /\ \A u \in DOMAIN metas' : D[u] = C[u]
  BY <1>1, <1>2, <1>5, <1>6
<1>8. \A u \in DOMAIN metas' : Table(pool', D[u], metas'[u], kept'[metas'[u].tid], lost')
  <2> TAKE u \in DOMAIN metas'
  <2>1. Table(pool, C[u], metas[u], kept[metas[u].tid], lost)
    BY <1>2, <1>4 DEF Pages
  <2> QED  BY <1>1, <1>2, <1>7, <2>1
<1>9. \A u, w \in DOMAIN metas' : u # w => D[u] \cap D[w] = {}
  BY <1>2, <1>4, <1>7 DEF Pages
<1>10. Pages(D)'
  BY <1>7, <1>8, <1>9 DEF Pages
<1> QED  BY <1>1, <1>3, <1>10 DEF StoreInv

LEMMA InsertKeeps ==
  ASSUME StoreInv, NEW t \in DOMAIN metas, NEW size \in Sizes, NEW fault, InsertRow(t, size, fault)
  PROVE  StoreInv'
<1> DEFINE row == [id |-> tried + 1, size |-> size]
           n == nextPage
           m == metas[t]
           rows == kept[m.tid]
           R == Fitting(rows)
<1>1. PICK r :
        /\ r = AppendRow(pool, m, row, n, fault)
        /\ pool' = r.p /\ nextPage' = r.next /\ WriteBackMeta(t, r)
        /\ kept' = IF r.ok THEN [kept EXCEPT ![m.tid] = Append(rows, row)] ELSE kept
        /\ lost' = (lost \/ (~ r.ok /\ fault # NoFault))
        /\ refused' = (refused \/ (~ r.ok /\ fault = NoFault /\ ~ lost))
        /\ tried' = tried + 1 /\ nextTable' = nextTable
  BY DEF InsertRow
<1>2. Counters /\ Sound(pool, n) /\ ~ refused
  BY DEF StoreInv
<1>3. PICK C : Pages(C)
  BY DEF StoreInv
<1>4. n \in Nat \ {0} /\ tried \in Nat /\ m \in Metas /\ m.tid \in 1..Len(kept) /\ kept \in Seq(Seq(Rows))
  BY <1>2 DEF Counters
<1>5. rows \in Seq(Rows)
  BY <1>4
<1>6. row \in Rows /\ row.id = tried + 1
  <2>1. size \in Nat
    BY SizesAssumption
  <2> QED  BY <1>4, <2>1 DEF Rows
<1>7. C[t] \in SUBSET (1..(n - 1)) /\ Table(pool, C[t], m, rows, lost)
  BY <1>3 DEF Pages
<1>8. \A x \in ToSet(rows) : x.id <= tried /\ x \in Rows
  <2>1. \A x \in ToSet(rows) : x \in Rows
    BY <1>5 DEF ToSet
  <2> QED  BY <1>2, <1>4, <2>1 DEF Counters
<1>9. \A x \in R : x.id < row.id
  <2>1. \A x \in R : x \in ToSet(rows)
    BY DEF Fitting
  <2>2. \A x \in Rows : x.id \in Nat
    BY DEF Rows
  <2> QED  BY <1>4, <1>6, <1>8, <2>1, <2>2
<1> HIDE DEF row, n, m, rows, R
<1>10. Ends(m, C[t]) /\ Chain(pool, C[t], R) /\ (~ lost => Complete(pool, C[t], R) /\ m.count = Len(rows))
  BY <1>7 DEF Table, R
<1>11. Appended(pool, m, C[t], R, row, n, fault, r)
  <2> DEFINE P == C[t]
  <2>1. P \in SUBSET (1..(n - 1)) /\ Ends(m, P) /\ Chain(pool, P, R)
    BY <1>7, <1>10
  <2> HIDE DEF P
  <2>2. Appended(pool, m, P, R, row, n, fault, AppendRow(pool, m, row, n, fault))
    BY <1>2, <1>4, <1>6, <1>9, <2>1, RowIsAppended
  <2> QED  BY <1>1, <2>2 DEF P
<1>12. /\ r.next \in Nat /\ n <= r.next /\ Sound(r.p, r.next) /\ r.ok \in BOOLEAN
       /\ \A a \in 1..(n - 1) : OlderAt(pool, r.p, a) \/ (r.ok /\ a \in C[t])
       /\ r.ok => \A a \in 1..(n - 1) : a \notin C[t] => SameAt(pool, r.p, a)
       /\ ~ r.ok /\ Complete(pool, C[t], R) => \E id \in Nat \ {0} : WriteFails(fault, id)
  BY <1>11 DEF Appended
\* Only a page that could not be written stops an insert.
<1>13. ~ r.ok => lost' /\ (lost \/ fault # NoFault)
  <2>1. ASSUME ~ r.ok, ~ lost PROVE fault # NoFault
    <3>1. PICK id \in Nat \ {0} : WriteFails(fault, id)
      BY <1>10, <1>12, <2>1
    <3> QED  BY <3>1 DEF WriteFails, NoFault
  <2> QED  BY <1>1, <2>1
<1>14. ~ refused'
  BY <1>1, <1>2, <1>13
<1>15. lost' \in BOOLEAN /\ refused' \in BOOLEAN
  BY <1>1
<1>16. nextPage' \in Nat \ {0} /\ n <= nextPage' /\ 1..(n - 1) \subseteq 1..(nextPage' - 1)
  <2> DEFINE x == nextPage'
  <2>1. x \in Nat /\ n <= x
    BY <1>1, <1>12
  <2> HIDE DEF x
  <2>2. x \in Nat \ {0}
    BY <1>4, <2>1
  <2>3. \A i \in 1..(n - 1) : i \in 1..(x - 1)
    BY <1>4, <2>1
  <2> QED  BY <2>1, <2>2, <2>3 DEF x
<1>17. Sound(pool', nextPage')
  BY <1>1, <1>12
<1>18. /\ DOMAIN metas' = DOMAIN metas /\ \A u \in DOMAIN metas : u # t => metas'[u] = metas[u]
       /\ metas'[t] = IF r.ok THEN r.meta ELSE m
  BY <1>1 DEF WriteBackMeta, m
<1>19. r.ok => r.meta \in Metas /\ r.meta.tid = m.tid
  BY <1>11 DEF Appended, Inserted
<1>20. \A u \in DOMAIN metas : metas'[u] \in Metas /\ metas'[u].tid = metas[u].tid
  <2>1. \A u \in DOMAIN metas : metas[u] \in Metas
    BY <1>2 DEF Counters
  <2> QED  BY <1>18, <1>19, <2>1 DEF m
<1>21. /\ kept' \in Seq(Seq(Rows)) /\ Len(kept') = Len(kept)
       /\ \A i \in 1..Len(kept) : i # m.tid => kept'[i] = kept[i]
       /\ kept'[m.tid] = IF r.ok THEN Append(rows, row) ELSE rows
  <2>1. Append(rows, row) \in Seq(Rows)
    BY <1>5, <1>6
  <2>2. CASE r.ok
    BY <1>1, <1>4, <2>1, <2>2
  <2>3. CASE ~ r.ok
    BY <1>1, <1>4, <2>3 DEF rows
  <2> QED  BY <2>2, <2>3
<1>22. /\ Fitting(Append(rows, row)) = R \cup New(row)
       /\ \A x : x \in ToSet(Append(rows, row)) <=> x \in ToSet(rows) \/ x = row
       /\ Len(Append(rows, row)) = Len(rows) + 1
  BY <1>5, <1>6, FittingIs DEF R
<1>23. Counters'
  <2>1. \A i \in 1..Len(kept) : \A x \in ToSet(kept'[i]) : x.id <= tried + 1
    <3>1. SUFFICES ASSUME NEW i \in 1..Len(kept), NEW x \in ToSet(kept'[i]) PROVE x.id <= tried + 1
      OBVIOUS
    <3>2. CASE x \in ToSet(kept[i])
      <4>1. x.id <= tried
        BY <1>2, <3>2 DEF Counters
      <4>2. x.id \in Nat
        <5>1. kept[i] \in Seq(Rows)
          BY <1>4
        <5>2. x \in Rows
          BY <3>2, <5>1 DEF ToSet
        <5> QED  BY <5>2 DEF Rows
      <4> QED  BY <1>4, <4>1, <4>2
    <3>3. CASE x = row
      BY <1>4, <1>6, <3>3
    <3>4. x \in ToSet(kept[i]) \/ x = row
      <4>1. CASE i = m.tid
        BY <1>21, <1>22, <3>1, <4>1 DEF rows
      <4>2. CASE i # m.tid
        BY <1>21, <3>1, <4>2
      <4> QED  BY <4>1, <4>2
    <3> QED  BY <3>2, <3>3, <3>4
  <2>2. metas' \in [DOMAIN metas' -> Metas]
    <3>1. metas' = [u \in DOMAIN metas' |-> metas'[u]]
      <4>1. metas = [u \in DOMAIN metas |-> metas[u]]
        BY <1>2 DEF Counters
      <4>2. metas' = metas \/ metas' = [metas EXCEPT ![t] = r.meta]
        BY <1>1 DEF WriteBackMeta
      <4> QED  BY <4>1, <4>2
    <3> QED  BY <1>18, <1>20, <3>1
  <2>3. /\ nextTable \in Nat \ {0} /\ nextTable = Len(kept) + 1
        /\ \A u \in DOMAIN metas : metas[u].tid \in 1..Len(kept)
        /\ \A u, w \in DOMAIN metas : u # w => metas[u].tid # metas[w].tid
    BY <1>2 DEF Counters
  <2>4. tried' \in Nat /\ nextTable' = nextTable /\ tried' = tried + 1
    BY <1>1, <1>4
  <2>5. \A u \in DOMAIN metas' : metas'[u].tid \in 1..Len(kept')
    BY <1>18, <1>20, <1>21, <2>3
  <2>6. \A u, w \in DOMAIN metas' : u # w => metas'[u].tid # metas'[w].tid
    BY <1>18, <1>20, <2>3
  <2>7. \A i \in 1..Len(kept') : \A x \in ToSet(kept'[i]) : x.id <= tried'
    BY <1>21, <2>1, <2>4
  <2> QED  BY <1>15, <1>16, <1>21, <2>2, <2>3, <2>4, <2>5, <2>6, <2>7 DEF Counters
<1>24. ASSUME NEW u \in DOMAIN metas, u # t
       PROVE  Table(pool', C[u], metas'[u], kept'[metas'[u].tid], lost')
  <2>1. Table(pool, C[u], metas[u], kept[metas[u].tid], lost)
    BY <1>3 DEF Pages
  <2>2. \A a \in C[u] : a \in 1..(n - 1) /\ a \notin C[t]
    BY <1>3, <1>24 DEF Pages, n
  <2>3. \A a \in C[u] : OlderAt(pool, pool', a)
    BY <1>1, <1>12, <2>2
  <2>4. ~ lost' => ~ lost /\ \A a \in C[u] : SameAt(pool, pool', a)
    BY <1>1, <1>12, <1>13, <2>2
  <2>5. metas'[u] = metas[u] /\ kept'[metas[u].tid] = kept[metas[u].tid]
    <3>1. metas[u].tid # m.tid /\ metas[u].tid \in 1..Len(kept)
      BY <1>2, <1>24 DEF Counters, m
    <3> QED  BY <1>18, <1>21, <1>24, <3>1
  <2>6. Table(pool', C[u], metas[u], kept[metas[u].tid], lost')
    BY <2>1, <2>3, <2>4, TableStays
  <2> QED  BY <2>5, <2>6
<1>25. PICK Q : /\ Q \in SUBSET (1..(nextPage' - 1)) /\ \A a \in Q : a \in C[t] \/ a >= n
                /\ Table(pool', Q, metas'[t], kept'[metas'[t].tid], lost')
  <2>1. CASE r.ok
    <3>1. PICK D \in SUBSET (1..(r.next - 1)) : Inserted(pool, m, C[t], R, row, n, r, D)
      BY <1>11, <2>1 DEF Appended
    <3>2. metas'[t] = r.meta /\ kept'[r.meta.tid] = Append(rows, row)
      BY <1>18, <1>19, <1>21, <2>1
    <3>3. /\ \A a \in D : a \in C[t] \/ a >= n
          /\ Ends(r.meta, D) /\ r.meta.count = m.count + 1
          /\ Chain(pool', D, Fitting(Append(rows, row)))
          /\ Complete(pool, C[t], R) => Complete(pool', D, Fitting(Append(rows, row)))
      BY <1>1, <1>22, <3>1 DEF Inserted
    <3>4. ~ lost' => Complete(pool', D, Fitting(Append(rows, row))) /\ r.meta.count = Len(Append(rows, row))
      BY <1>1, <1>10, <1>22, <3>3
    <3>5. Table(pool', D, r.meta, Append(rows, row), lost')
      BY <3>3, <3>4 DEF Table
    <3> QED  BY <1>1, <3>2, <3>3, <3>5
  <2>2. CASE ~ r.ok
    <3>1. \A a \in C[t] : OlderAt(pool, pool', a)
      BY <1>1, <1>7, <1>12, <2>2
    <3>2. lost'
      BY <1>13, <2>2
    <3>3. Table(pool', C[t], m, rows, lost')
      BY <1>7, <3>1, <3>2, TableStays
    <3>4. metas'[t] = m /\ kept'[m.tid] = rows
      BY <1>18, <1>21, <2>2
    <3> QED  BY <1>7, <1>16, <3>3, <3>4
  <2> QED  BY <2>1, <2>2
<1>26. PICK E : E = [u \in DOMAIN metas' |-> IF u = t THEN Q ELSE C[u]]
  OBVIOUS
<1>27. \A u \in DOMAIN metas : C[u] \in SUBSET (1..(n - 1))
  BY <1>3 DEF Pages, n
<1>28. /\ E \in [DOMAIN metas' -> SUBSET (1..(nextPage' - 1))]
       /\ E[t] = Q /\ \A u \in DOMAIN metas : u # t => E[u] = C[u]
  <2>1. \A u \in DOMAIN metas' : (IF u = t THEN Q ELSE C[u]) \in SUBSET (1..(nextPage' - 1))
    BY <1>16, <1>18, <1>25, <1>27
  <2> QED  BY <1>18, <1>26, <2>1
<1>29. \A u \in DOMAIN metas : u # t => Q \cap C[u] = {}
  <2> SUFFICES ASSUME NEW u \in DOMAIN metas, u # t, NEW a \in Q, a \in C[u] PROVE FALSE
    OBVIOUS
  <2>1. a \in 1..(n - 1)
    BY <1>27
  <2>2. ~ (a >= n)
    BY <1>4, <2>1
  <2>3. a \in C[t]
    BY <1>25, <2>2
  <2> QED  BY <1>3, <2>3 DEF Pages
<1>30. \A u, w \in DOMAIN metas' : u # w => E[u] \cap E[w] = {}
  <2> SUFFICES ASSUME NEW u \in DOMAIN metas, NEW w \in DOMAIN metas, u # w PROVE E[u] \cap E[w] = {}
    BY <1>18
  <2>1. CASE u # t /\ w # t
    BY <1>3, <1>28, <2>1 DEF Pages
  <2>2. CASE u = t \/ w = t
    BY <1>28, <1>29, <2>2
  <2> QED  BY <2>1, <2>2
<1>31. \A u \in DOMAIN metas' : Table(pool', E[u], metas'[u], kept'[metas'[u].tid], lost')
  BY <1>18, <1>24, <1>25, <1>28
<1>32. Pages(E)'
  BY <1>28, <1>30, <1>31 DEF Pages
<1> QED  BY <1>14, <1>17, <1>23, <1>32 DEF StoreInv

\* What a scan of a table does, for any number of pages.
LEMMA TableIsScanned ==
  ASSUME StoreInv, NEW t \in DOMAIN metas, NEW N \in Nat
  PROVE  LET s == Scan(pool, metas[t], N) IN
         /\ Sound(s.p, nextPage) /\ AllSame(pool, s.p) /\ s.ok \in BOOLEAN
         /\ InOrder(s.rows) /\ ToSet(s.rows) \subseteq Placed(t)
         /\ N >= nextPage /\ s.ok => s.at = 0
         /\ ~ lost => s.ok /\ metas[t].count = Len(kept[metas[t].tid])
         /\ ~ lost /\ N >= nextPage => Placed(t) \subseteq ToSet(s.rows)
<1> DEFINE R == Placed(t)
           s == Scan(pool, metas[t], N)
           n == nextPage
           m == metas[t]
<1>1. PICK C : Pages(C)
  BY DEF StoreInv
<1> DEFINE P == C[t]
<1>2. P \in SUBSET (1..(n - 1)) /\ Table(pool, P, m, kept[m.tid], lost)
  BY <1>1 DEF Pages
<1>3. R = Fitting(kept[m.tid])
  BY DEF Placed, Fitting
<1>4. n \in Nat /\ m \in Metas /\ Sound(pool, n)
  BY DEF StoreInv, Counters
<1>5. s = Scan(pool, m, N)
  OBVIOUS
<1> HIDE DEF R, P, n, m, s
<1>6. Ends(m, P) /\ Chain(pool, P, R) /\ (~ lost => Complete(pool, P, R) /\ m.count = Len(kept[m.tid]))
  BY <1>2, <1>3 DEF Table
<1>7. /\ Sound(s.p, n) /\ AllSame(pool, s.p) /\ s.ok \in BOOLEAN
      /\ InOrder(s.rows) /\ ToSet(s.rows) \subseteq R
      /\ N >= n /\ s.ok => s.at = 0
      /\ Complete(pool, P, R) => s.ok
      /\ Complete(pool, P, R) /\ N >= n => R \subseteq ToSet(s.rows)
  BY <1>2, <1>4, <1>5, <1>6, ChainIsScanned
<1> QED  BY <1>6, <1>7 DEF R, s, n, m

LEMMA ScanKeeps ==
  ASSUME StoreInv, NEW t \in DOMAIN metas, NEW N \in Nat, ScanRows(t, N)
  PROVE  StoreInv'
<1>1. PICK s : /\ s = Scan(pool, metas[t], N)
               /\ pool' = s.p /\ refused' = (refused \/ (~ s.ok /\ ~ lost))
               /\ UNCHANGED <<metas, nextTable, nextPage, tried, kept, lost>>
  BY DEF ScanRows
<1>2. Sound(s.p, nextPage) /\ AllSame(pool, s.p) /\ (~ lost => s.ok)
  BY <1>1, TableIsScanned
<1>3. refused \in BOOLEAN
  BY DEF StoreInv, Counters
<1>4. refused' = refused
  BY <1>1, <1>2, <1>3
<1> QED  BY <1>1, <1>2, <1>4, PoolOnly

LEMMA FlushKeeps == ASSUME StoreInv, NEW fault, Flush(fault) PROVE StoreInv'
<1>1. pool' = FlushAll(pool, fault).p /\ UNCHANGED <<metas, nextTable, nextPage, tried, kept, lost, refused>>
  BY DEF Flush
<1>2. Sound(pool, nextPage) /\ nextPage \in Nat
  BY DEF StoreInv, Counters
<1>3. Sound(pool', nextPage) /\ AllSame(pool, pool')
  BY <1>1, <1>2, FlushedIsSame
<1> QED  BY <1>1, <1>3, PoolOnly

LEMMA FlushTableKeeps ==
  ASSUME StoreInv, NEW t \in DOMAIN metas, NEW fault, FlushTable(t, fault)
  PROVE  StoreInv'
<1>1. PICK s : /\ s = Scan(pool, metas[t], nextPage)
               /\ pool' = IF s.ok THEN FlushAll(s.p, fault).p ELSE s.p
               /\ refused' = (refused \/ (~ s.ok /\ ~ lost))
               /\ UNCHANGED <<metas, nextTable, nextPage, tried, kept, lost>>
  BY DEF FlushTable
<1>2. nextPage \in Nat /\ refused \in BOOLEAN
  BY DEF StoreInv, Counters
<1>3. Sound(s.p, nextPage) /\ AllSame(pool, s.p) /\ (~ lost => s.ok)
  BY <1>1, <1>2, TableIsScanned
<1>4. refused' = refused
  BY <1>1, <1>2, <1>3
<1>5. Sound(pool', nextPage) /\ AllSame(pool, pool')
  <2>1. CASE s.ok
    <3> DEFINE q == s.p
    <3>1. Sound(q, nextPage) /\ pool' = FlushAll(q, fault).p
      BY <1>1, <1>3, <2>1
    <3> HIDE DEF q
    <3>2. Sound(pool', nextPage) /\ AllSame(q, pool')
      BY <1>2, <3>1, FlushedIsSame
    <3> QED  BY <1>3, <3>2, SameChains DEF q
  <2>2. CASE ~ s.ok
    BY <1>1, <1>3, <2>2
  <2> QED  BY <2>1, <2>2
<1> QED  BY <1>1, <1>4, <1>5, PoolOnly

LEMMA InvHolds == Spec => []StoreInv
<1>1. StoreInv /\ [Next]_vars => StoreInv'
  <2> SUFFICES ASSUME StoreInv, [Next]_vars PROVE StoreInv'
    OBVIOUS
  <2>1. ASSUME NEW t \in Tables, CreateTable(t) PROVE StoreInv'
    BY <2>1, CreateKeeps
  <2>2. ASSUME NEW t \in DOMAIN metas, DropTable(t) PROVE StoreInv'
    BY <2>2, DropKeeps
  <2>3. ASSUME NEW t \in DOMAIN metas, NEW size \in Sizes, NEW fault \in Faults, InsertRow(t, size, fault)
        PROVE  StoreInv'
    BY <2>3, InsertKeeps
  <2>4. ASSUME NEW t \in DOMAIN metas, NEW pages \in 1..nextPage, ScanRows(t, pages) PROVE StoreInv'
    <3>1. pages \in Nat
      OBVIOUS
    <3> QED  BY <2>4, <3>1, ScanKeeps
  <2>5. ASSUME NEW t \in DOMAIN metas, NEW fault \in Faults, FlushTable(t, fault) PROVE StoreInv'
    BY <2>5, FlushTableKeeps
  <2>6. ASSUME NEW fault \in Faults, Flush(fault) PROVE StoreInv'
    BY <2>6, FlushKeeps
  <2>7. CASE UNCHANGED vars
    BY <2>7 DEF vars, StoreInv, Counters, Pages
  <2> QED  BY <2>1, <2>2, <2>3, <2>4, <2>5, <2>6, <2>7 DEF Next
<1> QED  BY <1>1, InitHolds, PTL DEF Spec

----------------------------------------------------------------------------
(* Theorems.                                                               *)

\* Whatever was called, no page is pinned between two calls, and no eviction ever
\* moved a frame on which a pin was held: a FrameId in use always names its page.
THEOREM PinsAreReturned == Spec => []HandlesAreSafe
<1>1. StoreInv => HandlesAreSafe
  <2> SUFFICES ASSUME StoreInv PROVE HandlesAreSafe
    OBVIOUS
  <2>1. Sound(pool, nextPage)
    BY DEF StoreInv
  <2>2. DOMAIN pool.frames = 1..Len(pool.frames)
    BY <2>1, PoolFields DEF Sound
  <2> QED  BY <2>1, <2>2 DEF Sound, HandlesAreSafe, Idle
<1> QED  BY <1>1, InvHolds, PTL

\* As long as no page image was lost, a call fails only where a file call failed.
THEOREM OnlyFilesFail == Spec => []NeverRefused
<1>1. StoreInv => NeverRefused
  BY DEF StoreInv, NeverRefused
<1> QED  BY <1>1, InvHolds, PTL

\* Whatever was lost, a scan shows rows of its own table only, in order and none twice,
\* and comes to an end; it shows every row that fits a page if nothing was lost.
THEOREM ScansShowTheTable == Spec => []ScansAreFaithful
<1>1. StoreInv => ScansAreFaithful
  <2> SUFFICES ASSUME StoreInv, NEW t \in DOMAIN metas
               PROVE  /\ InOrder(Whole(t).rows)
                      /\ ToSet(Whole(t).rows) \subseteq Placed(t)
                      /\ Whole(t).ok => Whole(t).at = 0
                      /\ ~ lost => /\ Whole(t).ok
                                   /\ Placed(t) \subseteq ToSet(Whole(t).rows)
                                   /\ metas[t].count = Len(kept[metas[t].tid])
    BY DEF ScansAreFaithful
  <2>1. nextPage \in Nat /\ nextPage >= nextPage
    BY DEF StoreInv, Counters
  <2> QED  BY <2>1, TableIsScanned DEF Whole
<1> QED  BY <1>1, InvHolds, PTL

\* A pool over the files alone, once every frame is clean, is as good as the one in use.
LEMMA FilesAreEnough ==
  ASSUME NEW n \in Nat, NEW p, Sound(p, n), \A i \in 1..Len(p.frames) : ~ p.frames[i].dirty,
         NEW q, q = [NewPool EXCEPT !.store = p.store]
  PROVE  Sound(q, n) /\ AllSame(p, q)
<1>1. p \in Pools /\ p.store \in Files
  BY PoolFields DEF Sound
<1>2. q = [frames |-> << >>, map |-> EmptyMap, hand |-> 0, store |-> p.store, moved |-> FALSE]
  BY DEF NewPool
<1>3. DOMAIN EmptyMap = {} /\ EmptyMap \in Partial(Nat)
  <2>1. DOMAIN EmptyMap = {}
    BY DEF EmptyMap
  <2>2. EmptyMap \in [{} -> Nat]
    BY DEF EmptyMap
  <2>3. {} \in SUBSET Nat
    OBVIOUS
  <2> QED  BY <2>1, <2>2, <2>3, PartialIs
<1>4. q \in Pools
  <2>1. << >> \in Seq(Frames) /\ 0 \in Nat /\ FALSE \in BOOLEAN
    OBVIOUS
  <2> DEFINE f == << >>
             x == p.store
             e == EmptyMap
             z == FALSE
  <2>2. f \in Seq(Frames) /\ e \in Partial(Nat) /\ 0 \in Nat /\ x \in Files /\ z \in BOOLEAN
    BY <1>1, <1>3, <2>1
  <2>3. q = [frames |-> f, map |-> e, hand |-> 0, store |-> x, moved |-> z]
    BY <1>2
  <2> HIDE DEF f, x, e, z
  <2>4. q.frames \in Seq(Frames) /\ q.map \in Partial(Nat) /\ q.hand \in Nat /\ q.store \in Files /\ q.moved \in BOOLEAN
    BY <2>2, <2>3
  <2>5. q = [frames |-> q.frames, map |-> q.map, hand |-> q.hand, store |-> q.store, moved |-> q.moved]
    BY <2>3
  <2> QED  BY <2>4, <2>5 DEF Pools
<1>5. Len(q.frames) = 0 /\ DOMAIN q.map = {} /\ q.store = p.store /\ ~ q.moved
  BY <1>2, <1>3
<1>6. Sound(q, n)
  <2>1. DOMAIN p.store \subseteq 1..(n - 1)
    BY DEF Sound
  <2> QED  BY <1>4, <1>5, <2>1 DEF Sound
<1>7. \A id \in DOMAIN p.map : Readable(p.store, id) /\ p.store[id] = p.frames[p.map[id]].data
  <2> TAKE id \in DOMAIN p.map
  <2>1. PICK i \in 1..Len(p.frames) : i = p.map[id] /\ p.frames[i].page = id
    BY DEF Sound
  <2> QED  BY <2>1 DEF Sound
<1>8. AllSame(p, q)
  BY <1>5, <1>7 DEF AllSame, SameAt, OlderAt, Pinnable, Image, Versions
<1> QED  BY <1>6, <1>8

\* When no frame is dirty, the files hold all rows: nothing is left in the cache alone.
THEOREM FlushedIsDurable == Spec => []FlushedIsOnFile
<1>1. StoreInv => FlushedIsOnFile
  <2> SUFFICES ASSUME StoreInv, ~ lost, \A i \in DOMAIN pool.frames : ~ pool.frames[i].dirty, NEW t \in DOMAIN metas
               PROVE  LET rows == Scan([NewPool EXCEPT !.store = pool.store], metas[t], nextPage).rows
                      IN  InOrder(rows) /\ ToSet(rows) = Placed(t)
    BY DEF FlushedIsOnFile
  <2> DEFINE q == [NewPool EXCEPT !.store = pool.store]
             R == Placed(t)
             n == nextPage
             m == metas[t]
             rows == Scan(q, m, n).rows
  <2>1. n \in Nat /\ n >= n /\ m \in Metas /\ Sound(pool, n)
    BY DEF StoreInv, Counters
  <2>2. \A i \in 1..Len(pool.frames) : ~ pool.frames[i].dirty
    <3>1. DOMAIN pool.frames = 1..Len(pool.frames)
      BY <2>1, PoolFields DEF Sound
    <3> QED  BY <3>1
  <2>3. Sound(q, n) /\ AllSame(pool, q)
    BY <2>1, <2>2, FilesAreEnough
  <2>4. PICK C : Pages(C)
    BY DEF StoreInv
  <2> DEFINE P == C[t]
  <2>5. P \in SUBSET (1..(n - 1)) /\ Table(pool, P, m, kept[m.tid], lost)
    BY <2>4 DEF Pages
  <2>6. R = Fitting(kept[m.tid])
    BY DEF Placed, Fitting
  <2>7. Ends(m, P) /\ Chain(pool, P, R) /\ Complete(pool, P, R)
    BY <2>5, <2>6 DEF Table
  <2>8. rows = Scan(q, m, n).rows
    OBVIOUS
  <2> HIDE DEF q, R, n, m, P, rows
  <2>9. Chain(q, P, R) /\ Complete(q, P, R)
    BY <2>3, <2>7, ChainStays DEF AllSame
  <2>10. LET s == Scan(q, m, n) IN InOrder(s.rows) /\ ToSet(s.rows) \subseteq R /\ R \subseteq ToSet(s.rows)
    BY <2>1, <2>3, <2>5, <2>7, <2>9, ChainIsScanned
  <2>11. InOrder(rows) /\ ToSet(rows) = R
    BY <2>8, <2>10
  <2> QED  BY <2>11 DEF q, R, n, m, rows
<1> QED  BY <1>1, InvHolds, PTL
=============================================================================
