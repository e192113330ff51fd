----------------------------- MODULE BufferPool -----------------------------
(***************************************************************************)
(* The page cache of crates/qmind-kernel/src/buffer.rs over the segment    *)
(* files of fs_store.rs.  A pool is a record                               *)
(*   frames   the resident pages; a FrameId is an index into this sequence *)
(*   map      page id -> FrameId                                           *)
(*   hand     the clock hand (counted from 0, as in the code)              *)
(*   store    page id -> page image in the segment files                   *)
(*   moved    history: an eviction relocated a frame that was pinned       *)
(* Each operator is one method and returns [p, ok, fid]: the pool after    *)
(* it, whether it answered Ok, and the frame it answered.  The methods run *)
(* under &mut self, so each is one step.                                   *)
(*                                                                         *)
(* fault names the page whose next write_page fails, and whether the bytes *)
(* of that page in the file are torn by it.                                *)
(***************************************************************************)
EXTENDS Integers, Sequences, FiniteSets

CONSTANTS
  Capacity,         \* frames the pool is asked to keep
  PagesPerSegment   \* page slots of one segment file

ASSUME CapacityAssumption == Capacity \in Nat \ {0}
ASSUME SegmentAssumption == PagesPerSegment \in Nat \ {0}

\* A page image is [next, rows]; TornPage stands for bytes whose checksum is wrong.
Blank == [next |-> 0, rows |-> << >>]
TornPage == [next |-> -1, rows |-> << >>]

NoFault == [page |-> 0, torn |-> FALSE]

EmptyMap == [i \in {} |-> 0]

NewPool == [frames |-> << >>, map |-> EmptyMap, hand |-> 0, store |-> EmptyMap, moved |-> FALSE]

Idle(f) == f.pins = 0

----------------------------------------------------------------------------
(* The segment files.                                                      *)

\* FilePageStore::contains compares the file's length: the slots in front of
\* a written page exist too, as holes.
StoreContains(s, id) ==
  \E j \in DOMAIN s : j >= id /\ j \div PagesPerSegment = id \div PagesPerSegment

\* read_page and PageHeader::decode: a hole or a torn page fails its checksum.
Readable(s, id) == id \in DOMAIN s /\ s[id] # TornPage

WriteFails(fault, id) == fault.page = id

\* write_page: the image is written over, in full or not at all, or torn.
StoreWrite(s, id, image, fault) ==
  IF ~ WriteFails(fault, id) THEN [j \in DOMAIN s \cup {id} |-> IF j = id THEN image ELSE s[j]]
  ELSE IF fault.torn THEN [j \in DOMAIN s \cup {id} |-> IF j = id THEN TornPage ELSE s[j]]
  ELSE s

----------------------------------------------------------------------------
(* Eviction.                                                               *)

\* The frame the sweep looks at in its k-th step, counted from 0.
SweepFrame(p, k) == ((p.hand + k) % Len(p.frames)) + 1

SweepSteps(p) == 0..(2 * Len(p.frames) - 1)

\* An idle frame survives the first lap if its reference bit is set, and loses
\* the bit then.
VictimSteps(p) ==
  {k \in SweepSteps(p) :
     LET f == p.frames[SweepFrame(p, k)] IN Idle(f) /\ (f.ref => k >= Len(p.frames))}

\* The state of the pool when the sweep stops before step k.
Swept(p, k) ==
  [p EXCEPT
     !.frames = [i \in DOMAIN p.frames |->
                   IF Idle(p.frames[i]) /\ \E j \in 0..(k - 1) : SweepFrame(p, j) = i
                   THEN [p.frames[i] EXCEPT !.ref = FALSE] ELSE p.frames[i]],
     !.hand = IF k = 0 THEN @ ELSE SweepFrame(p, k - 1)]

\* Vec::swap_remove: the last frame takes the place of the victim.
SwapRemoved(frames, v) ==
  [i \in 1..(Len(frames) - 1) |-> IF i = v THEN frames[Len(frames)] ELSE frames[i]]

MutantTailKeepsSlot(m, frames, v) ==
  [id \in DOMAIN m \ {frames[v].page} |-> m[id]]

\* The victim leaves the page table and the relocated frame is re-pointed.
Repointed(m, frames, v) ==
  [id \in DOMAIN m \ {frames[v].page} |->
     IF v < Len(frames) /\ id = frames[Len(frames)].page THEN v ELSE m[id]]

MutantCleanOnly(p, v, fault) ==
  [p |-> [p EXCEPT
            !.frames = SwapRemoved(p.frames, v),
            !.map = Repointed(p.map, p.frames, v),
            !.hand = IF Len(p.frames) = 1 THEN 0 ELSE @ % (Len(p.frames) - 1)],
   ok |-> TRUE, fid |-> 0]

\* A dirty victim is written back after it left the pool; if that fails, its
\* changes are nowhere, and the hand is not reduced.
Evicted(p, v, fault) ==
  LET f == p.frames[v]
      out == [p EXCEPT
                !.frames = SwapRemoved(p.frames, v),
                !.map = Repointed(p.map, p.frames, v),
                !.moved = @ \/ (v < Len(p.frames) /\ ~ Idle(p.frames[Len(p.frames)])),
                !.store = IF f.dirty THEN StoreWrite(@, f.page, f.data, fault) ELSE @] IN
  IF f.dirty /\ WriteFails(fault, f.page) THEN [p |-> out, ok |-> FALSE, fid |-> 0]
  ELSE [p |-> [out EXCEPT !.hand = IF Len(p.frames) = 1 THEN 0 ELSE @ % (Len(p.frames) - 1)],
        ok |-> TRUE, fid |-> 0]

\* make_room: one frame at most is evicted, even from a pool over its capacity.
MakeRoom(p, fault) ==
  IF Len(p.frames) < Capacity THEN [p |-> p, ok |-> TRUE, fid |-> 0]
  ELSE IF VictimSteps(p) = {}
       THEN [p |-> Swept(p, 2 * Len(p.frames)), ok |-> FALSE, fid |-> 0]
  ELSE LET k == CHOOSE j \in VictimSteps(p) : \A i \in VictimSteps(p) : j <= i
       IN Evicted(Swept(p, k), SweepFrame(p, k), fault)

----------------------------------------------------------------------------
(* The methods.                                                            *)

Frame(id, image, dirty) ==
  [page |-> id, pins |-> 1, ref |-> TRUE, dirty |-> dirty, data |-> image]

Pushed(p, f) ==
  [p |-> [p EXCEPT
            !.frames = Append(@, f),
            !.map = [id \in DOMAIN p.map \cup {f.page} |->
                       IF id = f.page THEN Len(p.frames) + 1 ELSE p.map[id]]],
   ok |-> TRUE, fid |-> Len(p.frames) + 1]

CreatePage(p, id, fault) ==
  IF id \in DOMAIN p.map \/ StoreContains(p.store, id) THEN [p |-> p, ok |-> FALSE, fid |-> 0]
  ELSE LET r == MakeRoom(p, fault) IN
       IF r.ok THEN Pushed(r.p, Frame(id, Blank, TRUE)) ELSE r

SetFrame(p, fid, f) == [p EXCEPT !.frames[fid] = f]

\* pin: a page that is not resident is loaded without making room for it.
Pin(p, id) ==
  IF id \in DOMAIN p.map
  THEN [p |-> SetFrame(p, p.map[id], [p.frames[p.map[id]] EXCEPT !.pins = @ + 1, !.ref = TRUE]),
        ok |-> TRUE, fid |-> p.map[id]]
  ELSE IF Readable(p.store, id) THEN Pushed(p, Frame(id, p.store[id], FALSE))
  ELSE [p |-> p, ok |-> FALSE, fid |-> 0]

MutantUnpinForgets(p, fid, dirty) ==
  SetFrame(p, fid, [p.frames[fid] EXCEPT !.pins = IF @ = 0 THEN 0 ELSE @ - 1, !.dirty = dirty])

Unpin(p, fid, dirty) ==
  SetFrame(p, fid, [p.frames[fid] EXCEPT !.pins = IF @ = 0 THEN 0 ELSE @ - 1, !.dirty = @ \/ dirty])

\* payload_mut, with the new image of the payload.
WritePayload(p, fid, image) ==
  SetFrame(p, fid, [p.frames[fid] EXCEPT !.data = image, !.dirty = TRUE])

\* flush_all writes the dirty frames in frame order and stops at the first
\* failure: the frames before it are clean, it and the others stay dirty.
FlushAll(p, fault) ==
  LET dirty == {i \in DOMAIN p.frames : p.frames[i].dirty}
      stops == {i \in dirty : WriteFails(fault, p.frames[i].page)}
      done == {i \in dirty : \A j \in stops : i < j}
      flushed == [p EXCEPT
        !.frames = [i \in DOMAIN @ |->
                      IF i \in done THEN [@[i] EXCEPT !.dirty = FALSE] ELSE @[i]],
        !.store = [id \in DOMAIN @ \cup {p.frames[i].page : i \in done} |->
                     IF \E i \in done : p.frames[i].page = id
                     THEN p.frames[CHOOSE i \in done : p.frames[i].page = id].data ELSE @[id]]]
  IN IF stops = {} THEN [p |-> flushed, ok |-> TRUE, fid |-> 0]
     ELSE [p |-> [flushed EXCEPT !.store = StoreWrite(@, fault.page, Blank, fault)],
           ok |-> FALSE, fid |-> 0]

\* The image a pin of the page would show; whether a pin would succeed.
Pinnable(p, id) == id \in DOMAIN p.map \/ Readable(p.store, id)
Image(p, id) == IF id \in DOMAIN p.map THEN p.frames[p.map[id]].data ELSE p.store[id]
============================================================================
