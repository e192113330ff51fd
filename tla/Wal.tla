-------------------------------- MODULE Wal --------------------------------
(***************************************************************************)
(* The write-ahead log of the kernel (crates/qmind-kernel/src/wal.rs): the *)
(* writer that encodes records into a group and emits the group with one   *)
(* write and one sync, the file under it, and the reader that replays it.  *)
(*                                                                         *)
(* The file is a sequence of frames.  A frame is a record or Torn, the     *)
(* leading part of a frame whose remaining bytes never reached the file.   *)
(* A record that is too long for the reader stands for any part of its     *)
(* frame that has the header: the reader looks no further.                 *)
(* A group takes two steps, so that a crash can fall between the write and *)
(* the sync; its caller waits for both (it holds the database's mutex).    *)
(***************************************************************************)
EXTENDS Integers, Sequences

CONSTANTS
  Faults,  \* what may go wrong: a subset of FaultKinds
  BigRows  \* keys of the rows whose Put record is longer than MAX_RECORD_BYTES

\* write: write_all fails before the first byte; partial: it fails later;
\* sync: the syncer fails; kill: the process dies and the operating system
\* keeps, for now, the bytes that no sync has covered.
FaultKinds == {"write", "partial", "sync", "kill"}

ASSUME FaultsAssumption == Faults \subseteq FaultKinds

VARIABLES
  file,        \* the frames of wal.log
  synced,      \* how many leading frames a sync has covered
  group,       \* WalWriter.pending
  nextLsn,     \* WalWriter.next_lsn
  durableLsn   \* WalWriter.durable_lsn

walVars == <<file, synced, group, nextLsn, durableLsn>>

Torn == [kind |-> "torn", txn |-> 0, key |-> 0]

BeginRec(t) == [kind |-> "begin", txn |-> t, key |-> 0]
PutRec(t, k) == [kind |-> "put", txn |-> t, key |-> k]
CommitRec(t) == [kind |-> "commit", txn |-> t, key |-> 0]
AbortRec(t) == [kind |-> "abort", txn |-> t, key |-> 0]

WalInit ==
  /\ file = << >> /\ synced = 0
  /\ group = << >> /\ nextLsn = 1 /\ durableLsn = 0

----------------------------------------------------------------------------
(* The writer.                                                             *)

\* append, once for each record.
AppendAll(recs) ==
  /\ group' = group \o recs
  /\ nextLsn' = nextLsn + Len(recs)
  /\ UNCHANGED <<file, synced, durableLsn>>

\* commit_group: sink.write_all and flush succeed.
WriteGroup ==
  /\ file' = file \o group
  /\ UNCHANGED <<synced, group, nextLsn, durableLsn>>

\* What write_all may leave behind when it fails.  The group stays pending.
WriteGroupFails ==
  /\ \E n \in 0..(Len(group) - 1), rest \in {<< >>, <<Torn>>} :
       /\ IF n = 0 /\ rest = << >> THEN "write" \in Faults ELSE "partial" \in Faults
       /\ file' = file \o SubSeq(group, 1, n) \o rest
  /\ UNCHANGED <<synced, group, nextLsn, durableLsn>>

MutantNoSyncer ==
  /\ group' = << >>
  /\ durableLsn' = nextLsn - 1
  /\ UNCHANGED <<file, synced, nextLsn>>

\* commit_group: the syncer succeeds, and only now is the group forgotten.
SyncGroup ==
  /\ synced' = Len(file)
  /\ group' = << >>
  /\ durableLsn' = nextLsn - 1
  /\ UNCHANGED <<file, nextLsn>>

\* The syncer fails.  The bytes are in the file and the group stays pending.
SyncGroupFails ==
  /\ "sync" \in Faults
  /\ UNCHANGED walVars

\* The writer is dropped, with what it had not written.
DropWriter ==
  /\ group' = << >>
  /\ UNCHANGED <<nextLsn, durableLsn>>

\* A crash keeps the synced frames and any leading part of the others.  What
\* is left after a power failure is on the disk; after a kill it may not be.
LoseTail ==
  /\ \E n \in synced..Len(file) :
     \E rest \in {<< >>} \cup (IF n < Len(file) THEN {<<Torn>>} ELSE {}) :
       /\ file' = SubSeq(file, 1, n) \o rest
       /\ synced' \in {n + Len(rest)} \cup (IF "kill" \in Faults THEN {synced} ELSE {})
  /\ DropWriter

----------------------------------------------------------------------------
(* The reader.                                                             *)

TornPlaces(frames) == {i \in DOMAIN frames : frames[i] = Torn}

\* WalReader::replay: the complete frames before the first torn one.
CleanPrefix(frames) ==
  IF TornPlaces(frames) = {} THEN frames
  ELSE SubSeq(frames, 1, (CHOOSE i \in TornPlaces(frames) :
                            \A j \in TornPlaces(frames) : i <= j) - 1)

\* A torn frame with bytes after it: its length and checksum are read across
\* those bytes.  Either they do not match (WalCorrupt), or the length points
\* past the end of the file and everything from there on looks like a tear.
TornInside(frames) == \E i \in TornPlaces(frames) : i < Len(frames)

\* replay takes a frame longer than MAX_RECORD_BYTES for corruption; append
\* does not look at the length.
TooLong(rec) == rec.kind = "put" /\ rec.key \in BigRows
MeetsTooLong(frames) == \E i \in DOMAIN CleanPrefix(frames) : TooLong(frames[i])

MutantNoResume(frames) ==
  /\ file' = frames
  /\ synced' = IF frames = file THEN synced ELSE Len(frames)
  /\ group' = << >>
  /\ nextLsn' = 1
  /\ durableLsn' = 0

\* open_db: truncate a torn tail and sync it, then resume past the records.
Reopen(frames) ==
  /\ file' = frames
  /\ synced' = IF frames = file THEN synced ELSE Len(frames)
  /\ group' = << >>
  /\ nextLsn' = Len(frames) + 1
  /\ durableLsn' = Len(frames)
============================================================================
