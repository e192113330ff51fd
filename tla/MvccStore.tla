----------------------------- MODULE MvccStore -----------------------------
(***************************************************************************)
(* The snapshot-isolated store of the kernel                               *)
(* (crates/qmind-kernel/src/mvcc.rs): version chains ordered by commit     *)
(* timestamp, transactions that buffer their writes, exclusive row locks   *)
(* taken without waiting, and first-committer-wins validation at commit.   *)
(*                                                                         *)
(* The store sits behind the database's mutex and each method takes        *)
(* `&mut self`, so a method is one atomic step; transactions interleave    *)
(* between methods.  The value a transaction writes is abstracted to the   *)
(* transaction's id.  Callers name only transactions that `begin` gave     *)
(* them, but may go on setting and locking when these have ended: the      *)
(* store does not look whether a transaction is in flight.                 *)
(***************************************************************************)
EXTENDS Integers, Sequences

CONSTANTS
  Keys,     \* row keys, which are also the lock resources
  MaxTxns,  \* bound: how many transactions begin
  Late      \* the transactions callers go on setting and locking for when they
            \* have ended; the SQL engine does so for none

ASSUME MaxTxnsAssumption == MaxTxns \in Nat

Txns == 0..(MaxTxns - 1)
NoTxn == -1

ASSUME LateAssumption == Late \subseteq Txns

VARIABLES
  data,       \* MvccStore.data: the chain of versions of each key
  pending,    \* the keys of MvccStore.pending: transactions in flight
  snap,       \* Pending.snap.read_ts, kept after the end for the properties
  writes,     \* the keys of Pending.writes, kept after the end likewise
  nextTxn,    \* TxnManager.next_txn
  active,     \* TxnManager.active
  watermark,  \* TxnManager.commit_watermark
  owner,      \* MvccStore.locks: the exclusive holder of each row key
  stray       \* history: transactions set or locked for after their end,
              \* until they end again

vars == <<data, pending, snap, writes, nextTxn, active, watermark, owner, stray>>

Version == [ts : Nat, by : Txns]

----------------------------------------------------------------------------
(* Reads.                                                                  *)

MutantUncommittedRead(chain, readTs) == DOMAIN chain

Covered(chain, readTs) == {i \in DOMAIN chain : chain[i].ts <= readTs}

\* get_raw: the last version of the chain that readTs covers.
Newest(chain, readTs) ==
  IF Covered(chain, readTs) = {} THEN NoTxn
  ELSE chain[CHOOSE i \in Covered(chain, readTs) :
               \A j \in Covered(chain, readTs) : j <= i].by

\* get: the transaction's own write first.
Read(t, k) ==
  IF t \in pending /\ k \in writes[t] THEN t ELSE Newest(data[k], snap[t])

----------------------------------------------------------------------------
(* The methods that change state.  A call that answers Busy or Conflict,   *)
(* and a commit that finds no pending entry, change nothing: they are      *)
(* stuttering steps.                                                       *)

Init ==
  /\ data = [k \in Keys |-> << >>]
  /\ pending = {}
  /\ snap = [t \in Txns |-> 0]
  /\ writes = [t \in Txns |-> {}]
  /\ nextTxn = 0
  /\ active = {}
  /\ watermark = 0
  /\ owner = [k \in Keys |-> NoTxn]
  /\ stray = {}

Begin ==
  /\ nextTxn < MaxTxns
  /\ nextTxn' = nextTxn + 1
  /\ active' = active \cup {nextTxn}
  /\ pending' = pending \cup {nextTxn}
  /\ snap' = [snap EXCEPT ![nextTxn] = watermark]
  /\ UNCHANGED <<data, writes, watermark, owner, stray>>

\* A caller names a transaction that begin gave out.
Callable(t) == t \in pending \/ (t < nextTxn /\ t \in Late)

MutantLockStolen(t, k) == owner' = [owner EXCEPT ![k] = t]

\* LockManager::try_lock for an exclusive lock, the only mode asked for.
TryLock(t, k) ==
  /\ owner[k] \in {NoTxn, t}
  /\ owner' = [owner EXCEPT ![k] = t]

MutantReleaseWritten(t) ==
  owner' = [k \in Keys |-> IF owner[k] = t /\ k \in writes[t] THEN NoTxn ELSE owner[k]]

\* LockManager::release_all; no request is ever queued here.
ReleaseAll(t) ==
  owner' = [k \in Keys |-> IF owner[k] = t THEN NoTxn ELSE owner[k]]

\* Whoever is not active has ended.
CalledFor(t) == stray' = IF t \in active THEN stray ELSE stray \cup {t}

\* The write joins the transaction's pending entry.
Buffer(t, k) ==
  /\ t \in pending
  /\ writes' = [writes EXCEPT ![t] = @ \cup {k}]
  /\ UNCHANGED <<pending, snap>>

\* or_insert_with: there is no entry, and one is made that reads the state
\* before the first commit.  The transaction manager is not told.
Revive(t, k) ==
  /\ t \notin pending
  /\ pending' = pending \cup {t}
  /\ snap' = [snap EXCEPT ![t] = 0]
  /\ writes' = [writes EXCEPT ![t] = {k}]

Set(t, k) ==
  /\ Callable(t)
  /\ TryLock(t, k)
  /\ Buffer(t, k) \/ Revive(t, k)
  /\ CalledFor(t)
  /\ UNCHANGED <<data, nextTxn, active, watermark>>

LockWrite(t, k) ==
  /\ Callable(t)
  /\ TryLock(t, k)
  /\ CalledFor(t)
  /\ UNCHANGED <<data, pending, snap, writes, nextTxn, active, watermark>>

LastTs(k) == IF data[k] = << >> THEN 0 ELSE data[k][Len(data[k])].ts

MutantConflictOnAll(t) == writes[t] # {} /\ \A k \in writes[t] : LastTs(k) > snap[t]

\* First-committer-wins: another commit published a key after the snapshot.
Conflict(t) == \E k \in writes[t] : LastTs(k) > snap[t]

Forget(t) ==
  /\ pending' = pending \ {t}
  /\ active' = active \ {t}
  /\ stray' = stray \ {t}
  /\ ReleaseAll(t)

\* finish_commit: timestamps follow the order of commits, not of ids.
CommitTs(t) == watermark + 1

\* commit with the sink answering Ok, or with nothing to log.
Commit(t) ==
  /\ t \in pending
  /\ ~ Conflict(t)
  /\ watermark' = watermark + 1
  /\ data' = [k \in Keys |->
                IF k \in writes[t]
                THEN Append(data[k], [ts |-> CommitTs(t), by |-> t])
                ELSE data[k]]
  /\ Forget(t)
  /\ UNCHANGED <<snap, writes, nextTxn>>

\* commit with the sink failing: the transaction is dropped, unpublished.
CommitLogFails(t) ==
  /\ t \in pending
  /\ ~ Conflict(t)
  /\ writes[t] # {}
  /\ Forget(t)
  /\ UNCHANGED <<data, snap, writes, nextTxn, watermark>>

\* abort asks for no entry: it also takes what a call after the end left.
Abort(t) ==
  /\ Callable(t)
  /\ Forget(t)
  /\ UNCHANGED <<data, snap, writes, nextTxn, watermark>>

MethodOf(t) ==
  \/ \E k \in Keys : Set(t, k) \/ LockWrite(t, k)
  \/ Commit(t) \/ CommitLogFails(t) \/ Abort(t)

Next == Begin \/ \E t \in Txns : MethodOf(t)

Spec == Init /\ [][Next]_vars

----------------------------------------------------------------------------
(* Properties.                                                             *)

\* The state keeps its shape.  An active transaction has its pending entry, and
\* an entry without an active transaction comes from a call after the end.
TypeOK ==
  /\ data \in [Keys -> Seq(Version)]
  /\ snap \in [Txns -> Nat]
  /\ writes \in [Txns -> SUBSET Keys]
  /\ nextTxn \in 0..MaxTxns
  /\ active \subseteq pending /\ pending \subseteq active \cup stray
  /\ stray \subseteq 0..(nextTxn - 1) /\ active \subseteq (0..(nextTxn - 1)) \ stray
  /\ watermark \in Nat
  /\ owner \in [Keys -> Txns \cup {NoTxn}]

\* Every chain ascends strictly in commit timestamp and ends at or below the
\* watermark: what lets get_raw take the first hit from the end and commit
\* look at the last version only (mvcc.rs:38-40, 156-163, 243-249).
ChainsAscend ==
  \A k \in Keys : \A i \in 1..Len(data[k]) :
    /\ data[k][i].ts <= watermark
    /\ \A j \in 1..(i - 1) : data[k][j].ts < data[k][i].ts

\* Two-phase locking: a buffered write is covered by the row's exclusive lock
\* until the transaction ends (mvcc.rs:99-106, 193-213).
WritesAreLocked ==
  \A t \in pending : \A k \in writes[t] : owner[k] = t

\* No lock outlives its transaction, whichever way it ended: commit, failed
\* log, abort (mvcc.rs:269-277, 287-298).  A lock without an active transaction
\* was taken by a call after its end (mvcc.rs:201-224).
LocksDieWithTxn ==
  \A k \in Keys : owner[k] # NoTxn => owner[k] \in active \cup stray

\* Strict two-phase locking, both halves.
StrictLocking == WritesAreLocked /\ LocksDieWithTxn

\* Repeated reads: what a transaction reads changes only by its own writes,
\* whatever the others commit or abort (docs/concepts/mvcc.rst, Rules 2, 4, 5).
ReadsHold ==
  \A t \in pending \cap pending' : \A k \in Keys :
    Read(t, k)' # Read(t, k) => writes'[t] # writes[t]

\* Reads of a running transaction are stable.
StableReads == [][ReadsHold]_vars

\* The history of committed states that the version chains stand for.
SI == INSTANCE SnapshotIsolation WITH
  history <- [i \in 1..(watermark + 1) |-> [k \in Keys |-> Newest(data[k], i - 1)]],
  start <- [t \in Txns |-> snap[t] + 1],
  buffer <- writes,
  phase <- [t \in Txns |-> IF t >= nextTxn THEN "idle"
                           ELSE IF t \in pending THEN "running" ELSE "done"]

\* Versions, timestamps and row locks implement snapshot isolation, first
\* committer wins (mvcc.rs:1-13, 99-106, 239-256; docs/concepts/mvcc.rst:21-40),
\* for callers that write on after the end too.
IsSnapshotIsolated == SI!Spec

\* The lock manager as the store drives it: no-wait exclusive requests only,
\* so its queues and its graph stay empty.
Locks == INSTANCE LockManager WITH
  Resources <- Keys, Modes <- {"X"}, Calls <- {"try_lock"},
  OneAtATime <- FALSE, VictimAborts <- FALSE, MaxTicket <- 0,
  holders <- [k \in Keys |-> [t \in Txns |-> IF owner[k] = t THEN "X" ELSE "none"]],
  queue <- [k \in Keys |-> {}],
  waitsFor <- [t \in Txns |-> {}],
  nodes <- {},
  live <- {t \in Txns : t >= nextTxn \/ t \in active},
  victims <- {}

\* What the store does to the row locks of transactions in flight is what the
\* lock manager allows: each only adds locks until it gives up all of them at
\* its end (mvcc.rs:99-106, 119-153 of lock.rs).
UsesLocksStrictly ==
  /\ Locks!Init
  /\ [][Locks!Next \/ \E t \in Txns \ active : MethodOf(t)]_(Locks!vars)
============================================================================
