-------------------------- MODULE MvccStoreProofs --------------------------
(***************************************************************************)
(* Theorems about the versioned store, for any row keys and any number of  *)
(* transactions.                                                           *)
(***************************************************************************)
EXTENDS MvccStore, SequenceTheorems, NumberLemmas, TLAPS

----------------------------------------------------------------------------
(* Type correctness.                                                       *)

\* Each method keeps the shape of the state.
LEMMA TypeStep == TypeOK /\ [Next]_vars => TypeOK'
<1> SUFFICES ASSUME TypeOK, [Next]_vars PROVE TypeOK'
  OBVIOUS
<1> USE MaxTxnsAssumption DEF TypeOK, Txns, NoTxn
<1>1. CASE Begin
  BY <1>1 DEF Begin
<1>2. ASSUME NEW t \in Txns, NEW k \in Keys, Set(t, k) \/ LockWrite(t, k)
      PROVE  TypeOK'
  <2>1. owner' \in [Keys -> Txns \cup {NoTxn}]
    BY <1>2 DEF Set, LockWrite, TryLock
  <2>2. writes' \in [Txns -> SUBSET Keys] /\ snap' \in [Txns -> Nat]
    BY <1>2 DEF Set, LockWrite, Buffer, Revive
  <2>3. t \in 0..(nextTxn - 1) /\ UNCHANGED <<data, nextTxn, active, watermark>>
    BY <1>2 DEF Set, LockWrite, Callable
  <2>4. /\ pending' \subseteq active \cup stray' /\ pending \subseteq pending'
        /\ stray' \subseteq stray \cup ({t} \ active)
    BY <1>2 DEF Set, LockWrite, Buffer, Revive, CalledFor
  <2> QED  BY <2>1, <2>2, <2>3, <2>4
<1>3. ASSUME NEW t \in Txns, Forget(t), UNCHANGED <<snap, writes, nextTxn>>,
             watermark' \in Nat, data' \in [Keys -> Seq(Version)]
      PROVE  TypeOK'
  BY <1>3 DEF Forget, ReleaseAll
<1>4. ASSUME NEW t \in Txns, Commit(t)
      PROVE  TypeOK'
  <2>1. [ts |-> watermark + 1, by |-> t] \in Version
    BY DEF Version
  <2>2. data' \in [Keys -> Seq(Version)]
    BY <1>4, <2>1 DEF Commit, CommitTs
  <2> QED  BY <1>3, <1>4, <2>2 DEF Commit, CommitTs
<1>5. ASSUME NEW t \in Txns, CommitLogFails(t) \/ Abort(t)
      PROVE  TypeOK'
  BY <1>3, <1>5 DEF CommitLogFails, Abort
<1>6. CASE UNCHANGED vars
  BY <1>6 DEF vars
<1> QED  BY <1>1, <1>2, <1>4, <1>5, <1>6 DEF Next, MethodOf

\* Whoever has a pending entry has begun.
LEMMA PendingBegan ==
  ASSUME TypeOK
  PROVE  \A t \in pending : t \in Txns /\ t < nextTxn /\ t # nextTxn
<1>1. \A t \in active \cup stray : t \in 0..(nextTxn - 1) /\ nextTxn <= MaxTxns
  BY MaxTxnsAssumption DEF TypeOK
<1>2. pending \subseteq active \cup stray /\ nextTxn \in Int
  BY MaxTxnsAssumption DEF TypeOK
<1> QED  BY <1>1, <1>2, MaxTxnsAssumption DEF Txns

\* The store keeps its shape whatever methods are called.
THEOREM TypeCorrect == Spec => []TypeOK
<1>1. Init => TypeOK
  BY MaxTxnsAssumption DEF Init, TypeOK, Txns, NoTxn
<1> QED  BY <1>1, TypeStep, PTL DEF Spec

----------------------------------------------------------------------------
(* Row locks.                                                              *)

\* A buffered write is under its row lock, every lock has an owner that is in
\* flight or was called for, and nobody has written who has not begun.
LockInv == WritesAreLocked /\ LocksDieWithTxn /\ \A t \in Txns : t >= nextTxn => writes[t] = {}

\* A write that joins or makes a pending entry is under its row lock.
LEMMA CallsAreLocked ==
  ASSUME TypeOK, WritesAreLocked, NEW t \in Txns, NEW k \in Keys, Set(t, k) \/ LockWrite(t, k)
  PROVE  WritesAreLocked'
<1>1. /\ owner[k] \in {NoTxn, t} /\ owner' = [owner EXCEPT ![k] = t]
      /\ owner \in [Keys -> Txns \cup {NoTxn}] /\ writes \in [Txns -> SUBSET Keys]
  BY DEF Set, LockWrite, TryLock, TypeOK
<1>2. \A u \in pending : u \in Txns /\ u # NoTxn
  BY PendingBegan DEF Txns, NoTxn
<1>3. ASSUME NEW u \in pending, NEW l \in writes[u]
      PROVE  l \in Keys /\ owner'[l] = u
  <2>1. l \in Keys /\ owner[l] = u
    BY <1>1, <1>2, <1>3 DEF WritesAreLocked
  <2> QED  BY <1>1, <1>2, <2>1
<1>4. owner'[k] = t
  BY <1>1
<1>5. CASE LockWrite(t, k)
  BY <1>3, <1>5 DEF LockWrite, WritesAreLocked
<1>6. CASE Buffer(t, k)
  <2>1. \A u \in pending' : u \in pending /\ (u # t => writes'[u] = writes[u])
    BY <1>1, <1>2, <1>6 DEF Buffer
  <2>2. writes'[t] = writes[t] \cup {k}
    BY <1>1, <1>6 DEF Buffer
  <2> QED  BY <1>3, <1>4, <2>1, <2>2 DEF WritesAreLocked
<1>7. CASE Revive(t, k)
  <2>1. \A u \in pending' : u = t \/ (u \in pending /\ writes'[u] = writes[u])
    BY <1>1, <1>2, <1>7 DEF Revive
  <2>2. writes'[t] = {k}
    BY <1>1, <1>7 DEF Revive
  <2> QED  BY <1>3, <1>4, <2>1, <2>2 DEF WritesAreLocked
<1> QED  BY <1>5, <1>6, <1>7 DEF Set

\* Each method keeps the locking discipline.
LEMMA LockStep == TypeOK /\ LockInv /\ [Next]_vars => LockInv'
<1> SUFFICES ASSUME TypeOK, LockInv, [Next]_vars PROVE LockInv'
  OBVIOUS
<1> USE MaxTxnsAssumption DEF TypeOK, Txns, NoTxn, LockInv, WritesAreLocked, LocksDieWithTxn
<1>1. CASE Begin
  BY <1>1 DEF Begin
<1>2. ASSUME NEW t \in Txns, NEW k \in Keys, Set(t, k) \/ LockWrite(t, k)
      PROVE  LockInv'
  <2>1. /\ owner[k] \in {NoTxn, t} /\ owner' = [owner EXCEPT ![k] = t]
        /\ t < nextTxn /\ UNCHANGED <<active, nextTxn>>
    BY <1>2 DEF Set, LockWrite, TryLock, Callable
  <2>2. stray \subseteq stray' /\ t \in active \cup stray'
    BY <1>2 DEF Set, LockWrite, CalledFor
  <2>4. WritesAreLocked'
    BY <1>2, CallsAreLocked
  <2>5. \A u \in Txns : u >= nextTxn' => writes'[u] = {}
    BY <1>2, <2>1 DEF Set, LockWrite, Buffer, Revive
  <2> QED  BY <2>1, <2>2, <2>4, <2>5
<1>4. ASSUME NEW t \in Txns, Commit(t) \/ CommitLogFails(t) \/ Abort(t)
      PROVE  LockInv'
  <2>1. Forget(t) /\ UNCHANGED <<writes, nextTxn>>
    BY <1>4 DEF Commit, CommitTs, CommitLogFails, Abort
  <2> QED  BY <2>1 DEF Forget, ReleaseAll
<1>5. CASE UNCHANGED vars
  BY <1>5 DEF vars
<1> QED  BY <1>1, <1>2, <1>4, <1>5 DEF Next, MethodOf

\* Strict two-phase locking: writes are covered by locks, and locks end with
\* their transaction, unless they were asked for after its end.
THEOREM StrictTwoPhase == Spec => []StrictLocking
<1>1. Init => LockInv
  BY DEF Init, LockInv, WritesAreLocked, LocksDieWithTxn
<1>2. LockInv => StrictLocking
  BY DEF LockInv, StrictLocking
<1> QED  BY <1>1, <1>2, LockStep, TypeCorrect, PTL DEF Spec

----------------------------------------------------------------------------
(* Versions.                                                               *)

\* Chains ascend, and no snapshot is ahead of the watermark.
ChainInv == ChainsAscend /\ \A t \in Txns : snap[t] <= watermark

\* The elements of a chain are versions.
LEMMA VersionShape ==
  ASSUME TypeOK, NEW k \in Keys
  PROVE  /\ data[k] \in Seq(Version) /\ Len(data[k]) \in Nat
         /\ \A i \in 1..Len(data[k]) :
              /\ data[k][i] \in Version
              /\ data[k][i].ts \in Nat /\ data[k][i].by \in Txns /\ data[k][i].by \in Int
<1>1. data[k] \in Seq(Version)
  BY DEF TypeOK
<1>2. \A i \in 1..Len(data[k]) : data[k][i] \in Version
  BY <1>1
<1>3. \A v \in Version : v.ts \in Nat /\ v.by \in Txns /\ v.by \in Int
  BY MaxTxnsAssumption DEF Version, Txns
<1> QED  BY <1>1, <1>2, <1>3

\* A commit that passes validation finds no version of its keys newer than
\* its snapshot, and puts one in front of the others.
LEMMA CommitAppends ==
  ASSUME TypeOK, ChainInv, NEW t \in Txns, Commit(t), NEW k \in Keys
  PROVE  /\ k \in writes[t] =>
              /\ \A i \in 1..Len(data[k]) : data[k][i].ts <= snap[t]
              /\ Len(data'[k]) = Len(data[k]) + 1
              /\ data'[k][Len(data[k]) + 1] = [ts |-> watermark + 1, by |-> t]
              /\ \A i \in 1..Len(data[k]) : data'[k][i] = data[k][i]
         /\ k \notin writes[t] => data'[k] = data[k]
<1>1. CASE k \in writes[t]
  <2> DEFINE new == [ts |-> watermark + 1, by |-> t]
  <2>1. data[k] \in Seq(Version) /\ new \in Version
    <3>1. data[k] \in Seq(Version)
      BY VersionShape
    <3>2. watermark + 1 \in Nat
      BY DEF TypeOK
    <3> QED  BY <3>1, <3>2 DEF Version
  <2>2. data'[k] = Append(data[k], new)
    BY <1>1 DEF Commit, CommitTs
  <2>3. ~ LastTs(k) > snap[t] /\ snap[t] \in Int
    BY <1>1 DEF Commit, CommitTs, Conflict, TypeOK
  <2>4. ASSUME NEW i \in 1..Len(data[k])  PROVE data[k][i].ts <= snap[t]
    <3>1. data[k] # << >> /\ Len(data[k]) \in 1..Len(data[k])
      BY <2>4, VersionShape, EmptySeq
    <3>2. LastTs(k) = data[k][Len(data[k])].ts
      BY <3>1 DEF LastTs
    <3>3. data[k][i].ts \in Int /\ LastTs(k) \in Int
      BY <2>4, <3>1, <3>2, VersionShape
    <3>4. data[k][i].ts <= LastTs(k)
      BY <2>4, <3>1, <3>2, <3>3 DEF ChainInv, ChainsAscend
    <3> QED  BY <2>3, <3>3, <3>4
  <2> HIDE DEF new
  <2>5. /\ Len(data'[k]) = Len(data[k]) + 1
        /\ data'[k][Len(data[k]) + 1] = new
        /\ \A i \in 1..Len(data[k]) : data'[k][i] = data[k][i]
    BY <2>1, <2>2, AppendProperties
  <2> QED  BY <1>1, <2>4, <2>5 DEF new
<1>2. CASE k \notin writes[t]
  BY <1>2 DEF Commit, CommitTs
<1> QED  BY <1>1, <1>2

\* Each method keeps the chains in order.
LEMMA ChainStep == TypeOK /\ ChainInv /\ [Next]_vars => ChainInv'
<1> SUFFICES ASSUME TypeOK, ChainInv, [Next]_vars PROVE ChainInv'
  OBVIOUS
<1>1. CASE UNCHANGED <<data, watermark>> /\ \A t \in Txns : snap'[t] \in {snap[t], 0, watermark}
  BY <1>1 DEF TypeOK, ChainInv, ChainsAscend
<1>2. CASE Begin
  BY <1>1, <1>2 DEF Begin, TypeOK
<1>3. CASE \E t \in Txns, k \in Keys : Set(t, k) \/ LockWrite(t, k)
  BY <1>1, <1>3 DEF Set, LockWrite, Buffer, Revive, TypeOK
<1>4. ASSUME NEW t \in Txns, Commit(t)
      PROVE  ChainInv'
  <2>1. watermark' = watermark + 1 /\ UNCHANGED snap
    BY <1>4 DEF Commit, CommitTs
  <2>2. ASSUME NEW k \in Keys, NEW i \in 1..Len(data'[k])
        PROVE  /\ data'[k][i].ts <= watermark'
               /\ \A j \in 1..(i - 1) : data'[k][j].ts < data'[k][i].ts
    <3>0. /\ k \in writes[t] =>
               /\ Len(data'[k]) = Len(data[k]) + 1
               /\ data'[k][Len(data[k]) + 1] = [ts |-> watermark + 1, by |-> t]
               /\ \A j \in 1..Len(data[k]) : data'[k][j] = data[k][j]
          /\ k \notin writes[t] => data'[k] = data[k]
      BY <1>4, CommitAppends
    <3>1. /\ Len(data[k]) \in Nat /\ watermark \in Int /\ i \in Int
          /\ \A j \in 1..Len(data[k]) : data[k][j].ts \in Int
      <4>1. watermark \in Int
        BY DEF TypeOK
      <4> QED  BY <4>1, VersionShape
    <3>2. \A j \in 1..Len(data[k]) :
             /\ data[k][j].ts <= watermark
             /\ \A m \in 1..(j - 1) : data[k][m].ts < data[k][j].ts
      BY DEF ChainInv, ChainsAscend
    <3>3. CASE i <= Len(data[k])
      <4>1. i \in 1..Len(data[k]) /\ \A j \in 1..i : data'[k][j] = data[k][j]
        BY <3>0, <3>1, <3>3, <2>2
      <4>2. data[k][i].ts <= watermark'
        BY <4>1, <3>1, <3>2, <2>1
      <4>3. ASSUME NEW j \in 1..(i - 1)  PROVE data'[k][j].ts < data'[k][i].ts
        <5>1. j \in 1..i /\ i \in 1..i
          BY <3>1, <4>1
        <5> QED  BY <3>2, <4>1, <5>1
      <4>4. i \in 1..i
        BY <3>1, <4>1
      <4> QED  BY <4>1, <4>2, <4>3, <4>4
    <3>4. CASE k \in writes[t] /\ i = Len(data[k]) + 1
      <4>1. /\ data'[k][i] = [ts |-> watermark + 1, by |-> t]
            /\ \A j \in 1..(i - 1) : data'[k][j] = data[k][j] /\ data[k][j].ts <= watermark
        BY <3>0, <3>1, <3>2, <3>4
      <4>2. \A j \in 1..(i - 1) : data'[k][j].ts < watermark + 1
        BY <4>1, <3>1, <3>4
      <4> QED  BY <4>1, <4>2, <2>1, <3>1
    <3> QED  BY <2>2, <3>0, <3>1, <3>3, <3>4
  <2>3. \A u \in Txns : snap'[u] <= watermark'
    BY <2>1 DEF TypeOK, ChainInv
  <2> QED  BY <2>2, <2>3 DEF ChainInv, ChainsAscend
<1>5. CASE \E t \in Txns : CommitLogFails(t) \/ Abort(t)
  BY <1>1, <1>5 DEF CommitLogFails, Abort
<1>6. CASE UNCHANGED vars
  BY <1>1, <1>6 DEF vars
<1> QED  BY <1>2, <1>3, <1>4, <1>5, <1>6 DEF Next, MethodOf

\* Version chains ascend with the commit order.
THEOREM ChainsStayOrdered == Spec => []ChainsAscend
<1>1. Init => ChainInv
  BY DEF Init, ChainInv, ChainsAscend
<1>2. ChainInv => ChainsAscend
  BY DEF ChainInv
<1> QED  BY <1>1, <1>2, ChainStep, TypeCorrect, PTL DEF Spec

----------------------------------------------------------------------------
(* Refinement of the lock manager.                                         *)

\* The row locks of transactions in flight follow the lock manager's
\* specification.
THEOREM StoreUsesLocksStrictly == Spec => UsesLocksStrictly
<1> USE DEF Txns, NoTxn
<1>1. Init => Locks!Init
  BY MaxTxnsAssumption DEF Init, Locks!Init
<1> DEFINE Ended == \E t \in Txns \ active : MethodOf(t)
<1>2. TypeOK /\ TypeOK' /\ [Next]_vars => [Locks!Next \/ Ended]_(Locks!vars)
  <2> SUFFICES ASSUME TypeOK, TypeOK', [Next]_vars, ~ Ended
               PROVE  Locks!Next \/ UNCHANGED Locks!vars
    OBVIOUS
  <2>a. \A t \in Txns : MethodOf(t) => t \in active
    OBVIOUS
  <2> HIDE DEF Ended
  <2> USE DEF TypeOK
  <2>1. ASSUME UNCHANGED <<owner>>, {t \in Txns : t >= nextTxn \/ t \in active}'
                                    = {t \in Txns : t >= nextTxn \/ t \in active}
        PROVE  UNCHANGED Locks!vars
    BY <2>1 DEF Locks!vars
  <2>2. CASE Begin
    <3>1. {t \in Txns : t >= nextTxn \/ t \in active}'
             = {t \in Txns : t >= nextTxn \/ t \in active}
      BY <2>2, MaxTxnsAssumption DEF Begin
    <3> QED  BY <2>1, <2>2, <3>1 DEF Begin
  <2> DEFINE held(k) == [t \in Txns |-> IF owner[k] = t THEN "X" ELSE "none"]
  <2>3. ASSUME NEW t \in Txns, NEW k \in Keys, Set(t, k) \/ LockWrite(t, k)
        PROVE  Locks!Next \/ UNCHANGED Locks!vars
    <3>1. /\ t \in active /\ owner[k] \in {NoTxn, t}
          /\ owner' = [owner EXCEPT ![k] = t] /\ UNCHANGED <<nextTxn, active>>
      BY <2>a, <2>3 DEF MethodOf, Set, LockWrite, TryLock
    <3>2. CASE owner[k] = t
      <4>1. UNCHANGED owner
        BY <3>1, <3>2
      <4> QED  BY <2>1, <3>1, <4>1
    <3>3. CASE owner[k] = NoTxn
      <4>1. /\ ~ Locks!Sufficient(held(k), t, "X")
            /\ Locks!HoldersOf(held(k)) = {}
        BY <3>3 DEF Locks!Sufficient, Locks!HoldersOf
      <4>2. Locks!GrantedAtOnce(held(k), {}, t, "X")
        BY <4>1 DEF Locks!GrantedAtOnce, Locks!Compatible
      <4>3. [r \in Keys |-> [u \in Txns |-> IF owner[r] = u THEN "X" ELSE "none"]]'
              = [[r \in Keys |-> [u \in Txns |-> IF owner[r] = u THEN "X" ELSE "none"]]
                   EXCEPT ![k][t] = "X"]
        <5>1. \A r \in Keys : owner'[r] = IF r = k THEN t ELSE owner[r]
          BY <3>1
        <5>2. \A u \in Txns : owner[k] # u
          BY <3>3
        <5> HIDE DEF Txns, NoTxn, TypeOK
        <5>3. [u \in Txns |-> IF t = u THEN "X" ELSE "none"]
                = [[u \in Txns |-> IF owner[k] = u THEN "X" ELSE "none"] EXCEPT ![t] = "X"]
          BY <5>2
        <5>4. ASSUME NEW r \in Keys
              PROVE  [u \in Txns |-> IF owner'[r] = u THEN "X" ELSE "none"]
                = IF r = k
                  THEN [[u \in Txns |-> IF owner[k] = u THEN "X" ELSE "none"] EXCEPT ![t] = "X"]
                  ELSE [u \in Txns |-> IF owner[r] = u THEN "X" ELSE "none"]
          <6>1. CASE r = k
            BY <5>1, <5>3, <6>1
          <6>2. CASE r # k
            <7>1. owner'[r] = owner[r]
              BY <5>1, <6>2
            <7> QED  BY <6>2, <7>1
          <6> QED  BY <6>1, <6>2
        <5> QED  BY <5>4
      <4>4. Locks!Grant(t, k, "X")
        BY <3>1, <4>2, <4>3 DEF Locks!Grant
      <4>5. Locks!TryLock(t, k, "X")
        BY <3>1, <4>4 DEF Locks!TryLock, Locks!MayCall
      <4> QED  BY <4>5 DEF Locks!Next
    <3> QED  BY <3>1, <3>2, <3>3
  <2>4. ASSUME NEW t \in Txns, t \in active, Forget(t), UNCHANGED nextTxn
        PROVE  Locks!Next
    <3>1. /\ owner' = [k \in Keys |-> IF owner[k] = t THEN NoTxn ELSE owner[k]]
          /\ active' = active \ {t} /\ t \in active /\ t < nextTxn
      BY <2>4 DEF Forget, ReleaseAll
    <3>2. \A h, q : q = {} => Locks!WithoutRequests(q, t) = {} /\ Locks!Promoted(h, q) = {}
      BY DEF Locks!WithoutRequests, Locks!Promoted
    <3>3. ASSUME NEW k \in Keys
          PROVE  /\ Locks!ReleasedQueue(held(k), {}, t) = {}
                 /\ Locks!ReleasedHolders(held(k), {}, t) = held(k)'
      <4>1. held(k)' = [u \in Txns |-> IF u = t THEN "none" ELSE held(k)[u]]
        BY <3>1
      <4>2. Locks!ReleasedHolders(held(k), {}, t)
              = Locks!HoldersAfter(Locks!WithoutHold(held(k), t), {})
        BY <3>2 DEF Locks!ReleasedHolders
      <4>3. Locks!HoldersAfter(Locks!WithoutHold(held(k), t), {})
              = [u \in Txns |-> Locks!WithoutHold(held(k), t)[u]]
        BY DEF Locks!HoldersAfter
      <4>4. Locks!ReleasedQueue(held(k), {}, t) = {}
        BY <3>2 DEF Locks!ReleasedQueue
      <4> QED  BY <4>1, <4>2, <4>3, <4>4 DEF Locks!WithoutHold
    <3>4. {u \in Txns : u >= nextTxn \/ u \in active}'
            = {u \in Txns : u >= nextTxn \/ u \in active} \ {t}
      BY <2>4, <3>1, MaxTxnsAssumption
    <3>5. Locks!ReleaseAll(t)
      <4> HIDE DEF TypeOK, Txns
      <4> QED  BY <3>1, <3>3, <3>4 DEF Locks!ReleaseAll
    <3> QED  BY <3>5 DEF Locks!Next
  <2>5. CASE \E t \in Txns : Commit(t) \/ CommitLogFails(t) \/ Abort(t)
    <3>1. PICK t \in Txns : Commit(t) \/ CommitLogFails(t) \/ Abort(t)
      BY <2>5
    <3>2. t \in active /\ Forget(t) /\ UNCHANGED nextTxn
      BY <2>a, <3>1 DEF MethodOf, Commit, CommitTs, CommitLogFails, Abort
    <3> QED  BY <2>4, <3>2
  <2>6. CASE UNCHANGED vars
    BY <2>1, <2>6 DEF vars
  <2> QED  BY <2>2, <2>3, <2>5, <2>6 DEF Next, MethodOf
<1> QED  BY <1>1, <1>2, TypeCorrect, PTL DEF Spec, UsesLocksStrictly

----------------------------------------------------------------------------
(* Refinement of snapshot isolation.                                       *)

\* A read answers with the last version its timestamp covers.
LEMMA ReadsLastCovered ==
  ASSUME NEW c \in Seq(Version), NEW readTs \in Nat, NEW i \in Covered(c, readTs),
         \A j \in Covered(c, readTs) : j <= i
  PROVE  Newest(c, readTs) = c[i].by
<1>1. Covered(c, readTs) \subseteq 1..Len(c) /\ Len(c) \in Nat
  BY DEF Covered
<1> DEFINE chosen == CHOOSE m \in Covered(c, readTs) : \A j \in Covered(c, readTs) : j <= m
<1>2. chosen \in Covered(c, readTs) /\ \A j \in Covered(c, readTs) : j <= chosen
  OBVIOUS
<1>3. chosen <= i /\ i <= chosen /\ chosen \in Int /\ i \in Int
  BY <1>1, <1>2
<1>4. chosen = i
  BY <1>3
<1> QED  BY <1>4 DEF Newest

\* Some version is the last one covered, if any is.
LEMMA LastCoveredExists ==
  ASSUME NEW c \in Seq(Version), NEW readTs \in Nat, Covered(c, readTs) # {}
  PROVE  \E i \in Covered(c, readTs) : \A j \in Covered(c, readTs) : j <= i
<1>1. Covered(c, readTs) \in SUBSET (1..Len(c)) /\ Len(c) \in Nat
  BY DEF Covered
<1> QED  BY <1>1, LastPosition

\* Two timestamps that cover a whole chain read the same version of it.
LEMMA WholeChainRead ==
  ASSUME NEW c \in Seq(Version), NEW a \in Nat, NEW b \in Nat,
         \A i \in 1..Len(c) : c[i].ts <= a /\ c[i].ts <= b
  PROVE  Newest(c, a) = Newest(c, b)
<1>1. DOMAIN c = 1..Len(c)
  OBVIOUS
<1>2. Covered(c, a) = Covered(c, b)
  BY <1>1 DEF Covered
<1> QED  BY <1>2 DEF Newest

\* A version put at the end of a chain is read from its timestamp on, and not
\* before it.
LEMMA ReadAfterAppend ==
  ASSUME NEW c \in Seq(Version), NEW v \in Version, NEW readTs \in Nat
  PROVE  /\ readTs < v.ts => Newest(Append(c, v), readTs) = Newest(c, readTs)
         /\ v.ts <= readTs => Newest(Append(c, v), readTs) = v.by
<1> DEFINE d == Append(c, v)
<1>1. /\ d \in Seq(Version) /\ Len(c) \in Nat /\ Len(d) = Len(c) + 1
      /\ d[Len(c) + 1] = v
      /\ \A i \in 1..Len(c) : d[i] = c[i]
      /\ DOMAIN c = 1..Len(c) /\ DOMAIN d = 1..(Len(c) + 1)
  BY AppendProperties
<1>2. v.ts \in Nat
  BY DEF Version
<1> HIDE DEF d
<1>3. ASSUME readTs < v.ts  PROVE Newest(d, readTs) = Newest(c, readTs)
  <2>1. ~ (v.ts <= readTs)
    BY <1>2, <1>3
  <2>2. Covered(d, readTs) = Covered(c, readTs)
    BY <1>1, <2>1 DEF Covered
  <2>3. CASE Covered(c, readTs) = {}
    BY <2>2, <2>3 DEF Newest
  <2>4. CASE Covered(c, readTs) # {}
    <3>1. PICK i \in Covered(c, readTs) : \A j \in Covered(c, readTs) : j <= i
      BY <2>4, LastCoveredExists
    <3>2. i \in 1..Len(c) /\ d[i] = c[i]
      BY <1>1 DEF Covered
    <3>3. Newest(d, readTs) = d[i].by
      BY <1>1, <2>2, <3>1, ReadsLastCovered
    <3>4. Newest(c, readTs) = c[i].by
      BY <3>1, ReadsLastCovered
    <3> QED  BY <3>2, <3>3, <3>4
  <2> QED  BY <2>3, <2>4
<1>4. ASSUME v.ts <= readTs  PROVE Newest(d, readTs) = v.by
  <2>1. Len(c) + 1 \in Covered(d, readTs) /\ \A j \in Covered(d, readTs) : j <= Len(c) + 1
    BY <1>1, <1>4 DEF Covered
  <2> QED  BY <1>1, <2>1, ReadsLastCovered
<1> QED  BY <1>3, <1>4 DEF d

\* A commit leaves every earlier state of the history as it was, and its writes
\* over the newest state make the next one.
LEMMA CommitExtendsHistory ==
  ASSUME TypeOK, ChainInv, NEW t \in Txns, Commit(t), NEW k \in Keys
  PROVE  /\ \A ts \in 0..watermark : Newest(data'[k], ts) = Newest(data[k], ts)
         /\ Newest(data'[k], watermark + 1)
               = IF k \in writes[t] THEN t ELSE Newest(data[k], watermark)
         /\ k \in writes[t] =>
              \A ts \in snap[t]..watermark : Newest(data[k], ts) = Newest(data[k], snap[t])
<1> DEFINE new == [ts |-> watermark + 1, by |-> t]
<1>1. /\ data[k] \in Seq(Version) /\ watermark \in Nat /\ snap[t] \in Nat
      /\ snap[t] <= watermark /\ Len(data[k]) \in Nat
  BY VersionShape DEF TypeOK, ChainInv
<1>2. new \in Version
  BY <1>1 DEF Version
<1>3. \A i \in 1..Len(data[k]) :
         /\ data[k][i].ts \in Nat /\ data[k][i].ts <= watermark
         /\ data[k][i].ts <= watermark + 1
  BY <1>1, VersionShape DEF ChainInv, ChainsAscend
<1>4. CASE k \in writes[t]
  <2>1. data'[k] = Append(data[k], new)
    BY <1>4 DEF Commit, CommitTs
  <2>2. \A ts \in 0..watermark : Newest(data'[k], ts) = Newest(data[k], ts)
    <3> TAKE ts \in 0..watermark
    <3>1. ts \in Nat /\ ts < new.ts
      BY <1>1
    <3> QED  BY <1>1, <1>2, <2>1, <3>1, ReadAfterAppend
  <2>3. Newest(data'[k], watermark + 1) = t
    <3>1. watermark + 1 \in Nat /\ new.ts <= watermark + 1 /\ new.by = t
      BY <1>1
    <3> HIDE DEF new
    <3> QED  BY <1>1, <1>2, <2>1, <3>1, ReadAfterAppend
  <2>4. \A ts \in snap[t]..watermark : Newest(data[k], ts) = Newest(data[k], snap[t])
    <3> TAKE ts \in snap[t]..watermark
    <3>0. \A i \in 1..Len(data[k]) : data[k][i].ts <= snap[t] /\ data[k][i].ts \in Nat
      BY <1>3, <1>4, CommitAppends
    <3>1. ts \in Nat /\ \A i \in 1..Len(data[k]) : data[k][i].ts <= snap[t] /\ data[k][i].ts <= ts
      <4>1. ts \in Nat /\ snap[t] <= ts
        BY <1>1
      <4> QED  BY <1>1, <3>0, <4>1
    <3> QED  BY <1>1, <1>3, <3>1, WholeChainRead
  <2> QED  BY <1>4, <2>2, <2>3, <2>4
<1>5. CASE k \notin writes[t]
  <2>1. data'[k] = data[k]
    BY <1>5 DEF Commit, CommitTs
  <2>2. Newest(data[k], watermark + 1) = Newest(data[k], watermark)
    <3>1. watermark + 1 \in Nat
      BY <1>1
    <3> QED  BY <1>1, <1>3, <3>1, WholeChainRead
  <2> QED  BY <1>5, <2>1, <2>2
<1> QED  BY <1>4, <1>5

\* The abstract history and phases, named as the refinement mapping gives them.
History == [i \in 1..(watermark + 1) |-> [k \in Keys |-> Newest(data[k], i - 1)]]
Phases == [t \in Txns |-> IF t >= nextTxn THEN "idle"
                         ELSE IF t \in pending THEN "running" ELSE "done"]

\* The history is a sequence that ends with the newest state.
LEMMA HistoryShape ==
  ASSUME TypeOK
  PROVE  /\ History \in Seq([Keys -> {Newest(data[k], i) : k \in Keys, i \in Nat}])
         /\ Len(History) = watermark + 1
         /\ \A i \in 1..(watermark + 1) : History[i] = [k \in Keys |-> Newest(data[k], i - 1)]
<1> DEFINE S == [Keys -> {Newest(data[k], i) : k \in Keys, i \in Nat}]
<1>1. watermark \in Nat
  BY DEF TypeOK
<1>2. \A i \in 1..(watermark + 1) : i - 1 \in Nat
  BY <1>1
<1>3. \A i \in 1..(watermark + 1) : [k \in Keys |-> Newest(data[k], i - 1)] \in S
  BY <1>2
<1> HIDE DEF S
<1>4. History \in [1..(watermark + 1) -> S]
  BY <1>3 DEF History
<1>5. History \in Seq(S) /\ Len(History) = watermark + 1
  <2>1. watermark + 1 \in Nat
    BY <1>1
  <2> HIDE DEF History
  <2> QED  BY <1>4, <2>1, IsASeq
<1> QED  BY <1>1, <1>5 DEF History, S

\* Each method maps to a step of snapshot isolation or to none.
LEMMA RefinementStep ==
  TypeOK /\ TypeOK' /\ ChainInv /\ [Next]_vars => [SI!Next]_(SI!vars)
<1> SUFFICES ASSUME TypeOK, TypeOK', ChainInv, [Next]_vars
             PROVE  SI!Next \/ UNCHANGED SI!vars
  OBVIOUS
<1>1. CASE Begin
  <2>1. PICK t \in Txns : t = nextTxn
    BY <1>1, MaxTxnsAssumption DEF Begin, TypeOK, Txns
  <2>2. /\ nextTxn' = t + 1 /\ pending' = pending \cup {t} /\ t \notin pending
        /\ snap' = [snap EXCEPT ![t] = watermark] /\ snap \in [Txns -> Nat]
        /\ \A u \in Txns : u \in Int
    BY <1>1, <2>1, MaxTxnsAssumption DEF Begin, TypeOK, Txns
  <2>3. Phases[t] = "idle" /\ Phases' = [Phases EXCEPT ![t] = "running"]
    <3>1. \A u \in Txns : u # t => (u >= nextTxn' <=> u >= nextTxn) /\ (u \in pending' <=> u \in pending)
      BY <2>1, <2>2
    <3>2. t >= nextTxn /\ ~ (t >= nextTxn') /\ t \in pending'
      BY <2>1, <2>2
    <3> QED  BY <3>1, <3>2 DEF Phases
  <2>4. [u \in Txns |-> snap[u] + 1]' = [[u \in Txns |-> snap[u] + 1] EXCEPT ![t] = Len(History)]
    <3>1. Len(History) = watermark + 1
      BY HistoryShape
    <3>2. \A u \in Txns : snap'[u] = IF u = t THEN watermark ELSE snap[u]
      BY <2>2
    <3> QED  BY <3>1, <3>2
  <2>5. UNCHANGED <<History, writes>>
    BY <1>1 DEF Begin, History
  <2>6. SI!Begin(t)
    BY <2>3, <2>4, <2>5 DEF SI!Begin, Phases, History
  <2> QED  BY <2>6 DEF SI!Next
<1>2. ASSUME NEW t \in Txns, NEW k \in Keys, Set(t, k)
      PROVE  SI!Next
  <2>1. ~ (t >= nextTxn) /\ UNCHANGED <<nextTxn, History>>
    BY <1>2, MaxTxnsAssumption DEF Set, Callable, TypeOK, Txns, History
  <2>2. CASE Buffer(t, k)
    <3>1. Phases[t] = "running" /\ UNCHANGED Phases
      BY <2>1, <2>2 DEF Buffer, Phases
    <3>2. SI!Write(t, k)
      BY <2>1, <2>2, <3>1 DEF Buffer, SI!Write, Phases, History
    <3> QED  BY <3>2 DEF SI!Next
  <2>3. CASE Revive(t, k)
    <3>1. Phases[t] = "done" /\ Phases' = [Phases EXCEPT ![t] = "running"]
      BY <2>1, <2>3 DEF Revive, Phases
    <3>2. [u \in Txns |-> snap[u] + 1]' = [[u \in Txns |-> snap[u] + 1] EXCEPT ![t] = 1]
      <4>1. \A u \in Txns : snap'[u] = IF u = t THEN 0 ELSE snap[u]
        BY <2>3 DEF Revive, TypeOK
      <4>2. [u \in Txns |-> snap'[u] + 1] = [u \in Txns |-> IF u = t THEN 1 ELSE snap[u] + 1]
        BY <4>1
      <4> QED  BY <4>2
    <3>3. SI!WriteAgain(t, k)
      BY <2>1, <2>3, <3>1, <3>2 DEF Revive, SI!WriteAgain, Phases, History
    <3> QED  BY <3>3 DEF SI!Next
  <2> QED  BY <1>2, <2>2, <2>3 DEF Set
<1>3. ASSUME NEW t \in pending, Forget(t), UNCHANGED <<snap, writes, nextTxn>>
      PROVE  t \in Txns /\ Phases[t] = "running" /\ Phases' = [Phases EXCEPT ![t] = "done"]
  <2>1. /\ pending' = pending \ {t} /\ ~ (t >= nextTxn) /\ nextTxn' = nextTxn
        /\ t \in Txns
    BY <1>3, MaxTxnsAssumption DEF Forget, TypeOK, Txns
  <2> QED  BY <1>3, <2>1 DEF Phases
<1>4. ASSUME NEW t \in Txns, Commit(t)
      PROVE  SI!Next
  <2>1. /\ watermark' = watermark + 1 /\ watermark \in Nat /\ snap[t] \in 0..watermark
        /\ UNCHANGED <<snap, writes>>
        /\ Phases[t] = "running" /\ Phases' = [Phases EXCEPT ![t] = "done"]
    <3>1. t \in pending /\ Forget(t) /\ UNCHANGED <<snap, writes, nextTxn>>
      BY <1>4 DEF Commit, CommitTs
    <3>2. Phases[t] = "running" /\ Phases' = [Phases EXCEPT ![t] = "done"]
      BY <1>3, <3>1
    <3> QED  BY <1>4, <3>1, <3>2 DEF Commit, CommitTs, TypeOK, ChainInv
  <2>2. /\ Len(History) = watermark + 1
        /\ History[watermark + 1] = [k \in Keys |-> Newest(data[k], watermark)]
        /\ History[snap[t] + 1] = [k \in Keys |-> Newest(data[k], snap[t])]
    BY <2>1, HistoryShape
  <2>3. \A k \in writes[t] : \A i \in (snap[t] + 1)..Len(History) :
          History[i][k] = History[snap[t] + 1][k]
    <3> TAKE k \in writes[t]
    <3> TAKE i \in (snap[t] + 1)..Len(History)
    <3>1. k \in Keys /\ i - 1 \in snap[t]..watermark /\ i \in 1..(watermark + 1)
      BY <2>1, <2>2 DEF TypeOK
    <3>2. Newest(data[k], i - 1) = Newest(data[k], snap[t])
      BY <1>4, <3>1, CommitExtendsHistory
    <3>3. History[i] = [l \in Keys |-> Newest(data[l], i - 1)]
      BY <3>1, HistoryShape
    <3> QED  BY <2>2, <3>1, <3>2, <3>3
  <2> DEFINE next == [k \in Keys |-> IF k \in writes[t] THEN t ELSE History[Len(History)][k]]
  <2>4. History' = Append(History, next)
    <3>1. /\ History' = [i \in 1..(watermark + 2) |-> [k \in Keys |-> Newest(data'[k], i - 1)]]
      BY <2>1 DEF History
    <3>2. ASSUME NEW i \in 1..(watermark + 1)
          PROVE  [k \in Keys |-> Newest(data'[k], i - 1)] = History[i]
      <4>1. i - 1 \in 0..watermark
        BY <2>1
      <4>2. \A k \in Keys : Newest(data'[k], i - 1) = Newest(data[k], i - 1)
        BY <1>4, <4>1, CommitExtendsHistory
      <4>3. History[i] = [k \in Keys |-> Newest(data[k], i - 1)]
        BY HistoryShape
      <4> QED  BY <4>2, <4>3
    <3>3. [k \in Keys |-> Newest(data'[k], watermark + 1)] = next
      <4>1. \A k \in Keys : Newest(data'[k], watermark + 1)
               = IF k \in writes[t] THEN t ELSE Newest(data[k], watermark)
        BY <1>4, CommitExtendsHistory
      <4> QED  BY <2>2, <4>1
    <3> HIDE DEF next
    <3>4. Append(History, next)
            = [i \in 1..(watermark + 2) |-> IF i <= watermark + 1 THEN History[i] ELSE next]
      <4> DEFINE S == [Keys -> {Newest(data[k], i) : k \in Keys, i \in Nat}] \cup {next}
                 A == Append(History, next)
      <4>1. History \in Seq(S) /\ next \in S
        BY HistoryShape, SeqMonotonic
      <4> HIDE DEF S, History
      <4>2. /\ A \in Seq(S) /\ Len(A) = watermark + 2
            /\ \A i \in 1..(watermark + 1) : A[i] = History[i]
            /\ A[watermark + 2] = next
        BY <2>1, <2>2, <4>1, AppendProperties
      <4> HIDE DEF A
      <4>3. A = [i \in 1..(watermark + 2) |-> A[i]]
        BY <4>2, LenProperties
      <4>4. \A i \in 1..(watermark + 2) : A[i] = IF i <= watermark + 1 THEN History[i] ELSE next
        BY <2>1, <4>2
      <4> QED  BY <4>3, <4>4 DEF A
    <3>5. ASSUME NEW i \in 1..(watermark + 2)
          PROVE  [k \in Keys |-> Newest(data'[k], i - 1)]
                   = IF i <= watermark + 1 THEN History[i] ELSE next
      <4>1. CASE i <= watermark + 1
        <5>1. i \in 1..(watermark + 1)
          BY <2>1, <4>1
        <5> QED  BY <3>2, <4>1, <5>1
      <4>2. CASE i = watermark + 2
        <5>1. i - 1 = watermark + 1 /\ ~ (i <= watermark + 1)
          BY <2>1, <4>2
        <5> QED  BY <3>3, <5>1
      <4> QED  BY <2>1, <4>1, <4>2
    <3> HIDE DEF History
    <3> QED  BY <3>1, <3>4, <3>5
  <2>5. SI!Commit(t)
    <3>1. [u \in Txns |-> snap[u] + 1][t] = snap[t] + 1
      OBVIOUS
    <3> HIDE DEF next
    <3>2. next = [k \in Keys |-> IF k \in writes[t] THEN t ELSE History[Len(History)][k]]
      BY DEF next
    <3>3. \A k \in writes[t] : \A i \in [u \in Txns |-> snap[u] + 1][t]..Len(History) :
            History[i][k] = History[[u \in Txns |-> snap[u] + 1][t]][k]
      BY <2>3, <3>1
    <3>4. UNCHANGED <<[u \in Txns |-> snap[u] + 1], writes>>
      BY <2>1
    <3> QED  BY <2>1, <2>4, <3>2, <3>3, <3>4 DEF SI!Commit, SI!Current, Phases, History
  <2> QED  BY <2>5 DEF SI!Next
<1>6. ASSUME UNCHANGED <<data, pending, snap, writes, nextTxn, watermark>>
      PROVE  UNCHANGED SI!vars
  BY <1>6 DEF SI!vars
<1>5. ASSUME NEW t \in Txns, CommitLogFails(t) \/ Abort(t)
      PROVE  SI!Next \/ UNCHANGED SI!vars
  <2>1. Forget(t) /\ UNCHANGED <<data, snap, writes, nextTxn, watermark, History>>
    BY <1>5 DEF CommitLogFails, Abort, History
  <2>2. CASE t \in pending
    <3>1. Phases[t] = "running" /\ Phases' = [Phases EXCEPT ![t] = "done"]
      BY <1>3, <2>1, <2>2
    <3>2. SI!Abort(t)
      BY <2>1, <3>1 DEF SI!Abort, Phases, History
    <3> QED  BY <3>2 DEF SI!Next
  <2>3. CASE t \notin pending
    BY <1>6, <2>1, <2>3 DEF Forget
  <2> QED  BY <2>2, <2>3
<1> QED
  BY <1>1, <1>2, <1>4, <1>5, <1>6 DEF Next, MethodOf, LockWrite, vars

\* The version chains, timestamps and row locks implement snapshot isolation.
THEOREM StoreIsSnapshotIsolated == Spec => IsSnapshotIsolated
<1>1. Init => ChainInv /\ SI!Init
  <2> SUFFICES ASSUME Init PROVE ChainInv /\ SI!Init
    OBVIOUS
  <2>1. ChainInv
    BY DEF Init, ChainInv, ChainsAscend
  <2>2. \A k \in Keys, ts \in Nat : Newest(data[k], ts) = NoTxn
    BY DEF Init, Newest, Covered
  <2>3. History = << [k \in Keys |-> NoTxn] >>
    BY <2>2 DEF Init, History
  <2>4. Phases = [t \in Txns |-> "idle"]
    BY MaxTxnsAssumption DEF Init, Phases, Txns
  <2>5. [t \in Txns |-> snap[t] + 1] = [t \in Txns |-> 1] /\ writes = [t \in Txns |-> {}]
    BY DEF Init
  <2> QED  BY <2>1, <2>3, <2>4, <2>5 DEF SI!Init, History, Phases
<1> QED
  BY <1>1, RefinementStep, ChainStep, TypeCorrect, PTL DEF Spec, IsSnapshotIsolated, SI!Spec

----------------------------------------------------------------------------
(* Stable reads.                                                           *)

\* Each method leaves the reads of a running transaction as they are, unless it
\* adds to the transaction's own writes.
LEMMA ReadsStep == TypeOK /\ ChainInv /\ [Next]_vars => ReadsHold
<1> SUFFICES ASSUME TypeOK, ChainInv, [Next]_vars,
                    NEW t \in pending \cap pending', NEW k \in Keys, writes'[t] = writes[t]
             PROVE  Read(t, k)' = Read(t, k)
  BY DEF ReadsHold
<1>1. t \in Txns /\ t # nextTxn /\ t \in pending
  BY PendingBegan
<1>2. ASSUME snap'[t] = snap[t], Newest(data'[k], snap[t]) = Newest(data[k], snap[t])
      PROVE  Read(t, k)' = Read(t, k)
  BY <1>2 DEF Read
<1>3. CASE Begin
  <2>1. snap'[t] = snap[t] /\ data' = data
    BY <1>1, <1>3 DEF Begin, TypeOK
  <2> QED  BY <1>2, <2>1
<1>4. CASE \E u \in Txns : Commit(u)
  <2>1. PICK u \in Txns : Commit(u)
    BY <1>4
  <2>2. snap' = snap
    BY <2>1 DEF Commit
  <2>3. snap[t] \in 0..watermark
    BY <1>1 DEF TypeOK, ChainInv
  <2>4. Newest(data'[k], snap[t]) = Newest(data[k], snap[t])
    BY <2>1, <2>3, CommitExtendsHistory
  <2> QED  BY <1>2, <2>2, <2>4
<1>5. CASE UNCHANGED <<data, snap>>
  BY <1>2, <1>5
<1>6. CASE \E u \in Txns, l \in Keys : Set(u, l)
  <2>1. snap'[t] = snap[t] /\ data' = data
    BY <1>1, <1>6 DEF Set, Buffer, Revive, TypeOK
  <2> QED  BY <1>2, <2>1
<1> QED
  BY <1>3, <1>4, <1>5, <1>6 DEF Next, MethodOf, LockWrite, CommitLogFails, Abort, vars

\* What a transaction reads is changed by nothing but its own writes.
THEOREM ReadsAreStable == Spec => StableReads
<1>1. Init => ChainInv
  BY DEF Init, ChainInv, ChainsAscend
<1> QED  BY <1>1, ReadsStep, ChainStep, TypeCorrect, PTL DEF Spec, StableReads
============================================================================
