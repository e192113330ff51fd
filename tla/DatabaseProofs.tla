---------------------------- MODULE DatabaseProofs ----------------------------
(***************************************************************************)
(* Theorems about the engine's transactions, log and recovery, for any     *)
(* number of transactions and rows.  First what an answered commit has put *)
(* on the disk, and what replay may find there.  Then what recovery makes  *)
(* of it: the ids and rows it gives, its agreement with the store in       *)
(* memory and with the analysis of recovery.rs, and that the database      *)
(* implements a durable table.  Redo is followed record by record          *)
(* (RedoOne), through the group of a commit, and then through the logs     *)
(* that the engine leaves; RecoveryInv and LiveInv are the inductive       *)
(* invariants.                                                             *)
(***************************************************************************)
EXTENDS Database, NumberLemmas, SequenceTheorems, FiniteSetTheorems, TLAPS

----------------------------------------------------------------------------
(* Frames and groups.                                                      *)

Record ==
  {BeginRec(t) : t \in Txns} \cup {CommitRec(t) : t \in Txns} \cup {AbortRec(t) : t \in Txns}
    \cup {PutRec(t, k) : t \in Txns, k \in Keys}
Frame == Record \cup {Torn}

LEMMA TornIsNoRecord == \A r \in Record : r # Torn /\ r.kind # "torn"
<1>1. ASSUME NEW r \in Record PROVE r.kind \in {"begin", "commit", "abort", "put"}
  BY DEF Record, BeginRec, CommitRec, AbortRec, PutRec
<1>2. Torn.kind = "torn"
  BY DEF Torn
<1> QED  BY <1>1, <1>2

\* A set of row ids can be put in ascending order, and nothing else can be meant by it.
LEMMA AscendingOrder ==
  ASSUME NEW W \in SUBSET Keys
  PROVE  /\ IsFiniteSet(W) /\ Cardinality(W) \in Nat
         /\ Ascending(W) \in [1..Cardinality(W) -> W]
         /\ \A i, j \in 1..Cardinality(W) : i < j => Ascending(W)[i] < Ascending(W)[j]
         /\ \A k \in W : \E i \in 1..Cardinality(W) : Ascending(W)[i] = k
<1> DEFINE c == Cardinality(W)
           below == [k \in W |-> {j \in W : j < k}]
           rank == [k \in W |-> Cardinality(below[k])]
<1>1. IsFiniteSet(W) /\ c \in Nat /\ W \subseteq Nat
  <2>1. Cardinality(Keys) \in Nat /\ Keys = 0..(Cardinality(Keys) - 1) /\ IsFiniteSet(Keys)
    BY KeysAreRowIds, FS_CardinalityType
  <2>2. Keys \subseteq Nat
    BY <2>1
  <2> QED  BY <2>1, <2>2, FS_Subset, FS_CardinalityType
<1> HIDE DEF c
<1>2. /\ IsFiniteSet(0..(c - 1)) /\ Cardinality(0..(c - 1)) = c
      /\ IsFiniteSet(1..c) /\ Cardinality(1..c) = c
  BY <1>1, FS_Interval
<1>3. ASSUME NEW k \in W
      PROVE  IsFiniteSet(below[k]) /\ rank[k] = Cardinality(below[k]) /\ rank[k] \in 0..(c - 1)
  <2>1. below[k] \in SUBSET W /\ below[k] # W
    BY <1>1
  <2>2. IsFiniteSet(below[k]) /\ rank[k] <= c /\ rank[k] # c /\ rank[k] \in Nat
    BY <1>1, <2>1, FS_Subset, FS_CardinalityType DEF c
  <2> QED  BY <1>1, <2>2
<1>4. ASSUME NEW k \in W, NEW l \in W, k < l PROVE rank[k] < rank[l]
  <2>1. k \in Nat /\ l \in Nat /\ \A j \in W : j \in Nat
    BY <1>1
  <2>2. below[k] \in SUBSET below[l] /\ k \in below[l] /\ k \notin below[k]
    <3>1. \A j \in W : j < k => j < l
      BY <1>4, <2>1
    <3>2. k < l /\ ~ (k < k)
      BY <1>4, <2>1
    <3> HIDE <1>1, <2>1
    <3>3. below[k] \in SUBSET below[l]
      BY <3>1
    <3> QED  BY <3>2, <3>3
  <2>3. IsFiniteSet(below[l]) /\ rank[k] = Cardinality(below[k]) /\ rank[l] = Cardinality(below[l])
    BY <1>3
  <2>4. rank[k] <= rank[l] /\ rank[k] # rank[l]
    BY <2>2, <2>3, FS_Subset
  <2>5. rank[k] \in 0..(c - 1) /\ rank[l] \in 0..(c - 1)
    BY <1>3
  <2> QED  BY <1>1, <2>4, <2>5
<1>5. rank = [k \in W |-> rank[k]]
  OBVIOUS
<1> HIDE DEF below, rank
<1>6. \A k, l \in W : rank[k] < rank[l] => k < l
  <2> SUFFICES ASSUME NEW k \in W, NEW l \in W, rank[k] < rank[l], ~ (k < l) PROVE FALSE
    OBVIOUS
  <2>1. rank[k] \in 0..(c - 1) /\ rank[l] \in 0..(c - 1) /\ k \in Nat /\ l \in Nat
    BY <1>1, <1>3
  <2>2. CASE l < k
    <3>1. rank[l] < rank[k]
      BY <1>4, <2>2
    <3> QED  BY <1>1, <2>1, <3>1
  <2>3. CASE l = k
    BY <1>1, <2>1, <2>3
  <2> QED  BY <2>1, <2>2, <2>3
<1>7. rank \in Injection(W, 0..(c - 1))
  <2>1. rank \in [W -> 0..(c - 1)]
    BY <1>3, <1>5
  <2>2. ASSUME NEW k \in W, NEW l \in W, rank[k] = rank[l] PROVE k = l
    <3>1. k \in Nat /\ l \in Nat /\ rank[k] \in 0..(c - 1)
      BY <1>1, <1>3
    <3>2. ~ (rank[k] < rank[l]) /\ ~ (rank[l] < rank[k])
      BY <1>1, <2>2, <3>1
    <3>3. ~ (k < l) /\ ~ (l < k)
      BY <1>4, <3>2
    <3> QED  BY <3>1, <3>3
  <2> QED  BY <2>1, <2>2 DEF Injection, IsInjective
<1>8. \A i \in 1..c : \E k \in W : rank[k] = i - 1
  <2>1. rank \in Surjection(W, 0..(c - 1))
    BY <1>2, <1>7, FS_Injection DEF c
  <2>2. \A i \in 1..c : i - 1 \in 0..(c - 1)
    BY <1>1
  <2> QED  BY <2>1, <2>2 DEF Surjection
<1> DEFINE s == [i \in 1..c |-> CHOOSE k \in W : rank[k] = i - 1]
<1>9. s \in [1..c -> W] /\ \A i \in 1..c : rank[s[i]] = i - 1
  BY <1>8
<1> HIDE DEF s
<1>10. \A i, j \in 1..c : i < j => s[i] < s[j]
  <2> TAKE i, j \in 1..c
  <2>1. s[i] \in W /\ s[j] \in W /\ rank[s[i]] = i - 1 /\ rank[s[j]] = j - 1
    BY <1>9
  <2>2. i < j => rank[s[i]] < rank[s[j]]
    BY <1>1, <2>1
  <2> QED  BY <1>6, <2>1, <2>2
<1>11. \E r \in [1..c -> W] : \A i, j \in DOMAIN r : i < j => r[i] < r[j]
  BY <1>9, <1>10
<1> DEFINE a == Ascending(W)
<1>12. a \in [1..c -> W] /\ \A i, j \in DOMAIN a : i < j => a[i] < a[j]
  BY <1>11 DEF Ascending, c
<1> HIDE DEF a
<1>13. \A i, j \in 1..c : i < j => a[i] < a[j]
  BY <1>12
<1>14. a \in Injection(1..c, W)
  <2>1. ASSUME NEW i \in 1..c, NEW j \in 1..c, a[i] = a[j] PROVE i = j
    <3>1. a[i] \in Nat /\ a[j] \in Nat
      BY <1>1, <1>12
    <3>2. ~ (a[i] < a[j]) /\ ~ (a[j] < a[i])
      BY <2>1, <3>1
    <3>3. ~ (i < j) /\ ~ (j < i)
      BY <1>13, <3>2
    <3> QED  BY <3>3
  <2> QED  BY <1>12, <2>1 DEF Injection, IsInjective
<1>15. a \in Surjection(1..c, W)
  BY <1>1, <1>2, <1>14, FS_Injection DEF c
<1>16. \A k \in W : \E i \in 1..c : a[i] = k
  BY <1>15 DEF Surjection
<1> QED  BY <1>1, <1>12, <1>13, <1>16 DEF a, c

\* What a transaction that wrote the keys W hands to the writer: CommitRecords.
RecordsOf(t, W) ==
  <<BeginRec(t)>> \o [i \in 1..Cardinality(W) |-> PutRec(t, Ascending(W)[i])] \o <<CommitRec(t)>>

LEMMA GroupOfCommit ==
  ASSUME NEW t \in Txns, NEW W \in SUBSET Keys
  PROVE  /\ RecordsOf(t, W) \in Seq(Record) /\ Len(RecordsOf(t, W)) \in Nat \ {0}
         /\ W = writes[t] => CommitRecords(t) = RecordsOf(t, W)
<1>1. IsFiniteSet(W) /\ Cardinality(W) \in Nat
  BY AscendingOrder
<1> DEFINE puts == [i \in 1..Cardinality(W) |-> PutRec(t, Ascending(W)[i])]
<1>2. \A i \in 1..Cardinality(W) : PutRec(t, Ascending(W)[i]) \in Record
  BY AscendingOrder DEF Record
<1>3. puts \in [1..Cardinality(W) -> Record]
  BY <1>2
<1>4. W = writes[t] => PutRecords(t) = puts
  BY DEF PutRecords
<1> HIDE DEF puts
<1>5. puts \in Seq(Record)
  BY <1>1, <1>3, IsASeq
<1>6. BeginRec(t) \in Record /\ CommitRec(t) \in Record
  BY DEF Record
<1> DEFINE front == <<BeginRec(t)>> \o puts
<1>7. front \in Seq(Record) /\ Len(front) \in Nat
  BY <1>5, <1>6, ConcatProperties
<1>8. RecordsOf(t, W) = front \o <<CommitRec(t)>>
  BY DEF RecordsOf, puts
<1>9. W = writes[t] => CommitRecords(t) = front \o <<CommitRec(t)>>
  BY <1>4 DEF CommitRecords
<1> HIDE DEF front
<1>10. /\ front \o <<CommitRec(t)>> \in Seq(Record)
       /\ Len(front \o <<CommitRec(t)>>) = Len(front) + 1
  <2>1. Len(<<CommitRec(t)>>) = 1 /\ <<CommitRec(t)>> \in Seq(Record)
    BY <1>6
  <2> QED  BY <1>7, <2>1, ConcatProperties
<1> QED  BY <1>7, <1>8, <1>9, <1>10

----------------------------------------------------------------------------
(* Types.                                                                  *)

Jobs ==
  {NoJob} \cup [op : {"commit"}, txn : Txns, step : {"write", "sync"}]
          \cup [op : {"rollback", "close"}, txn : Txns \cup {NoTxn}, step : {"write", "sync"}]

WalTypes == file \in Seq(Frame) /\ synced \in 0..Len(file) /\ group \in Seq(Record)

LogTypes ==
  /\ WalTypes
  /\ phase \in {"open", "down", "corrupt"}
  /\ job \in Jobs
  /\ asked \in [Txns -> SUBSET Keys]
  /\ answer \in [Txns -> {"none", "ok", "failed", "aborted", "unknown"}]
  /\ writes \in [Txns -> SUBSET Keys]

LEMMA LogTypesInit == DbInit => LogTypes
<1> SUFFICES ASSUME DbInit PROVE LogTypes
  OBVIOUS
<1>1. /\ file = << >> /\ synced = 0 /\ group = << >> /\ phase = "open" /\ job = NoJob
      /\ asked = [t \in Txns |-> {}] /\ answer = [t \in Txns |-> "none"]
      /\ writes = [t \in Txns |-> {}]
  BY DEF DbInit, Init, WalInit
<1>2. file \in Seq(Frame) /\ group \in Seq(Record) /\ Len(file) = 0
  BY <1>1
<1> QED  BY <1>1, <1>2 DEF LogTypes, WalTypes, Jobs

\* Frames cut short at n, with or without the leading part of the next one.
LEMMA CutFrames ==
  ASSUME NEW frames \in Seq(Frame), NEW n \in 0..Len(frames), NEW rest \in {<< >>, <<Torn>>}
  PROVE  /\ SubSeq(frames, 1, n) \o rest \in Seq(Frame)
         /\ Len(rest) \in {0, 1} /\ Len(SubSeq(frames, 1, n) \o rest) = n + Len(rest)
         /\ \A i \in 1..n : (SubSeq(frames, 1, n) \o rest)[i] = frames[i]
         /\ rest # << >> => (SubSeq(frames, 1, n) \o rest)[n + 1] = Torn
<1>1. n \in Int /\ Len(frames) \in Nat /\ \A i \in 1..n : frames[i] \in Frame
  OBVIOUS
<1> DEFINE front == SubSeq(frames, 1, n)
<1>2. front \in Seq(Frame) /\ Len(front) = n /\ \A i \in 1..n : front[i] = frames[i]
  <2>1. /\ front \in Seq(Frame) /\ Len(front) = IF 1 <= n THEN n - 1 + 1 ELSE 0
        /\ \A i \in 1..(n - 1 + 1) : front[i] = frames[1 + i - 1]
    BY <1>1, SubSeqProperties
  <2> HIDE DEF front
  <2> QED  BY <1>1, <2>1
<1> HIDE DEF front
<1>3. rest \in Seq(Frame) /\ Len(rest) \in {0, 1} /\ (rest # << >> => Len(rest) = 1 /\ rest[1] = Torn)
  <2>1. CASE rest = << >>
    BY <2>1
  <2>2. CASE rest = <<Torn>>
    <3>1. Torn \in Frame
      BY DEF Frame
    <3> QED  BY <2>2, <3>1
  <2> QED  BY <2>1, <2>2
<1>4. /\ front \o rest \in Seq(Frame) /\ Len(front \o rest) = Len(front) + Len(rest)
      /\ \A i \in 1..(Len(front) + Len(rest)) :
           (front \o rest)[i] = IF i <= Len(front) THEN front[i] ELSE rest[i - Len(front)]
  BY <1>2, <1>3, ConcatProperties
<1>5. \A i \in 1..n : (front \o rest)[i] = frames[i]
  BY <1>1, <1>2, <1>3, <1>4
<1>6. rest # << >> => (front \o rest)[n + 1] = Torn
  BY <1>1, <1>2, <1>3, <1>4
<1> QED  BY <1>2, <1>3, <1>4, <1>5, <1>6 DEF front

\* Replay takes the frames in front of the first torn one.
LEMMA CleanFrames ==
  ASSUME NEW frames \in Seq(Frame)
  PROVE  \E n \in 0..Len(frames) :
           /\ CleanPrefix(frames) \in Seq(Frame) /\ Len(CleanPrefix(frames)) = n
           /\ \A i \in 1..n : CleanPrefix(frames)[i] = frames[i] /\ frames[i] # Torn
           /\ n = Len(frames) => CleanPrefix(frames) = frames
           /\ n < Len(frames) => frames[n + 1] = Torn
<1>1. Len(frames) \in Nat /\ DOMAIN frames = 1..Len(frames)
  OBVIOUS
<1>2. CASE TornPlaces(frames) = {}
  <2>1. CleanPrefix(frames) = frames
    BY <1>2 DEF CleanPrefix
  <2>2. \A i \in 1..Len(frames) : frames[i] # Torn
    BY <1>1, <1>2 DEF TornPlaces
  <2>3. WITNESS Len(frames) \in 0..Len(frames)
  <2> QED  BY <1>1, <2>1, <2>2
<1>3. CASE TornPlaces(frames) # {}
  <2> DEFINE first == CHOOSE i \in TornPlaces(frames) : \A j \in TornPlaces(frames) : i <= j
  <2>1. TornPlaces(frames) \in SUBSET Nat /\ TornPlaces(frames) \subseteq 1..Len(frames)
    BY <1>1 DEF TornPlaces
  <2>2. \E i \in TornPlaces(frames) : \A j \in TornPlaces(frames) : i <= j
    <3>1. PICK i \in TornPlaces(frames) : \A j \in TornPlaces(frames) : ~ (j < i)
      BY <1>3, <2>1, LeastNumber
    <3> QED  BY <2>1, <3>1
  <2>3. first \in TornPlaces(frames) /\ \A j \in TornPlaces(frames) : first <= j
    BY <2>2
  <2> HIDE DEF first
  <2>4. /\ first \in 1..Len(frames) /\ first - 1 \in 0..Len(frames) /\ frames[first] = Torn
        /\ \A i \in 1..(first - 1) : frames[i] # Torn
    BY <1>1, <2>1, <2>3 DEF TornPlaces
  <2>5. CleanPrefix(frames) = SubSeq(frames, 1, first - 1)
    BY <1>3 DEF CleanPrefix, first
  <2>6. /\ SubSeq(frames, 1, first - 1) \in Seq(Frame)
        /\ Len(SubSeq(frames, 1, first - 1)) = first - 1
        /\ \A i \in 1..(first - 1) : SubSeq(frames, 1, first - 1)[i] = frames[i]
    <3>1. /\ \A i \in 1..(first - 1) : frames[i] \in Frame
          /\ 1 \in Int /\ first - 1 \in Int
      BY <1>1, <2>4
    <3>2. /\ SubSeq(frames, 1, first - 1) \in Seq(Frame)
          /\ Len(SubSeq(frames, 1, first - 1)) = IF 1 <= first - 1 THEN first - 1 - 1 + 1 ELSE 0
          /\ \A i \in 1..(first - 1 - 1 + 1) : SubSeq(frames, 1, first - 1)[i] = frames[1 + i - 1]
      BY <3>1, SubSeqProperties
    <3> QED  BY <2>4, <3>2
  <2> USE <2>4
  <2>7. WITNESS first - 1 \in 0..Len(frames)
  <2> QED  BY <1>1, <2>5, <2>6
<1> QED  BY <1>2, <1>3

----------------------------------------------------------------------------
(* Each method keeps the types.                                            *)

\* The steps of the log.
LEMMA RecordsAreFrames ==
  ASSUME NEW s \in Seq(Record)
  PROVE  s \in Seq(Frame) /\ Len(s) \in Nat /\ DOMAIN s = 1..Len(s) /\ \A i \in 1..Len(s) : s[i] \in Record
BY DEF Frame

LEMMA WalAppend ==
  ASSUME WalTypes, NEW recs \in Seq(Record), AppendAll(recs)
  PROVE  WalTypes'
BY ConcatProperties DEF WalTypes, AppendAll

LEMMA WalWrite ==
  ASSUME WalTypes, WriteGroup
  PROVE  /\ WalTypes' /\ Len(file') = Len(file) + Len(group)
         /\ \A i \in 1..Len(file) : file'[i] = file[i]
         /\ \A i \in 1..Len(group) : file'[Len(file) + i] = group[i]
<1>1. /\ file \in Seq(Frame) /\ group \in Seq(Frame) /\ Len(file) \in Nat /\ Len(group) \in Nat
      /\ synced \in 0..Len(file) /\ UNCHANGED <<synced, group>> /\ file' = file \o group
  BY RecordsAreFrames DEF WalTypes, WriteGroup
<1>2. /\ file' \in Seq(Frame) /\ Len(file') = Len(file) + Len(group)
      /\ \A i \in 1..(Len(file) + Len(group)) :
           file'[i] = IF i <= Len(file) THEN file[i] ELSE group[i - Len(file)]
  BY <1>1, ConcatProperties
<1>3. \A i \in 1..Len(file) : file'[i] = file[i]
  BY <1>1, <1>2
<1>4. \A i \in 1..Len(group) : file'[Len(file) + i] = group[i]
  <2> TAKE i \in 1..Len(group)
  <2>1. Len(file) + i \in 1..(Len(file) + Len(group)) /\ ~ (Len(file) + i <= Len(file))
        /\ Len(file) + i - Len(file) = i
    BY <1>1
  <2> QED  BY <1>2, <2>1
<1> QED  BY <1>1, <1>2, <1>3, <1>4 DEF WalTypes

\* What a failed write leaves behind, and that it leaves nothing if it fails
\* before the first byte.
LEMMA WalWriteFails ==
  ASSUME WalTypes, WriteGroupFails
  PROVE  WalTypes' /\ ("partial" \notin Faults => file' = file)
<1>1. PICK n \in 0..(Len(group) - 1), rest \in {<< >>, <<Torn>>} :
        /\ IF n = 0 /\ rest = << >> THEN "write" \in Faults ELSE "partial" \in Faults
        /\ file' = file \o SubSeq(group, 1, n) \o rest
  BY DEF WriteGroupFails
<1>2. /\ file \in Seq(Frame) /\ group \in Seq(Frame) /\ Len(group) \in Nat /\ Len(file) \in Nat
      /\ n \in 0..Len(group) /\ UNCHANGED <<synced, group>>
  BY RecordsAreFrames DEF WalTypes, WriteGroupFails
<1> DEFINE left == SubSeq(group, 1, n) \o rest
<1>3. left \in Seq(Frame) /\ SubSeq(group, 1, n) \in Seq(Frame) /\ rest \in Seq(Frame)
  <2>1. left \in Seq(Frame)
    BY <1>2, CutFrames
  <2>2. SubSeq(group, 1, n) \in Seq(Frame)
    BY <1>2, SubSeqProperties
  <2>3. Torn \in Frame
    BY DEF Frame
  <2> QED  BY <2>1, <2>2, <2>3
<1>4. file' = file \o left
  <2> DEFINE front == SubSeq(group, 1, n)
  <2>1. front \in Seq(Frame) /\ file' = (file \o front) \o rest
    BY <1>1, <1>3
  <2> HIDE DEF front
  <2>2. ASSUME NEW s \in Seq(Frame), NEW t \in Seq(Frame), NEW u \in Seq(Frame)
        PROVE  (s \o t) \o u = s \o (t \o u)
    BY ConcatAssociative
  <2>3. file \in Seq(Frame) /\ front \in Seq(Frame) /\ rest \in Seq(Frame)
    BY <1>2, <1>3, <2>1
  <2> HIDE DEF left
  <2>4. (file \o front) \o rest = file \o (front \o rest)
    BY <2>2, <2>3
  <2> QED  BY <2>1, <2>4 DEF front, left
<1>5. file' \in Seq(Frame) /\ Len(file') = Len(file) + Len(left) /\ Len(left) \in Nat
  <2> HIDE DEF left
  <2> QED  BY <1>2, <1>3, <1>4, ConcatProperties
<1>6. "partial" \notin Faults => file' = file
  <2> SUFFICES ASSUME "partial" \notin Faults PROVE file' = file
    OBVIOUS
  <2>1. n = 0 /\ rest = << >>
    BY <1>1
  <2>2. SubSeq(group, 1, 0) = << >>
    BY SubSeqEmpty
  <2> QED  BY <1>1, <1>2, <2>1, <2>2, ConcatEmptySeq
<1> QED  BY <1>2, <1>5, <1>6 DEF WalTypes

LEMMA WalSync ==
  ASSUME WalTypes, SyncGroup
  PROVE  WalTypes' /\ file' = file /\ group' = << >> /\ synced' = Len(file)
BY DEF WalTypes, SyncGroup

\* A crash keeps what is synced.
LEMMA WalLoses ==
  ASSUME WalTypes, LoseTail
  PROVE  /\ WalTypes' /\ group' = << >> /\ synced <= synced'
         /\ \A i \in 1..synced : file'[i] = file[i]
         /\ \A i \in 1..Len(file') : i = Len(file') \/ (i <= Len(file) /\ file'[i] = file[i])
         /\ \A i \in 1..Len(file') : file'[i] = Torn \/ (i <= Len(file) /\ file'[i] = file[i])
<1>0. PICK n \in synced..Len(file) :
        \E rest \in {<< >>} \cup (IF n < Len(file) THEN {<<Torn>>} ELSE {}) :
          /\ file' = SubSeq(file, 1, n) \o rest
          /\ synced' \in {n + Len(rest)} \cup (IF "kill" \in Faults THEN {synced} ELSE {})
  BY DEF LoseTail
<1>1. PICK rest \in {<< >>, <<Torn>>} :
        /\ file' = SubSeq(file, 1, n) \o rest
        /\ synced' \in {n + Len(rest)} \cup (IF "kill" \in Faults THEN {synced} ELSE {})
  BY <1>0
<1>2. /\ n \in 0..Len(file) /\ file \in Seq(Frame) /\ Len(file) \in Nat
      /\ synced \in 0..Len(file) /\ synced \in Int /\ n \in Int /\ synced <= n
  BY <1>1 DEF WalTypes
<1>3. /\ file' \in Seq(Frame) /\ Len(rest) \in {0, 1} /\ Len(file') = n + Len(rest)
      /\ \A i \in 1..n : file'[i] = file[i]
      /\ rest # << >> => file'[n + 1] = Torn
  BY <1>1, <1>2, CutFrames
<1>4. Len(rest) = 1 => rest # << >>
  OBVIOUS
<1>5. group' = << >>
  BY DEF LoseTail, DropWriter
<1>6. synced' \in 0..Len(file') /\ synced <= synced'
  BY <1>1, <1>2, <1>3
<1>7. \A i \in 1..Len(file') : (i <= n /\ file'[i] = file[i]) \/ (i = Len(file') /\ file'[i] = Torn)
  <2>1. CASE Len(rest) = 0
    BY <1>2, <1>3, <2>1
  <2>2. CASE Len(rest) = 1
    <3>1. Len(file') = n + 1 /\ file'[n + 1] = Torn
      BY <1>3, <1>4, <2>2
    <3> QED  BY <1>2, <1>3, <3>1
  <2> QED  BY <1>3, <2>1, <2>2
<1> QED  BY <1>2, <1>3, <1>5, <1>6, <1>7 DEF WalTypes

LEMMA WalReopens ==
  ASSUME WalTypes, Reopen(CleanPrefix(file))
  PROVE  /\ WalTypes' /\ group' = << >> /\ file' = CleanPrefix(file)
         /\ nextLsn' = Len(file') + 1
         /\ \A i \in 1..Len(file') : i <= Len(file) /\ file'[i] = file[i] /\ file[i] # Torn
         /\ file' = file => synced' = synced
         /\ file' # file => synced' = Len(file') /\ \E i \in 1..Len(file) : file[i] = Torn /\ Len(file') = i - 1
<1>1. /\ file \in Seq(Frame) /\ Len(file) \in Nat /\ synced \in 0..Len(file)
      /\ file' = CleanPrefix(file) /\ group' = << >> /\ nextLsn' = Len(CleanPrefix(file)) + 1
      /\ synced' = IF file' = file THEN synced ELSE Len(file')
  BY DEF WalTypes, Reopen
<1>2. PICK n \in 0..Len(file) :
           /\ file' \in Seq(Frame) /\ Len(file') = n
           /\ \A i \in 1..n : file'[i] = file[i] /\ file[i] # Torn
           /\ n = Len(file) => file' = file
           /\ n < Len(file) => file[n + 1] = Torn
  BY <1>1, CleanFrames
<1>3. synced' \in 0..Len(file') /\ group' \in Seq(Record)
  BY <1>1, <1>2
<1>4. file' # file => \E i \in 1..Len(file) : file[i] = Torn /\ Len(file') = i - 1
  <2>1. file' # file => n + 1 \in 1..Len(file) /\ file[n + 1] = Torn /\ Len(file') = n + 1 - 1
    BY <1>1, <1>2
  <2> QED  BY <2>1
<1> QED  BY <1>1, <1>2, <1>3, <1>4 DEF WalTypes

----------------------------------------------------------------------------
(* Each step of the database keeps the types.                               *)

\* The store's methods leave its writes what they are.
StoreTypes == writes \in [Txns -> SUBSET Keys]

LEMMA StoreSteps ==
  ASSUME StoreTypes, \/ Begin \/ (\E t \in Txns : Commit(t) \/ CommitLogFails(t) \/ Abort(t))
                     \/ (\E t \in Txns, k \in Keys : Set(t, k))
                     \/ UNCHANGED storeVars
                     \/ writes' = [t \in Txns |-> {}]
  PROVE  StoreTypes'
<1>1. CASE \E t \in Txns, k \in Keys : Set(t, k)
  BY <1>1 DEF StoreTypes, Set, Buffer, Revive
<1> QED  BY <1>1 DEF StoreTypes, Begin, Commit, CommitLogFails, Abort, storeVars

LEMMA LogTypesStep == ASSUME LogTypes, [DbNext]_dbVars PROVE LogTypes'
<1> USE DEF LogTypes, history, Running
<1>1. CASE TxnBegin
  <2>1. Begin /\ UNCHANGED walVars
    BY <1>1 DEF TxnBegin
  <2>2. StoreTypes'
    BY <2>1, StoreSteps DEF StoreTypes
  <2> QED  BY <1>1, <2>2 DEF TxnBegin, StoreTypes, walVars, WalTypes
<1>2. ASSUME NEW t \in Txns, Insert(t) PROVE LogTypes'
  <2>1. StoreTypes'
    BY <1>2, StoreSteps DEF Insert, StoreTypes
  <2> QED  BY <1>2, <2>1 DEF Insert, StoreTypes, walVars, WalTypes
<1>3. ASSUME NEW t \in Txns, CommitReadOnly(t) PROVE LogTypes'
  <2>1. StoreTypes'
    BY <1>3, StoreSteps DEF CommitReadOnly, StoreTypes
  <2> QED  BY <1>3, <2>1 DEF CommitReadOnly, StoreTypes, walVars, WalTypes
<1>4. ASSUME NEW t \in Txns, CommitStarts(t) PROVE LogTypes'
  <2>0. CommitRecords(t) \in Seq(Record)
    <3>1. writes[t] \in SUBSET Keys
      OBVIOUS
    <3> QED  BY <3>1, GroupOfCommit
  <2>1. WalTypes'
    BY <1>4, <2>0, WalAppend DEF CommitStarts
  <2> QED  BY <1>4, <2>1 DEF CommitStarts, storeVars, Jobs
<1>5. ASSUME NEW t \in Txns, RollbackStarts(t) PROVE LogTypes'
  <2>1. <<AbortRec(t)>> \in Seq(Record)
    <3>1. AbortRec(t) \in Record
      BY DEF Record
    <3> QED  BY <3>1
  <2>2. WalTypes'
    BY <1>5, <2>1, WalAppend DEF RollbackStarts
  <2>3. StoreTypes'
    BY <1>5, StoreSteps DEF RollbackStarts, StoreTypes
  <2> QED  BY <1>5, <2>2, <2>3 DEF RollbackStarts, StoreTypes, Jobs
<1>6. CASE CloseStarts
  BY <1>6 DEF CloseStarts, storeVars, walVars, WalTypes, Jobs
<1>7. ASSUME Leave, WalTypes', answer' \in [Txns -> {"none", "ok", "failed", "aborted", "unknown"}],
             UNCHANGED asked
      PROVE  LogTypes'
  BY <1>7 DEF Leave, Restore, Jobs
<1>8. CASE CloseAtOnce
  <2>1. WalTypes'
    BY <1>8 DEF CloseAtOnce, walVars, WalTypes
  <2> QED  BY <1>7, <1>8, <2>1 DEF CloseAtOnce
<1>9. CASE JobWrites
  <2>1. [job EXCEPT !.step = "sync"] \in Jobs
    BY <1>9 DEF JobWrites, Jobs, NoJob
  <2>2. WalTypes'
    BY <1>9, WalWrite DEF JobWrites
  <2> QED  BY <1>9, <2>1, <2>2 DEF JobWrites, storeVars
<1>10. job.op = "commit" => job.txn \in Txns
  BY DEF Jobs, NoJob
<1>11. CASE JobSucceeds
  <2>1. WalTypes'
    BY <1>11, WalSync DEF JobSucceeds
  <2>2. CASE job.op = "commit" /\ Commit(job.txn)
    <3>1. StoreTypes'
      BY <1>10, <2>2, StoreSteps DEF StoreTypes
    <3>2. CASE answer' = [answer EXCEPT ![job.txn] = "ok"] /\ job' = NoJob /\ UNCHANGED <<phase, asked>>
      BY <2>1, <3>1, <3>2 DEF StoreTypes, Jobs
    <3> QED  BY <1>11, <2>2, <3>2 DEF JobSucceeds
  <2>3. CASE job' = NoJob /\ UNCHANGED <<storeVars, phase, answer, asked>>
    BY <2>1, <2>3 DEF storeVars, Jobs
  <2>4. CASE Leave /\ UNCHANGED <<answer, asked>>
    BY <1>7, <2>1, <2>4
  <2> QED  BY <1>11, <2>2, <2>3, <2>4 DEF JobSucceeds
<1>12. CASE JobFails
  <2>1. WalTypes'
    BY <1>12, WalWriteFails DEF JobFails, SyncGroupFails, walVars, WalTypes
  <2>2. CASE job.op = "commit" /\ CommitLogFails(job.txn)
    <3>1. StoreTypes'
      BY <1>10, <2>2, StoreSteps DEF StoreTypes
    <3>2. CASE answer' = [answer EXCEPT ![job.txn] = "failed"] /\ job' = NoJob /\ UNCHANGED <<phase, asked>>
      BY <2>1, <3>1, <3>2 DEF StoreTypes, Jobs
    <3> QED  BY <1>12, <2>2, <3>2 DEF JobFails
  <2>3. CASE job' = NoJob /\ UNCHANGED <<storeVars, phase, answer, asked>>
    BY <2>1, <2>3 DEF storeVars, Jobs
  <2>4. CASE Leave /\ UNCHANGED <<answer, asked>>
    BY <1>7, <2>1, <2>4
  <2> QED  BY <1>12, <2>2, <2>3, <2>4 DEF JobFails
<1>13. CASE Crash
  <2>1. WalTypes'
    BY <1>13, WalLoses DEF Crash
  <2>2. answer' \in [Txns -> {"none", "ok", "failed", "aborted", "unknown"}]
    BY <1>13 DEF Crash
  <2> QED  BY <1>7, <1>13, <2>1, <2>2 DEF Crash
<1>14. CASE Recover
  <2>1. WalTypes'
    BY <1>14, WalReopens DEF Recover
  <2>2. writes' = [t \in Txns |-> {}]
    BY <1>14 DEF Recover, Restore
  <2> QED  BY <1>14, <2>1, <2>2 DEF Recover
<1>15. CASE RecoverRefuses
  BY <1>15 DEF RecoverRefuses, storeVars, walVars, WalTypes
<1>16. CASE UNCHANGED dbVars
  BY <1>16 DEF dbVars, storeVars, walVars, WalTypes
<1> QED  BY <1>1, <1>2, <1>3, <1>4, <1>5, <1>6, <1>8, <1>9, <1>11, <1>12, <1>13, <1>14, <1>15,
           <1>16 DEF DbNext

----------------------------------------------------------------------------
(* Durability of answered commits, where no write stops half-way.           *)

\* The frames r lie in a row within the first n of s.
RunIn(s, n, r) == \E m \in 0..(n - Len(r)) : \A i \in 1..Len(r) : s[m + i] = r[i]

\* A commit that was answered Ok has its whole group, in one piece, in the part
\* of the log that no crash removes (wal.rs:489-515, engine.rs finish_commit).
AnsweredIsLogged ==
  \A t \in Txns :
    answer[t] = "ok" /\ asked[t] # {} => RunIn(file, synced, RecordsOf(t, asked[t]))

\* A torn frame is the last one, and is cut off before the database is open.
TornAtEnd == \A i \in 1..Len(file) : file[i] = Torn => i = Len(file) /\ phase # "open"

\* The commit at work, on its way from the writer to the disk.
JobIsLogged ==
  /\ phase # "open" => job = NoJob
  /\ job.op = "commit" =>
       LET r == RecordsOf(job.txn, asked[job.txn]) IN
       /\ job.step = "write" => RunIn(group, Len(group), r)
       /\ job.step = "sync" => RunIn(file, Len(file), r)

\* Nobody is told of a transaction in flight, and only the one at work has asked.
PendingIsSilent ==
  \A t \in Txns \cap pending :
    answer[t] = "none" /\ (asked[t] # {} => job.op = "commit" /\ job.txn = t)

LogInv == LogTypes /\ TornAtEnd /\ JobIsLogged /\ PendingIsSilent /\ AnsweredIsLogged

LEMMA RunStays ==
  ASSUME NEW s, NEW s2, NEW n \in Nat, NEW n2 \in Nat, n <= n2, \A i \in 1..n : s2[i] = s[i],
         NEW r, Len(r) \in Nat, RunIn(s, n, r)
  PROVE  RunIn(s2, n2, r)
<1>1. PICK m \in 0..(n - Len(r)) : \A i \in 1..Len(r) : s[m + i] = r[i]
  BY DEF RunIn
<1>2. m \in 0..(n2 - Len(r)) /\ \A i \in 1..Len(r) : m + i \in 1..n
  OBVIOUS
<1> QED  BY <1>1, <1>2 DEF RunIn

\* The run r at the end of s that was put behind n others.
LEMMA RunMoves ==
  ASSUME NEW s, NEW s2, NEW n \in Nat, NEW k \in Nat, \A i \in 1..k : s2[n + i] = s[i],
         NEW r, Len(r) \in Nat, RunIn(s, k, r), NEW n2 \in Nat, n2 = n + k
  PROVE  RunIn(s2, n2, r)
<1>1. PICK m \in 0..(k - Len(r)) : \A i \in 1..Len(r) : s[m + i] = r[i]
  BY DEF RunIn
<1>2. PICK p \in 0..(n2 - Len(r)) : p = n + m
  OBVIOUS
<1>3. \A i \in 1..Len(r) : s2[p + i] = r[i]
  <2> TAKE i \in 1..Len(r)
  <2>1. m + i \in 1..k /\ p + i = n + (m + i)
    BY <1>2
  <2> QED  BY <1>1, <2>1
<1> QED  BY <1>3 DEF RunIn

\* What append adds is in the group.
LEMMA RunAppended ==
  ASSUME WalTypes, NEW r \in Seq(Record), AppendAll(r)
  PROVE  RunIn(group', Len(group'), r)
<1>1. /\ group \in Seq(Record) /\ Len(group) \in Nat /\ Len(r) \in Nat /\ group' = group \o r
  BY DEF WalTypes, AppendAll
<1>2. /\ Len(group') = Len(group) + Len(r)
      /\ \A i \in 1..(Len(group) + Len(r)) :
           group'[i] = IF i <= Len(group) THEN group[i] ELSE r[i - Len(group)]
  BY <1>1, ConcatProperties
<1>3. Len(group) \in 0..(Len(group') - Len(r))
  BY <1>1, <1>2
<1>4. ASSUME NEW i \in 1..Len(r) PROVE group'[Len(group) + i] = r[i]
  <2>1. /\ Len(group) + i \in 1..(Len(group) + Len(r)) /\ ~ (Len(group) + i <= Len(group))
        /\ Len(group) + i - Len(group) = i
    BY <1>1
  <2> QED  BY <1>2, <2>1
<1> QED  BY <1>3, <1>4 DEF RunIn

LEMMA RecordsShape ==
  ASSUME LogTypes, NEW t \in Txns
  PROVE  /\ RecordsOf(t, asked[t]) \in Seq(Record)
         /\ Len(RecordsOf(t, asked[t])) \in Nat \ {0}
         /\ \A i \in 1..Len(RecordsOf(t, asked[t])) : RecordsOf(t, asked[t])[i] # Torn
<1>1. asked[t] \in SUBSET Keys
  BY DEF LogTypes
<1>2. RecordsOf(t, asked[t]) \in Seq(Record) /\ Len(RecordsOf(t, asked[t])) \in Nat \ {0}
  BY <1>1, GroupOfCommit
<1> QED  BY <1>2, TornIsNoRecord

\* A step that keeps the synced frames, asks and answers nothing new.
LEMMA AnsweredStays ==
  ASSUME LogTypes, LogTypes', AnsweredIsLogged,
         synced <= synced', \A i \in 1..synced : file'[i] = file[i],
         \A t \in Txns : answer'[t] = "ok" /\ asked'[t] # {} => answer[t] = "ok" /\ asked'[t] = asked[t]
  PROVE  AnsweredIsLogged'
<1> SUFFICES ASSUME NEW t \in Txns, answer'[t] = "ok", asked'[t] # {}
             PROVE  RunIn(file', synced', RecordsOf(t, asked[t]))
  BY DEF AnsweredIsLogged
<1>1. RunIn(file, synced, RecordsOf(t, asked[t])) /\ Len(RecordsOf(t, asked[t])) \in Nat
  BY RecordsShape DEF AnsweredIsLogged
<1>2. synced \in Nat /\ synced' \in Nat
  BY DEF LogTypes, WalTypes
<1> QED  BY <1>1, <1>2, RunStays

\* One step of the database, its log failing at once or not at all.
LEMMA LogInvStep == ASSUME "partial" \notin Faults, LogInv, [DbNext]_dbVars PROVE LogInv'
<1> USE DEF LogInv, history, Running
<1>0. LogTypes'
  BY LogTypesStep
<1>a. WalTypes /\ WalTypes'
  BY <1>0 DEF LogTypes
<1>b. /\ file \in Seq(Frame) /\ synced \in 0..Len(file) /\ group \in Seq(Record)
      /\ Len(file) \in Nat /\ Len(group) \in Nat /\ synced \in Nat
  BY <1>a DEF WalTypes
<1>c. asked \in [Txns -> SUBSET Keys] /\ answer \in [Txns -> {"none", "ok", "failed", "aborted", "unknown"}]
  BY DEF LogTypes
<1>1. ASSUME UNCHANGED <<walVars, phase, job>> PROVE TornAtEnd'
  BY <1>1 DEF TornAtEnd, walVars
<1>2. ASSUME UNCHANGED <<walVars, phase, job, asked>> PROVE JobIsLogged'
  BY <1>2 DEF JobIsLogged, walVars
<1>3. ASSUME UNCHANGED walVars,
             \A t \in Txns : answer'[t] = "ok" /\ asked'[t] # {} => answer[t] = "ok" /\ asked'[t] = asked[t]
      PROVE  AnsweredIsLogged'
  BY <1>0, <1>3, <1>b, AnsweredStays DEF walVars
<1>4. CASE TxnBegin
  <2>1. /\ UNCHANGED <<walVars, phase, job>> /\ pending' = pending \cup {nextTxn} /\ job = NoJob
        /\ asked' = [asked EXCEPT ![nextTxn] = {}] /\ answer' = [answer EXCEPT ![nextTxn] = "none"]
    BY <1>4 DEF TxnBegin, Begin
  <2>2. JobIsLogged'
    BY <2>1 DEF JobIsLogged, NoJob
  <2>3. PendingIsSilent'
    BY <1>c, <2>1 DEF PendingIsSilent, NoJob
  <2>4. AnsweredIsLogged'
    BY <1>3, <1>c, <2>1
  <2> QED  BY <1>0, <1>1, <2>1, <2>2, <2>3, <2>4
<1>5. ASSUME NEW t \in Txns, Insert(t) PROVE LogInv'
  <2>1. UNCHANGED <<walVars, phase, job, asked, answer, pending>>
    BY <1>5 DEF Insert, Set, Buffer, Revive
  <2>2. PendingIsSilent' /\ AnsweredIsLogged'
    BY <1>3, <2>1 DEF PendingIsSilent
  <2> QED  BY <1>0, <1>1, <1>2, <2>1, <2>2
<1>6. ASSUME NEW t \in Txns, CommitReadOnly(t) PROVE LogInv'
  <2>1. /\ UNCHANGED <<walVars, phase, job, asked>> /\ pending' = pending \ {t} /\ t \in pending
        /\ answer' = [answer EXCEPT ![t] = "ok"] /\ job = NoJob
    BY <1>6 DEF CommitReadOnly, Commit, Forget
  <2>2. asked[t] = {}
    BY <2>1 DEF PendingIsSilent, NoJob
  <2>3. PendingIsSilent' /\ AnsweredIsLogged'
    BY <1>3, <1>c, <2>1, <2>2 DEF PendingIsSilent
  <2> QED  BY <1>0, <1>1, <1>2, <2>1, <2>3
<1>7. ASSUME NEW t \in Txns, CommitStarts(t) PROVE LogInv'
  <2>1. /\ UNCHANGED <<file, synced, phase, answer, pending>> /\ job = NoJob /\ phase = "open"
        /\ t \in pending /\ asked' = [asked EXCEPT ![t] = writes[t]]
        /\ job' = [op |-> "commit", txn |-> t, step |-> "write"] /\ AppendAll(CommitRecords(t))
    BY <1>7 DEF CommitStarts, storeVars, AppendAll
  <2>2. TornAtEnd'
    BY <2>1 DEF TornAtEnd
  <2>3. CommitRecords(t) = RecordsOf(t, asked'[t]) /\ CommitRecords(t) \in Seq(Record)
    <3>1. writes[t] \in SUBSET Keys /\ asked'[t] = writes[t]
      BY <1>c, <2>1 DEF LogTypes
    <3> QED  BY <3>1, GroupOfCommit
  <2>4. RunIn(group', Len(group'), RecordsOf(t, asked'[t]))
    BY <1>a, <2>1, <2>3, RunAppended
  <2>5. JobIsLogged'
    BY <2>1, <2>4 DEF JobIsLogged
  <2>6. PendingIsSilent'
    BY <1>c, <2>1 DEF PendingIsSilent, NoJob
  <2>7. AnsweredIsLogged'
    <3>1. answer[t] = "none"
      BY <2>1 DEF PendingIsSilent
    <3> QED  BY <1>0, <1>b, <1>c, <2>1, <3>1, AnsweredStays
  <2> QED  BY <1>0, <2>2, <2>5, <2>6, <2>7
<1>8. ASSUME NEW t \in Txns, RollbackStarts(t) PROVE LogInv'
  <2>1. /\ UNCHANGED <<file, synced, phase, asked>> /\ pending' = pending \ {t} /\ t \in pending
        /\ answer' = [answer EXCEPT ![t] = "aborted"] /\ job = NoJob /\ phase = "open"
        /\ job' = [op |-> "rollback", txn |-> t, step |-> "write"]
    BY <1>8 DEF RollbackStarts, Abort, Forget, AppendAll
  <2>2. TornAtEnd' /\ JobIsLogged'
    BY <2>1 DEF TornAtEnd, JobIsLogged
  <2>3. PendingIsSilent'
    BY <1>c, <2>1 DEF PendingIsSilent, NoJob
  <2>4. AnsweredIsLogged'
    BY <1>0, <1>b, <1>c, <2>1, AnsweredStays
  <2> QED  BY <1>0, <2>2, <2>3, <2>4
<1>9. CASE CloseStarts
  <2>1. /\ UNCHANGED <<walVars, phase, asked, answer, pending>> /\ phase = "open" /\ job = NoJob
        /\ job' = [op |-> "close", txn |-> NoTxn, step |-> "write"]
    BY <1>9 DEF CloseStarts, storeVars
  <2>2. TornAtEnd' /\ JobIsLogged'
    BY <2>1 DEF TornAtEnd, JobIsLogged, walVars
  <2>3. PendingIsSilent' /\ AnsweredIsLogged'
    BY <1>3, <2>1 DEF PendingIsSilent, NoJob
  <2> QED  BY <1>0, <2>2, <2>3
<1>10. ASSUME Leave, UNCHANGED <<asked, answer>>, group' = << >>, synced <= synced',
              \A i \in 1..synced : file'[i] = file[i], TornAtEnd'
       PROVE  LogInv'
  <2>1. /\ phase' = "down" /\ job' = NoJob /\ pending' = {}
    BY <1>10 DEF Leave, Restore
  <2>2. JobIsLogged' /\ PendingIsSilent'
    BY <2>1 DEF JobIsLogged, PendingIsSilent, NoJob
  <2>3. AnsweredIsLogged'
    BY <1>0, <1>10, AnsweredStays
  <2> QED  BY <1>0, <1>10, <2>2, <2>3
<1>11. CASE CloseAtOnce
  <2>1. TornAtEnd'
    BY <1>11 DEF CloseAtOnce, walVars, TornAtEnd
  <2> QED  BY <1>10, <1>11, <1>b, <2>1 DEF CloseAtOnce, walVars
<1>12. job # NoJob => phase = "open" /\ \A i \in 1..Len(file) : file[i] # Torn
  BY DEF JobIsLogged, TornAtEnd
<1>13. job.op = "commit" => job.txn \in Txns /\ job # NoJob
  BY DEF LogTypes, Jobs, NoJob
<1>14. job.step \in {"write", "sync"} => job # NoJob
  BY DEF NoJob
<1>15. CASE JobWrites
  <2>1. /\ WriteGroup /\ UNCHANGED <<phase, answer, asked, pending>> /\ job.step = "write"
        /\ job' = [job EXCEPT !.step = "sync"]
    BY <1>15 DEF JobWrites, storeVars
  <2>2. /\ job'.op = job.op /\ job'.txn = job.txn /\ job'.step = "sync"
    BY <1>14, <2>1 DEF LogTypes, Jobs
  <2>3. /\ Len(file') = Len(file) + Len(group)
        /\ \A i \in 1..Len(file) : file'[i] = file[i]
        /\ \A i \in 1..Len(group) : file'[Len(file) + i] = group[i]
        /\ UNCHANGED synced
    BY <1>a, <2>1, WalWrite DEF WriteGroup
  <2>4. TornAtEnd'
    <3>1. ASSUME NEW i \in 1..Len(file') PROVE file'[i] # Torn
      <4>1. CASE i <= Len(file)
        BY <1>12, <1>14, <1>b, <2>1, <2>3, <4>1
      <4>2. CASE ~ (i <= Len(file))
        <5>1. PICK j \in 1..Len(group) : i = Len(file) + j
          <6>1. i - Len(file) \in 1..Len(group) /\ i = Len(file) + (i - Len(file))
            BY <1>b, <2>3, <4>2
          <6> QED  BY <6>1
        <5>2. group[j] \in Record
          BY <1>b
        <5> QED  BY <2>3, <5>1, <5>2, TornIsNoRecord
      <4> QED  BY <4>1, <4>2
    <3> QED  BY <3>1 DEF TornAtEnd
  <2>5. JobIsLogged'
    <3>1. phase' = "open"
      BY <1>12, <1>14, <2>1
    <3>2. ASSUME job.op = "commit"
          PROVE  RunIn(file', Len(file'), RecordsOf(job.txn, asked[job.txn]))
      <4>1. RunIn(group, Len(group), RecordsOf(job.txn, asked[job.txn]))
        BY <2>1, <3>2 DEF JobIsLogged
      <4>2. Len(RecordsOf(job.txn, asked[job.txn])) \in Nat
        BY <1>13, <3>2, RecordsShape
      <4>3. Len(file') \in Nat /\ Len(file') = Len(file) + Len(group)
        BY <1>b, <2>3
      <4> DEFINE r == RecordsOf(job.txn, asked[job.txn])
      <4> HIDE DEF r
      <4>4. RunIn(file', Len(file'), r)
        BY <1>b, <2>3, <4>1, <4>2, <4>3, RunMoves DEF r
      <4> QED  BY <4>4 DEF r
    <3> QED  BY <2>1, <2>2, <3>1, <3>2 DEF JobIsLogged
  <2>6. PendingIsSilent'
    BY <2>1, <2>2 DEF PendingIsSilent
  <2>7. AnsweredIsLogged'
    <3>1. \A i \in 1..synced : file'[i] = file[i]
      BY <1>b, <2>3
    <3> QED  BY <1>0, <1>b, <2>1, <2>3, <3>1, AnsweredStays
  <2> QED  BY <1>0, <2>4, <2>5, <2>6, <2>7
<1>16. CASE JobSucceeds
  <2>1. /\ job.step = "sync" /\ file' = file /\ group' = << >> /\ synced' = Len(file) /\ UNCHANGED asked
    BY <1>16, <1>a, WalSync DEF JobSucceeds
  <2>2. synced <= synced' /\ \A i \in 1..synced : file'[i] = file[i]
    BY <1>b, <2>1
  <2>3. \A i \in 1..Len(file') : file'[i] # Torn
    BY <1>12, <1>14, <2>1
  <2>4. TornAtEnd'
    BY <2>3 DEF TornAtEnd
  <2>5. CASE job.op = "commit" /\ Commit(job.txn) /\ answer' = [answer EXCEPT ![job.txn] = "ok"]
             /\ job' = NoJob /\ UNCHANGED phase
    <3>1. /\ pending' = pending \ {job.txn} /\ job.txn \in Txns /\ phase = "open"
      BY <1>12, <1>13, <2>5 DEF Commit, Forget
    <3>2. JobIsLogged'
      BY <2>5, <3>1 DEF JobIsLogged, NoJob
    <3>3. PendingIsSilent'
      BY <1>c, <2>1, <2>5, <3>1 DEF PendingIsSilent
    <3>4. ASSUME NEW t \in Txns, answer'[t] = "ok", asked[t] # {}
          PROVE  RunIn(file, Len(file), RecordsOf(t, asked[t]))
      <4>1. CASE t = job.txn
        BY <2>1, <2>5, <4>1 DEF JobIsLogged
      <4>2. CASE t # job.txn
        <5>1. RunIn(file, synced, RecordsOf(t, asked[t])) /\ Len(RecordsOf(t, asked[t])) \in Nat
          BY <1>c, <2>5, <3>4, <4>2, RecordsShape DEF AnsweredIsLogged
        <5>2. synced <= Len(file)
          BY <1>b
        <5> QED  BY <1>b, <5>1, <5>2, RunStays
      <4> QED  BY <4>1, <4>2
    <3>5. AnsweredIsLogged'
      BY <2>1, <3>4 DEF AnsweredIsLogged
    <3> QED  BY <1>0, <2>4, <3>2, <3>3, <3>5
  <2>6. CASE job.op # "commit" /\ job' = NoJob /\ UNCHANGED <<storeVars, phase, answer>>
    <3>1. JobIsLogged' /\ PendingIsSilent'
      BY <1>12, <1>14, <2>1, <2>6 DEF JobIsLogged, PendingIsSilent, NoJob, storeVars
    <3>2. AnsweredIsLogged'
      BY <1>0, <2>1, <2>2, <2>6, AnsweredStays
    <3> QED  BY <1>0, <2>4, <3>1, <3>2
  <2>7. CASE Leave /\ UNCHANGED answer
    BY <1>10, <2>1, <2>2, <2>4, <2>7
  <2> QED  BY <1>16, <2>5, <2>6, <2>7 DEF JobSucceeds
<1>17. CASE JobFails
  <2>1. /\ job.step \in {"write", "sync"} /\ UNCHANGED <<file, synced, group, asked>>
    <3>1. CASE job.step = "write" /\ WriteGroupFails
      BY <1>17, <1>a, <3>1, WalWriteFails DEF JobFails, WriteGroupFails
    <3>2. CASE job.step = "sync" /\ SyncGroupFails
      BY <1>17, <3>2 DEF JobFails, SyncGroupFails, walVars
    <3> QED  BY <1>17, <3>1, <3>2 DEF JobFails
  <2>2. TornAtEnd'
    BY <1>12, <1>14, <2>1 DEF TornAtEnd
  <2>3. CASE job.op = "commit" /\ CommitLogFails(job.txn) /\ answer' = [answer EXCEPT ![job.txn] = "failed"]
             /\ job' = NoJob /\ UNCHANGED phase
    <3>1. pending' = pending \ {job.txn} /\ job.txn \in Txns /\ phase = "open"
      BY <1>12, <1>13, <2>3 DEF CommitLogFails, Forget
    <3>2. JobIsLogged'
      BY <2>3, <3>1 DEF JobIsLogged, NoJob
    <3>3. PendingIsSilent'
      BY <1>c, <2>1, <2>3, <3>1 DEF PendingIsSilent
    <3>4. AnsweredIsLogged'
      BY <1>0, <1>b, <1>c, <2>1, <2>3, <3>1, AnsweredStays
    <3> QED  BY <1>0, <2>2, <3>2, <3>3, <3>4
  <2>4. CASE job.op # "commit" /\ job' = NoJob /\ UNCHANGED <<storeVars, phase, answer>>
    <3>1. JobIsLogged' /\ PendingIsSilent'
      BY <1>12, <1>14, <2>1, <2>4 DEF JobIsLogged, PendingIsSilent, NoJob, storeVars
    <3>2. AnsweredIsLogged'
      BY <1>0, <1>b, <2>1, <2>4, AnsweredStays
    <3> QED  BY <1>0, <2>2, <3>1, <3>2
  <2>5. CASE Leave /\ UNCHANGED answer
    <3>1. phase' = "down" /\ job' = NoJob /\ pending' = {}
      BY <2>5 DEF Leave, Restore
    <3>2. JobIsLogged' /\ PendingIsSilent'
      BY <3>1 DEF JobIsLogged, PendingIsSilent, NoJob
    <3>3. AnsweredIsLogged'
      BY <1>0, <1>b, <2>1, <2>5, AnsweredStays
    <3> QED  BY <1>0, <2>2, <3>2, <3>3
  <2> QED  BY <1>17, <2>3, <2>4, <2>5 DEF JobFails
<1>18. CASE Crash
  <2>1. /\ LoseTail /\ Leave /\ phase = "open" /\ UNCHANGED asked
        /\ answer' = IF job.op = "commit" THEN [answer EXCEPT ![job.txn] = "unknown"] ELSE answer
    BY <1>18 DEF Crash
  <2>2. /\ synced <= synced' /\ \A i \in 1..synced : file'[i] = file[i]
        /\ \A i \in 1..Len(file') : i = Len(file') \/ (i <= Len(file) /\ file'[i] = file[i])
    BY <1>a, <2>1, WalLoses
  <2>3. phase' = "down" /\ job' = NoJob /\ pending' = {}
    BY <2>1 DEF Leave, Restore
  <2>4. TornAtEnd'
    BY <1>b, <2>1, <2>2, <2>3 DEF TornAtEnd
  <2>5. JobIsLogged' /\ PendingIsSilent'
    BY <2>3 DEF JobIsLogged, PendingIsSilent, NoJob
  <2>6. AnsweredIsLogged'
    <3>1. \A t \in Txns : answer'[t] = "ok" => answer[t] = "ok"
      BY <1>c, <2>1
    <3> QED  BY <1>0, <2>1, <2>2, <3>1, AnsweredStays
  <2> QED  BY <1>0, <2>4, <2>5, <2>6
<1>19. CASE Recover
  <2>1. /\ Reopen(CleanPrefix(file)) /\ UNCHANGED <<job, asked, answer>> /\ phase' = "open"
        /\ pending' = {} /\ phase = "down"
    BY <1>19 DEF Recover, Restore
  <2>2. /\ \A i \in 1..Len(file') : i <= Len(file) /\ file'[i] = file[i] /\ file[i] # Torn
        /\ file' = file => synced' = synced
        /\ file' # file => synced' = Len(file') /\ \E i \in 1..Len(file) : file[i] = Torn /\ Len(file') = i - 1
    BY <1>a, <2>1, WalReopens
  <2>3. TornAtEnd'
    BY <2>2 DEF TornAtEnd
  <2>4. JobIsLogged' /\ PendingIsSilent'
    BY <2>1 DEF JobIsLogged, PendingIsSilent, NoJob
  <2>5. AnsweredIsLogged'
    <3>1. CASE file' = file
      BY <1>0, <1>b, <2>1, <2>2, <3>1, AnsweredStays
    <3>2. CASE file' # file
      <4>1. PICK i \in 1..Len(file) : file[i] = Torn /\ Len(file') = i - 1
        BY <2>2, <3>2
      <4>2. i = Len(file) /\ synced' = Len(file) - 1 /\ Len(file') = Len(file) - 1
        BY <2>2, <3>2, <4>1 DEF TornAtEnd
      <4> SUFFICES ASSUME NEW t \in Txns, answer[t] = "ok", asked[t] # {}
                   PROVE  RunIn(file', synced', RecordsOf(t, asked[t]))
        BY <2>1 DEF AnsweredIsLogged
      <4> DEFINE r == RecordsOf(t, asked[t])
      <4>3. RunIn(file, synced, r) /\ Len(r) \in Nat \ {0} /\ \A j \in 1..Len(r) : r[j] # Torn
        BY RecordsShape DEF AnsweredIsLogged
      <4> HIDE DEF r
      <4>4. PICK m \in 0..(synced - Len(r)) : \A j \in 1..Len(r) : file[m + j] = r[j]
        BY <4>3 DEF RunIn
      <4>5. m + Len(r) # Len(file)
        <5>1. Len(r) \in 1..Len(r)
          BY <4>3
        <5> QED  BY <4>1, <4>2, <4>3, <4>4, <5>1
      <4>6. m \in 0..(synced' - Len(r))
        BY <1>b, <4>2, <4>3, <4>4, <4>5
      <4>7. \A j \in 1..Len(r) : file'[m + j] = r[j]
        <5> TAKE j \in 1..Len(r)
        <5>1. m + j \in 1..Len(file')
          BY <1>b, <4>2, <4>3, <4>6
        <5> QED  BY <2>2, <4>4, <5>1
      <4> QED  BY <4>6, <4>7 DEF RunIn, r
    <3> QED  BY <3>1, <3>2
  <2> QED  BY <1>0, <2>3, <2>4, <2>5
<1>20. CASE RecoverRefuses
  <2>1. UNCHANGED <<storeVars, walVars, job, asked, answer>> /\ phase = "down" /\ phase' = "corrupt"
    BY <1>20 DEF RecoverRefuses
  <2>2. TornAtEnd' /\ JobIsLogged' /\ PendingIsSilent'
    BY <2>1 DEF TornAtEnd, JobIsLogged, PendingIsSilent, storeVars, walVars
  <2>3. AnsweredIsLogged'
    BY <1>3, <2>1
  <2> QED  BY <1>0, <2>2, <2>3
<1>21. CASE UNCHANGED dbVars
  <2>1. UNCHANGED <<walVars, phase, job, asked, answer, pending>>
    BY <1>21 DEF dbVars, storeVars
  <2>2. PendingIsSilent' /\ AnsweredIsLogged'
    BY <1>3, <2>1 DEF PendingIsSilent
  <2> QED  BY <1>0, <1>1, <1>2, <2>1, <2>2
<1> QED  BY <1>4, <1>5, <1>6, <1>7, <1>8, <1>9, <1>11, <1>15, <1>16, <1>17, <1>18, <1>19, <1>20,
           <1>21 DEF DbNext

LEMMA LogInvInit == DbInit => LogInv
<1> SUFFICES ASSUME DbInit PROVE LogInv
  OBVIOUS
<1>1. LogTypes
  BY LogTypesInit
<1>2. /\ file = << >> /\ phase = "open" /\ job = NoJob /\ pending = {}
      /\ answer = [t \in Txns |-> "none"]
  BY DEF DbInit, Init, WalInit
<1>3. TornAtEnd /\ JobIsLogged /\ PendingIsSilent /\ AnsweredIsLogged
  BY <1>2 DEF TornAtEnd, JobIsLogged, PendingIsSilent, AnsweredIsLogged, NoJob
<1> QED  BY <1>1, <1>3 DEF LogInv

\* As long as no write of a group stops half-way, every commit that was answered
\* Ok has its whole group, in one piece, in the synced part of the log: through
\* failed writes and syncs, groups that are written again, crashes at any step,
\* truncated tails and restarts (wal.rs:489-515, 435-448).
THEOREM AnsweredCommitsAreLogged ==
  ASSUME "partial" \notin Faults PROVE DbSpec => []AnsweredIsLogged
<1>1. LogInv /\ [DbNext]_dbVars => LogInv'
  BY LogInvStep
<1>2. LogInv => AnsweredIsLogged
  BY DEF LogInv
<1> QED  BY LogInvInit, <1>1, <1>2, PTL DEF DbSpec

----------------------------------------------------------------------------
(* What replay may meet.                                                    *)

\* The engine never opens on a log it takes for corruption, unless a write stopped
\* half-way or a row is longer than the reader allows (wal.rs:489-491).
THEOREM LogStaysReadable ==
  ASSUME "partial" \notin Faults, BigRows = {} PROVE DbSpec => []WriterNeverCorrupts
<1>1. LogInv /\ [DbNext]_dbVars => LogInv'
  BY LogInvStep
<1>2. LogInv /\ WriterNeverCorrupts /\ [DbNext]_dbVars => WriterNeverCorrupts'
  <2> SUFFICES ASSUME LogInv, WriterNeverCorrupts, [DbNext]_dbVars PROVE WriterNeverCorrupts'
    OBVIOUS
  <2> USE DEF WriterNeverCorrupts
  <2>1. ~ TornInside(file)
    <3>1. DOMAIN file = 1..Len(file) /\ Len(file) \in Nat
      BY DEF LogInv, LogTypes, WalTypes
    <3>2. TornPlaces(file) \subseteq {Len(file)}
      BY <3>1 DEF LogInv, TornAtEnd, TornPlaces
    <3> QED  BY <3>1, <3>2 DEF TornInside
  <2>2. ~ MeetsTooLong(file)
    BY DEF MeetsTooLong, TooLong
  <2>3. ~ RecoverRefuses
    BY <2>1, <2>2 DEF RecoverRefuses
  <2>4. ASSUME phase' \in {phase, "open", "down"} PROVE WriterNeverCorrupts'
    BY <2>4
  <2>5. CASE TxnBegin \/ CloseStarts \/ CloseAtOnce \/ JobWrites \/ Crash \/ Recover
    BY <2>4, <2>5 DEF TxnBegin, CloseStarts, CloseAtOnce, JobWrites, Crash, Recover, Leave
  <2>6. CASE JobSucceeds \/ JobFails
    BY <2>4, <2>6 DEF JobSucceeds, JobFails, Leave
  <2>7. CASE \E t \in Txns : Insert(t) \/ CommitReadOnly(t) \/ CommitStarts(t) \/ RollbackStarts(t)
    BY <2>4, <2>7 DEF Insert, CommitReadOnly, CommitStarts, RollbackStarts
  <2>8. CASE UNCHANGED dbVars
    BY <2>8 DEF dbVars
  <2> QED  BY <2>3, <2>5, <2>6, <2>7, <2>8 DEF DbNext
<1>3. DbInit => WriterNeverCorrupts
  BY DEF DbInit, WriterNeverCorrupts
<1> QED  BY LogInvInit, <1>1, <1>2, <1>3, PTL DEF DbSpec

----------------------------------------------------------------------------
(* Log sequence numbers.                                                    *)

\* Where the writer's counter stands at each step of a group.
LsnInv ==
  /\ phase # "open" => job = NoJob
  /\ phase = "open" => nextLsn = Len(file) + (IF job.step = "sync" THEN 0 ELSE Len(group)) + 1

LEMMA LsnStep ==
  ASSUME Faults \subseteq {"kill"}, LogTypes, LsnInv, [DbNext]_dbVars PROVE LsnInv'
<1> USE DEF LsnInv, LogTypes, Running
<1>0. /\ WalTypes /\ Len(file) \in Nat /\ Len(group) \in Nat
      /\ NoJob.step = "none" /\ (job.step \in {"write", "sync"} => phase = "open")
  BY DEF WalTypes, NoJob
<1>1. ASSUME UNCHANGED <<walVars, phase, job>> PROVE LsnInv'
  BY <1>1 DEF walVars
<1>2. CASE TxnBegin \/ (\E t \in Txns : Insert(t) \/ CommitReadOnly(t)) \/ UNCHANGED dbVars
  BY <1>1, <1>2 DEF TxnBegin, Insert, CommitReadOnly, dbVars
<1>3. ASSUME NEW recs \in Seq(Record), AppendAll(recs), job = NoJob, phase = "open", phase' = "open",
             job'.step = "write"
      PROVE  LsnInv'
  <2>1. /\ group \in Seq(Record) /\ Len(recs) \in Nat /\ file' = file
        /\ group' = group \o recs /\ nextLsn' = nextLsn + Len(recs)
    BY <1>0, <1>3 DEF AppendAll, WalTypes
  <2>2. Len(group') = Len(group) + Len(recs)
    BY <2>1, ConcatProperties
  <2> QED  BY <1>0, <1>3, <2>1, <2>2
<1>4. CASE \E t \in Txns : CommitStarts(t)
  <2>1. PICK t \in Txns : CommitStarts(t)
    BY <1>4
  <2>2. writes[t] \in SUBSET Keys
    OBVIOUS
  <2>3. CommitRecords(t) \in Seq(Record)
    BY <2>2, GroupOfCommit
  <2> QED  BY <1>3, <2>1, <2>3 DEF CommitStarts
<1>5. CASE \E t \in Txns : RollbackStarts(t)
  <2>1. PICK t \in Txns : RollbackStarts(t)
    BY <1>5
  <2>2. AbortRec(t) \in Record
    BY DEF Record
  <2>3. <<AbortRec(t)>> \in Seq(Record)
    BY <2>2
  <2> QED  BY <1>3, <2>1, <2>3 DEF RollbackStarts
<1>6. CASE CloseStarts
  BY <1>0, <1>6 DEF CloseStarts, walVars
<1>7. ASSUME Leave PROVE LsnInv'
  BY <1>7 DEF Leave
<1>8. CASE CloseAtOnce \/ Crash
  BY <1>7, <1>8 DEF CloseAtOnce, Crash
<1>9. CASE JobWrites
  <2>1. Len(file') = Len(file) + Len(group) /\ UNCHANGED <<nextLsn, phase>> /\ job.step = "write"
    BY <1>0, <1>9, WalWrite DEF JobWrites, WriteGroup
  <2>2. job'.step = "sync"
    BY <1>9 DEF JobWrites, Jobs, NoJob
  <2> QED  BY <1>0, <2>1, <2>2
<1>10. CASE JobSucceeds
  <2>1. file' = file /\ group' = << >> /\ UNCHANGED nextLsn /\ job.step = "sync"
    BY <1>10 DEF JobSucceeds, SyncGroup
  <2>2. Len(group') = 0
    BY <2>1
  <2>3. CASE UNCHANGED phase /\ job' = NoJob
    BY <1>0, <2>1, <2>2, <2>3
  <2> QED  BY <1>7, <1>10, <2>3 DEF JobSucceeds
<1>11. ~ JobFails
  BY DEF JobFails, WriteGroupFails, SyncGroupFails
<1>12. CASE Recover
  <2>1. nextLsn' = Len(file') + 1 /\ group' = << >>
    BY <1>0, <1>12, WalReopens DEF Recover
  <2>2. job' = NoJob /\ phase' = "open" /\ Len(group') = 0
    BY <1>12, <2>1 DEF Recover
  <2>3. Len(file') \in Nat
    BY <1>0, <1>12, WalReopens DEF Recover, WalTypes
  <2> QED  BY <1>0, <2>1, <2>2, <2>3
<1>13. CASE RecoverRefuses
  BY <1>13 DEF RecoverRefuses
<1> QED  BY <1>2, <1>4, <1>5, <1>6, <1>8, <1>9, <1>10, <1>11, <1>12, <1>13 DEF DbNext

\* Without failing writes and syncs, log sequence numbers are the positions of the
\* frames, across crashes, truncated tails and restarts (wal.rs:454-461).
THEOREM LsnsStayPositions ==
  ASSUME Faults \subseteq {"kill"} PROVE DbSpec => []LsnsArePositions
<1>1. DbInit => LogTypes /\ LsnInv
  <2>1. DbInit => LsnInv
    BY DEF DbInit, WalInit, LsnInv, NoJob
  <2> QED  BY <2>1, LogTypesInit
<1>2. LogTypes /\ LsnInv /\ [DbNext]_dbVars => LogTypes' /\ LsnInv'
  BY LogTypesStep, LsnStep
<1>3. LsnInv => LsnsArePositions
  BY DEF LsnInv, LsnsArePositions, Running, NoJob
<1> QED  BY <1>1, <1>2, <1>3, PTL DEF DbSpec


----------------------------------------------------------------------------
(* redo_from_records, one record after the other.                          *)

RedoState ==
  [open : SUBSET Txns, puts : [Txns -> SUBSET Keys], maxTxn : Nat, ts : Nat,
   data : [Keys -> Seq(Version)]]

LEMMA TxnsAreNumbers == Txns \subseteq Nat /\ NoTxn \notin Txns
BY MaxTxnsAssumption DEF Txns, NoTxn

LEMMA RecordKinds ==
  ASSUME NEW r \in Record
  PROVE  /\ r.txn \in Txns /\ r.kind \in {"begin", "put", "commit", "abort"}
         /\ r.kind = "begin" => r = BeginRec(r.txn)
         /\ r.kind = "put" => r.key \in Keys /\ r = PutRec(r.txn, r.key)
         /\ r.kind = "commit" => r = CommitRec(r.txn)
         /\ r.kind = "abort" => r = AbortRec(r.txn)
BY DEF Record, BeginRec, PutRec, CommitRec, AbortRec

\* What one record does to the state of redo.
Effect(s, r, n) ==
  /\ s.maxTxn <= n.maxTxn /\ r.txn <= n.maxTxn
  /\ r.kind = "begin" =>
       /\ n.open = s.open \cup {r.txn} /\ n.data = s.data
       /\ \A t \in Txns : t \in s.open \/ t # r.txn => n.puts[t] = s.puts[t]
       /\ r.txn \notin s.open => n.puts[r.txn] = {}
  /\ r.kind = "put" =>
       /\ n.open = s.open /\ n.data = s.data
       /\ \A t \in Txns : t # r.txn => n.puts[t] = s.puts[t]
       /\ r.txn \in s.open => n.puts[r.txn] = s.puts[r.txn] \cup {r.key}
  /\ r.kind = "commit" =>
       /\ n.open = s.open \ {r.txn} /\ n.puts = s.puts
       /\ r.txn \in s.open =>
            n.data = [k \in Keys |->
                        IF k \in s.puts[r.txn]
                        THEN Append(s.data[k], [ts |-> s.ts + 1, by |-> r.txn]) ELSE s.data[k]]
  /\ r.kind = "abort" =>
       n.open = s.open \ {r.txn} /\ n.puts = s.puts /\ n.data = s.data

LEMMA RedoOne ==
  ASSUME NEW s \in RedoState, NEW r \in Record
  PROVE  RedoStep(s, r) \in RedoState /\ Effect(s, r, RedoStep(s, r))
<1> USE DEF Effect
<1>1. /\ r.txn \in Txns /\ r.txn \in Nat /\ r.kind \in {"begin", "put", "commit", "abort"}
      /\ r.kind = "put" => r.key \in Keys
  BY RecordKinds, TxnsAreNumbers
<1>2. /\ s.open \in SUBSET Txns /\ s.puts \in [Txns -> SUBSET Keys] /\ s.maxTxn \in Nat
      /\ s.ts \in Nat /\ s.data \in [Keys -> Seq(Version)]
      /\ s = [open |-> s.open, puts |-> s.puts, maxTxn |-> s.maxTxn, ts |-> s.ts, data |-> s.data]
  BY DEF RedoState
<1> DEFINE top == IF r.txn > s.maxTxn THEN r.txn ELSE s.maxTxn
<1>3. top \in Nat /\ s.maxTxn <= top /\ r.txn <= top
  BY <1>1, <1>2
<1> HIDE DEF top
<1>4. CASE r.kind = "begin" /\ r.txn \notin s.open
  <2>1. RedoStep(s, r) = [open |-> s.open \cup {r.txn}, puts |-> [s.puts EXCEPT ![r.txn] = {}],
                          maxTxn |-> top, ts |-> s.ts, data |-> s.data]
    BY <1>2, <1>4 DEF RedoStep, top
  <2> QED  BY <1>1, <1>2, <1>3, <1>4, <2>1 DEF RedoState
<1>5. CASE r.kind = "put" /\ r.txn \in s.open
  <2>1. RedoStep(s, r) = [open |-> s.open, puts |-> [s.puts EXCEPT ![r.txn] = @ \cup {r.key}],
                          maxTxn |-> top, ts |-> s.ts, data |-> s.data]
    BY <1>2, <1>5 DEF RedoStep, top
  <2> QED  BY <1>1, <1>2, <1>3, <1>5, <2>1 DEF RedoState
<1>6. CASE r.kind = "commit" /\ r.txn \in s.open
  <2> DEFINE d == [k \in Keys |-> IF k \in s.puts[r.txn]
                                  THEN Append(s.data[k], [ts |-> s.ts + 1, by |-> r.txn]) ELSE s.data[k]]
  <2>1. RedoStep(s, r) = [open |-> s.open \ {r.txn}, puts |-> s.puts,
                          maxTxn |-> top, ts |-> s.ts + 1, data |-> d]
    BY <1>2, <1>6 DEF RedoStep, top
  <2>2. d \in [Keys -> Seq(Version)] /\ s.ts + 1 \in Nat
    <3>1. [ts |-> s.ts + 1, by |-> r.txn] \in Version
      BY <1>1, <1>2 DEF Version
    <3> QED  BY <1>2, <3>1
  <2> HIDE DEF d
  <2>3. RedoStep(s, r) \in RedoState
    BY <1>1, <1>2, <1>3, <2>1, <2>2 DEF RedoState
  <2> QED  BY <1>1, <1>2, <1>3, <1>6, <2>1, <2>3 DEF d
<1>7. CASE r.kind = "abort"
  <2>1. RedoStep(s, r) = [open |-> s.open \ {r.txn}, puts |-> s.puts,
                          maxTxn |-> top, ts |-> s.ts, data |-> s.data]
    BY <1>2, <1>7 DEF RedoStep, top
  <2> QED  BY <1>1, <1>2, <1>3, <1>7, <2>1 DEF RedoState
<1>8. CASE \/ r.kind = "begin" /\ r.txn \in s.open
           \/ r.kind \in {"put", "commit"} /\ r.txn \notin s.open
  <2>1. RedoStep(s, r) = [open |-> s.open, puts |-> s.puts,
                          maxTxn |-> top, ts |-> s.ts, data |-> s.data]
    BY <1>1, <1>2, <1>8 DEF RedoStep, top
  <2> QED  BY <1>1, <1>2, <1>3, <1>8, <2>1 DEF RedoState
<1> QED  BY <1>1, <1>4, <1>5, <1>6, <1>7, <1>8

\* The states of redo exist, and each follows from the one before.
LEMMA RedoSteps ==
  ASSUME NEW l \in Seq(Record)
  PROVE  /\ \A n \in 0..Len(l) : RedoStates(l)[n] \in RedoState
         /\ RedoStates(l)[0] = EmptyRedo
         /\ \A n \in 1..Len(l) : RedoStates(l)[n] = RedoStep(RedoStates(l)[n - 1], l[n])
<1> DEFINE N == Len(l)
<1>1. N \in Nat /\ \A n \in 1..N : l[n] \in Record
  OBVIOUS
<1>2. EmptyRedo \in RedoState
  BY DEF EmptyRedo, RedoState
<1> DEFINE step == [n \in 1..N |-> [s \in RedoState |-> RedoStep(s, l[n])]]
<1>3. step \in [1..N -> [RedoState -> RedoState]]
  <2>1. \A n \in 1..N : [s \in RedoState |-> RedoStep(s, l[n])] \in [RedoState -> RedoState]
    BY <1>1, RedoOne
  <2> QED  BY <2>1
<1>4. \A n \in 1..N : \A s \in RedoState : step[n][s] = RedoStep(s, l[n])
  OBVIOUS
<1> HIDE DEF step, N
<1>5. PICK f \in [0..N -> RedoState] : Follows(f, N, EmptyRedo, step)
  BY <1>1, <1>2, <1>3, RecursionTo
<1>6. \A n \in 1..N : f[n] = RedoStep(f[n - 1], l[n])
  <2> TAKE n \in 1..N
  <2>1. n - 1 \in 0..N
    BY <1>1
  <2>2. f[n - 1] \in RedoState
    BY <2>1
  <2> QED  BY <1>4, <1>5, <2>2 DEF Follows
<1>7. f = [n \in 0..N |-> IF n = 0 THEN EmptyRedo ELSE RedoStep(f[n - 1], l[n])]
  <2>1. \A n \in 0..N : f[n] = IF n = 0 THEN EmptyRedo ELSE RedoStep(f[n - 1], l[n])
    BY <1>1, <1>5, <1>6 DEF Follows
  <2> QED  BY <2>1
<1> DEFINE g == RedoStates(l)
<1>8. g = [n \in 0..N |-> IF n = 0 THEN EmptyRedo ELSE RedoStep(g[n - 1], l[n])]
  BY <1>7 DEF RedoStates, N
<1> HIDE DEF g
<1>9. g[0] = EmptyRedo /\ \A n \in 1..N : g[n] = RedoStep(g[n - 1], l[n])
  BY <1>1, <1>8
<1> DEFINE Good == {n \in 0..N : g[n] \in RedoState}
<1>10. 0 \in Good
  BY <1>1, <1>2, <1>9
<1>11. ASSUME NEW n \in 0..(N - 1), n \in Good PROVE n + 1 \in Good
  <2>1. n + 1 \in 1..N /\ (n + 1) - 1 = n /\ n + 1 \in 0..N
    BY <1>1
  <2>2. g[n + 1] = RedoStep(g[n], l[n + 1]) /\ l[n + 1] \in Record /\ g[n] \in RedoState
    BY <1>1, <1>9, <1>11, <2>1
  <2>3. RedoStep(g[n], l[n + 1]) \in RedoState
    BY <2>2, RedoOne
  <2> QED  BY <2>1, <2>2, <2>3
<1>12. \A n \in 0..N : n \in Good
  <2> HIDE DEF Good
  <2> QED  BY <1>1, <1>10, <1>11, InductionTo
<1> QED  BY <1>9, <1>12 DEF g, N

----------------------------------------------------------------------------
(* Logs that are made of groups, some of them cut short.                   *)

\* The frames between m and i of s are one group that logs the rows W.
IsGroup(s, m, i, W) ==
  /\ s[m + 1] = BeginRec(s[i].txn)
  /\ \A j \in (m + 2)..(i - 1) : s[j].kind = "put" /\ s[j].txn = s[i].txn
  /\ \A k \in W : \E j \in (m + 2)..(i - 1) : s[j].key = k

\* A put logs a row that its transaction asked to commit, and a commit ends a
\* group that logs all of them.
WellLogged(s, a) ==
  \A i \in 1..Len(s) :
    /\ s[i].kind = "put" => s[i].key \in a[s[i].txn]
    /\ s[i].kind = "commit" => \E m \in 0..(i - 2) : IsGroup(s, m, i, a[s[i].txn])

\* The transaction that began at m + 1 is still at its puts at n.
Writing(l, m, n) ==
  l[m + 1].kind = "begin" /\ \A j \in (m + 2)..n : l[j].kind = "put" /\ l[j].txn = l[m + 1].txn

\* What redo holds of the open transactions after n records.
Gathered(l, a, n) ==
  LET s == RedoStates(l)[n] IN
  /\ \A t \in s.open : s.puts[t] \subseteq a[t]
  /\ \A m \in 0..(n - 1) : Writing(l, m, n) =>
       /\ l[m + 1].txn \in s.open
       /\ \A j \in (m + 2)..n : l[j].key \in s.puts[l[m + 1].txn]

LEMMA RedoGathers ==
  ASSUME NEW l \in Seq(Record), NEW a \in [Txns -> SUBSET Keys], WellLogged(l, a)
  PROVE  \A n \in 0..Len(l) : Gathered(l, a, n)
<1> DEFINE N == Len(l)
           st(n) == RedoStates(l)[n]
           Good == {n \in 0..N : Gathered(l, a, n)}
<1>1. N \in Nat /\ \A n \in 1..N : l[n] \in Record
  OBVIOUS
<1>2. /\ \A n \in 0..N : st(n) \in RedoState
      /\ st(0) = EmptyRedo /\ \A n \in 1..N : st(n) = RedoStep(st(n - 1), l[n])
  BY RedoSteps
<1> HIDE DEF N, st
<1>3. 0 \in Good
  <2>1. st(0).open = {}
    BY <1>2 DEF EmptyRedo
  <2> QED  BY <1>1, <2>1 DEF Gathered, st
<1>4. ASSUME NEW n \in 0..(N - 1), n \in Good PROVE n + 1 \in Good
  <2> DEFINE r == l[n + 1]
             s == st(n)
             u == st(n + 1)
  <2>1. n \in Int /\ n + 1 \in 1..N /\ (n + 1) - 1 = n /\ n \in 0..N /\ n + 1 \in 0..N
    BY <1>1
  <2>2. r \in Record /\ s \in RedoState /\ u = RedoStep(s, r) /\ r.txn \in Txns
        /\ r.kind \in {"begin", "put", "commit", "abort"} /\ (r.kind = "put" => r.key \in a[r.txn])
    BY <1>1, <1>2, <2>1, RecordKinds DEF WellLogged, N
  <2>3. Gathered(l, a, n)
    BY <1>4
  <2> HIDE DEF r, s, u
  <2>4. Effect(s, r, u) /\ u.open \in SUBSET Txns /\ s.open \in SUBSET Txns
    <3>1. Effect(s, r, u) /\ u \in RedoState
      BY <2>2, RedoOne
    <3> QED  BY <2>2, <3>1 DEF RedoState
  <2>5. ASSUME NEW t \in u.open PROVE u.puts[t] \subseteq a[t]
    <3>1. t \in Txns /\ (t \in s.open => s.puts[t] \subseteq a[t])
      BY <2>3, <2>4 DEF Gathered, s, st
    <3>2. CASE r.kind = "begin"
      BY <2>2, <2>4, <2>5, <3>1, <3>2 DEF Effect
    <3>3. CASE r.kind = "put"
      <4>1. t \in s.open
        BY <2>4, <2>5, <3>3 DEF Effect
      <4>2. CASE t = r.txn
        BY <2>2, <2>4, <3>1, <3>3, <4>1, <4>2 DEF Effect
      <4>3. CASE t # r.txn
        BY <2>2, <2>4, <3>1, <3>3, <4>1, <4>3 DEF Effect
      <4> QED  BY <4>2, <4>3
    <3>4. CASE r.kind \in {"commit", "abort"}
      BY <2>2, <2>4, <2>5, <3>1, <3>4 DEF Effect
    <3> QED  BY <2>2, <3>2, <3>3, <3>4
  <2>6. ASSUME NEW m \in 0..n, Writing(l, m, n + 1)
        PROVE  l[m + 1].txn \in u.open /\ \A j \in (m + 2)..(n + 1) : l[j].key \in u.puts[l[m + 1].txn]
    <3>1. CASE m = n
      <4>1. r.kind = "begin" /\ r.txn \in u.open
        <5>1. r.kind = "begin"
          BY <2>6, <3>1 DEF Writing, r
        <5> QED  BY <2>2, <2>4, <5>1 DEF Effect
      <4> QED  BY <2>1, <3>1, <4>1 DEF r
    <3>2. CASE m # n
      <4>1. m \in 0..(n - 1) /\ n + 1 \in (m + 2)..(n + 1) /\ (m + 2)..n \subseteq (m + 2)..(n + 1)
        BY <2>1, <3>2
      <4>2. r.kind = "put" /\ r.txn = l[m + 1].txn /\ Writing(l, m, n)
        BY <2>6, <4>1 DEF Writing, r
      <4>3. r.txn \in s.open /\ \A j \in (m + 2)..n : l[j].key \in s.puts[r.txn]
        BY <2>3, <4>1, <4>2 DEF Gathered, s, st
      <4>4. r.txn \in u.open /\ u.puts[r.txn] = s.puts[r.txn] \cup {r.key}
        BY <2>2, <2>4, <4>2, <4>3 DEF Effect
      <4>5. ASSUME NEW j \in (m + 2)..(n + 1) PROVE l[j].key \in u.puts[r.txn]
        <5>1. CASE j = n + 1
          BY <4>4, <5>1 DEF r
        <5>2. CASE j # n + 1
          <6>1. j \in (m + 2)..n
            BY <2>1, <5>2
          <6> QED  BY <4>3, <4>4, <6>1
        <5> QED  BY <5>1, <5>2
      <4> QED  BY <4>2, <4>4, <4>5
    <3> QED  BY <3>1, <3>2
  <2>7. Gathered(l, a, n + 1)
    BY <2>1, <2>5, <2>6 DEF Gathered, u, st
  <2> QED  BY <2>1, <2>7
<1>5. \A n \in 0..(N - 1) : n \in Good => n + 1 \in Good
  BY <1>4
<1>6. \A n \in 0..N : n \in Good
  <2> HIDE DEF Good
  <2> QED  BY <1>1, <1>3, <1>5, InductionTo
<1> QED  BY <1>6 DEF N

\* Redo publishes at each commit record what its transaction asked to commit,
\* and nothing at any other.
Publishes(s, r, u, a) ==
  /\ r.kind # "commit" => u.data = s.data
  /\ r.kind = "commit" =>
       u.data = [k \in Keys |->
                   IF k \in a[r.txn]
                   THEN Append(s.data[k], [ts |-> s.ts + 1, by |-> r.txn]) ELSE s.data[k]]

LEMMA RedoPublishes ==
  ASSUME NEW l \in Seq(Record), NEW a \in [Txns -> SUBSET Keys], WellLogged(l, a), NEW n \in 1..Len(l)
  PROVE  Publishes(RedoStates(l)[n - 1], l[n], RedoStates(l)[n], a)
<1> DEFINE s == RedoStates(l)[n - 1]
           u == RedoStates(l)[n]
           r == l[n]
<1>1. n \in Int /\ n - 1 \in 0..Len(l) /\ r \in Record /\ r.kind \in {"begin", "put", "commit", "abort"}
      /\ r.txn \in Txns
  BY RecordKinds
<1>2. s \in RedoState /\ u = RedoStep(s, r)
  BY <1>1, RedoSteps
<1>3. Gathered(l, a, n - 1)
  BY <1>1, RedoGathers
<1>4. ASSUME r.kind = "commit" PROVE r.txn \in s.open /\ s.puts[r.txn] = a[r.txn]
  <2>1. PICK m \in 0..(n - 2) : IsGroup(l, m, n, a[r.txn])
    BY <1>4 DEF WellLogged
  <2>2. l[m + 1].kind = "begin" /\ l[m + 1].txn = r.txn
    BY <2>1 DEF IsGroup, BeginRec
  <2>3. Writing(l, m, n - 1) /\ m \in 0..(n - 1 - 1)
    BY <1>1, <2>1, <2>2 DEF IsGroup, Writing
  <2>4. r.txn \in s.open /\ \A j \in (m + 2)..(n - 1) : l[j].key \in s.puts[r.txn]
    BY <1>3, <2>2, <2>3 DEF Gathered
  <2>5. a[r.txn] \subseteq s.puts[r.txn]
    BY <2>1, <2>4 DEF IsGroup
  <2>6. s.puts[r.txn] \subseteq a[r.txn]
    BY <1>3, <2>4 DEF Gathered
  <2> QED  BY <2>4, <2>5, <2>6
<1> HIDE DEF s, u, r
<1>5. Effect(s, r, u)
  BY <1>1, <1>2, RedoOne
<1>6. r.kind = "commit" =>
        u.data = [k \in Keys |-> IF k \in a[r.txn]
                                 THEN Append(s.data[k], [ts |-> s.ts + 1, by |-> r.txn]) ELSE s.data[k]]
  BY <1>4, <1>5 DEF Effect
<1>7. r.kind # "commit" => u.data = s.data
  BY <1>1, <1>5 DEF Effect
<1> QED  BY <1>6, <1>7 DEF Publishes, s, u, r

\* The writers of a chain and of the chain with one version more.
Writers(c) == {c[i].by : i \in DOMAIN c}

LEMMA WritersAreOfChains == \A d, k : WritersOf(d, k) = Writers(d[k])
BY DEF WritersOf, Writers

LEMMA WritersGrow ==
  /\ Writers(<< >>) = {}
  /\ \A c \in Seq(Version) : \A v \in Version : Writers(Append(c, v)) = Writers(c) \cup {v.by}
<1>0. Writers(<< >>) = {}
  BY DEF Writers
<1> SUFFICES ASSUME NEW c \in Seq(Version), NEW v \in Version
             PROVE  Writers(Append(c, v)) = Writers(c) \cup {v.by}
  BY <1>0
<1> DEFINE e == Append(c, v)
<1>1. /\ Len(c) \in Nat /\ DOMAIN c = 1..Len(c) /\ DOMAIN e = 1..(Len(c) + 1)
      /\ e[Len(c) + 1] = v /\ \A i \in 1..Len(c) : e[i] = c[i]
  BY AppendProperties
<1> HIDE DEF e
<1>2. \A i \in DOMAIN e : e[i].by \in {c[j].by : j \in DOMAIN c} \cup {v.by}
  <2> TAKE i \in DOMAIN e
  <2>1. i = Len(c) + 1 \/ i \in 1..Len(c)
    BY <1>1
  <2> QED  BY <1>1, <2>1
<1>3. \A j \in DOMAIN c : j \in DOMAIN e /\ e[j] = c[j]
  BY <1>1
<1>4. Len(c) + 1 \in DOMAIN e /\ e[Len(c) + 1] = v
  BY <1>1
<1> QED  BY <1>2, <1>3, <1>4 DEF e, Writers

LEMMA NobodyWrote == \A c \in Seq(Version) : Writers(c) = {} => c = << >>
<1> SUFFICES ASSUME NEW c \in Seq(Version), c # << >> PROVE Writers(c) # {}
  OBVIOUS
<1>1. 1 \in DOMAIN c
  BY EmptySeq
<1> QED  BY <1>1 DEF Writers

\* Redo shows the rows of the transactions with a commit record, all of them,
\* and no others.
LEMMA RedoWriters ==
  ASSUME NEW l \in Seq(Record), NEW a \in [Txns -> SUBSET Keys], WellLogged(l, a)
  PROVE  \A n \in 0..Len(l) : \A k \in Keys :
           WritersOf(RedoStates(l)[n].data, k) =
             {t \in Txns : k \in a[t] /\ \E i \in 1..n : l[i] = CommitRec(t)}
<1> DEFINE N == Len(l)
           d(n) == RedoStates(l)[n].data
           Shown(n, k) == {t \in Txns : k \in a[t] /\ \E i \in 1..n : l[i] = CommitRec(t)}
           Good == {n \in 0..N : \A k \in Keys : WritersOf(d(n), k) = Shown(n, k)}
<1>1. N \in Nat /\ \A n \in 1..N : l[n] \in Record
  OBVIOUS
<1>2. \A n \in 0..N : d(n) \in [Keys -> Seq(Version)] /\ RedoStates(l)[n].ts \in Nat
  BY RedoSteps DEF RedoState
<1>3. 0 \in Good
  <2>1. d(0) = [k \in Keys |-> << >>]
    BY RedoSteps DEF EmptyRedo
  <2> HIDE DEF d
  <2>2. \A k \in Keys : WritersOf(d(0), k) = {}
    BY <2>1, WritersAreOfChains, WritersGrow
  <2>3. \A k \in Keys : Shown(0, k) = {}
    OBVIOUS
  <2> QED  BY <1>1, <2>2, <2>3
<1>4. ASSUME NEW n \in 0..(N - 1), n \in Good PROVE n + 1 \in Good
  <2> DEFINE r == l[n + 1]
             v == [ts |-> RedoStates(l)[n].ts + 1, by |-> r.txn]
  <2>1. n \in 0..N /\ n + 1 \in 1..N /\ (n + 1) - 1 = n /\ n + 1 \in 0..N
    BY <1>1
  <2>2. /\ r.kind # "commit" => d(n + 1) = d(n)
        /\ r.kind = "commit" =>
             d(n + 1) = [k \in Keys |-> IF k \in a[r.txn] THEN Append(d(n)[k], v) ELSE d(n)[k]]
    <3>1. Publishes(RedoStates(l)[n], r, RedoStates(l)[n + 1], a)
      BY <2>1, RedoPublishes
    <3> QED  BY <3>1 DEF Publishes
  <2>3. /\ r \in Record /\ r.txn \in Txns /\ v \in Version /\ v.by = r.txn
        /\ r.kind = "commit" => r = CommitRec(r.txn)
        /\ \A t \in Txns : r = CommitRec(t) => r.kind = "commit" /\ r.txn = t
    <3>1. r \in Record
      BY <1>1, <2>1
    <3>2. \A t \in Txns : CommitRec(t).kind = "commit" /\ CommitRec(t).txn = t
      BY DEF CommitRec
    <3> QED  BY <1>2, <2>1, <3>1, <3>2, RecordKinds DEF Version
  <2> HIDE DEF r, v, d
  <2>4. ASSUME NEW k \in Keys PROVE WritersOf(d(n + 1), k) = Shown(n + 1, k)
    <3>1. WritersOf(d(n), k) = Shown(n, k) /\ d(n)[k] \in Seq(Version)
      BY <1>2, <1>4, <2>1 DEF d
    <3>2. Shown(n + 1, k) = Shown(n, k) \cup {t \in Txns : k \in a[t] /\ r = CommitRec(t)}
      <4>1. \A i \in 1..(n + 1) : i = n + 1 \/ i \in 1..n
        BY <2>1
      <4>2. 1..n \subseteq 1..(n + 1) /\ n + 1 \in 1..(n + 1)
        BY <2>1
      <4> QED  BY <4>1, <4>2 DEF r
    <3>3. CASE r.kind = "commit" /\ k \in a[r.txn]
      <4>1. d(n + 1)[k] = Append(d(n)[k], v)
        BY <2>2, <3>3
      <4>2. WritersOf(d(n + 1), k) = WritersOf(d(n), k) \cup {r.txn}
        BY <2>3, <3>1, <4>1, WritersGrow, WritersAreOfChains
      <4>3. {t \in Txns : k \in a[t] /\ r = CommitRec(t)} = {r.txn}
        BY <2>3, <3>3
      <4> QED  BY <3>1, <3>2, <4>2, <4>3
    <3>4. CASE ~ (r.kind = "commit" /\ k \in a[r.txn])
      <4>1. d(n + 1)[k] = d(n)[k]
        BY <2>2, <3>4
      <4>2. {t \in Txns : k \in a[t] /\ r = CommitRec(t)} = {}
        BY <2>3, <3>4
      <4> QED  BY <3>1, <3>2, <4>1, <4>2 DEF WritersOf
    <3> QED  BY <3>3, <3>4
  <2> QED  BY <2>1, <2>4
<1>5. \A n \in 0..(N - 1) : n \in Good => n + 1 \in Good
  BY <1>4
<1>6. \A n \in 0..N : n \in Good
  <2> HIDE DEF Good
  <2> QED  BY <1>1, <1>3, <1>5, InductionTo
<1> QED  BY <1>6

\* Redo has seen the id of every record.
LEMMA RedoCountsTxns ==
  ASSUME NEW l \in Seq(Record)
  PROVE  \A i \in 1..Len(l) : l[i].txn <= Redo(l).maxTxn
<1> DEFINE N == Len(l)
           top(n) == RedoStates(l)[n].maxTxn
           Good == {n \in 0..N : \A i \in 1..n : l[i].txn <= top(n)}
<1>1. N \in Nat /\ \A n \in 1..N : l[n] \in Record /\ l[n].txn \in Nat
  BY RecordKinds, TxnsAreNumbers
<1>2. \A n \in 0..N : top(n) \in Nat
  BY RedoSteps DEF RedoState
<1>3. 0 \in Good
  BY <1>1
<1>4. ASSUME NEW n \in 0..(N - 1), n \in Good PROVE n + 1 \in Good
  <2>1. n \in 0..N /\ n + 1 \in 1..N /\ (n + 1) - 1 = n /\ n + 1 \in 0..N
    BY <1>1
  <2>2. Effect(RedoStates(l)[n], l[n + 1], RedoStates(l)[n + 1])
    BY <1>1, <2>1, RedoSteps, RedoOne
  <2>3. top(n) <= top(n + 1) /\ l[n + 1].txn <= top(n + 1)
    BY <2>2 DEF Effect
  <2>4. top(n) \in Nat /\ top(n + 1) \in Nat
    BY <1>2, <2>1
  <2> HIDE DEF top
  <2>5. ASSUME NEW i \in 1..(n + 1) PROVE l[i].txn <= top(n + 1)
    <3>1. CASE i = n + 1
      BY <2>3, <3>1
    <3>2. CASE i # n + 1
      <4>1. i \in 1..n /\ i \in 1..N
        BY <1>1, <2>1, <3>2
      <4>2. l[i].txn <= top(n) /\ l[i].txn \in Nat
        BY <1>1, <1>4, <4>1
      <4> QED  BY <2>3, <2>4, <4>2
    <3> QED  BY <3>1, <3>2
  <2> QED  BY <2>1, <2>5
<1>5. \A n \in 0..(N - 1) : n \in Good => n + 1 \in Good
  BY <1>4
<1>6. \A n \in 0..N : n \in Good
  <2> HIDE DEF Good
  <2> QED  BY <1>1, <1>3, <1>5, InductionTo
<1> QED  BY <1>1, <1>6 DEF Redo

\* Redo looks at a log from its start: what comes later does not matter.
LEMMA RedoOfPrefix ==
  ASSUME NEW l \in Seq(Record), NEW p \in Seq(Record), Len(p) <= Len(l),
         \A i \in 1..Len(p) : p[i] = l[i]
  PROVE  RedoStates(l)[Len(p)] = Redo(p)
<1> DEFINE N == Len(p)
           Good == {n \in 0..N : RedoStates(l)[n] = RedoStates(p)[n]}
<1>1. N \in Nat /\ Len(l) \in Nat
  OBVIOUS
<1>2. 0 \in Good
  BY <1>1, RedoSteps
<1>3. ASSUME NEW n \in 0..(N - 1), n \in Good PROVE n + 1 \in Good
  <2>1. n + 1 \in 1..N /\ n + 1 \in 1..Len(l) /\ (n + 1) - 1 = n /\ n + 1 \in 0..N
    BY <1>1
  <2>2. RedoStates(l)[n + 1] = RedoStep(RedoStates(l)[n], l[n + 1])
    BY <2>1, RedoSteps
  <2>3. RedoStates(p)[n + 1] = RedoStep(RedoStates(p)[n], p[n + 1])
    BY <2>1, RedoSteps
  <2> QED  BY <1>3, <2>1, <2>2, <2>3
<1>4. \A n \in 0..(N - 1) : n \in Good => n + 1 \in Good
  BY <1>3
<1>5. \A n \in 0..N : n \in Good
  <2> HIDE DEF Good
  <2> QED  BY <1>1, <1>2, <1>4, InductionTo
<1> QED  BY <1>1, <1>5 DEF Redo

----------------------------------------------------------------------------
(* What writing, cutting and joining make of a log.                        *)

\* The records among the frames s.
RecsIn(s) == {s[i] : i \in 1..Len(s)} \ {Torn}

\* p is s cut short, its last frame perhaps torn.
CutOf(p, s) ==
  \A i \in 1..Len(p) : p[i] = Torn \/ (i <= Len(s) /\ \A j \in 1..i : p[j] = s[j])

\* The transactions that begin in s after they committed in s: their group was
\* written twice.
Again(s) ==
  {t \in Txns : \E j \in 1..Len(s) : \E i \in 1..(j - 1) : s[i] = CommitRec(t) /\ s[j] = BeginRec(t)}

LEMMA Kinds ==
  /\ Torn.kind = "torn"
  /\ \A t : /\ BeginRec(t).kind = "begin" /\ BeginRec(t).txn = t
            /\ CommitRec(t).kind = "commit" /\ CommitRec(t).txn = t
            /\ AbortRec(t).kind = "abort" /\ AbortRec(t).txn = t
            /\ \A k : PutRec(t, k).kind = "put" /\ PutRec(t, k).txn = t /\ PutRec(t, k).key = k
  /\ \A t : BeginRec(t) # Torn /\ CommitRec(t) # Torn /\ AbortRec(t) # Torn
BY DEF Torn, BeginRec, CommitRec, AbortRec, PutRec

LEMMA RecsAreRecords ==
  ASSUME NEW s \in Seq(Frame) PROVE RecsIn(s) \subseteq Record
<1>1. \A i \in 1..Len(s) : s[i] \in Frame
  OBVIOUS
<1> QED  BY <1>1 DEF RecsIn, Frame

\* One log behind the other.
LEMMA Joined ==
  ASSUME NEW s \in Seq(Frame), NEW u \in Seq(Frame)
  PROVE  /\ s \o u \in Seq(Frame) /\ Len(s \o u) = Len(s) + Len(u)
         /\ Len(s) \in Nat /\ Len(u) \in Nat
         /\ \A i \in 1..Len(s) : (s \o u)[i] = s[i]
         /\ \A i \in 1..Len(u) : (s \o u)[Len(s) + i] = u[i]
         /\ \A i \in 1..(Len(s) + Len(u)) : i \in 1..Len(s) \/ \E j \in 1..Len(u) : i = Len(s) + j
<1>1. /\ s \o u \in Seq(Frame) /\ Len(s \o u) = Len(s) + Len(u) /\ Len(s) \in Nat /\ Len(u) \in Nat
      /\ \A i \in 1..(Len(s) + Len(u)) :
           (s \o u)[i] = IF i <= Len(s) THEN s[i] ELSE u[i - Len(s)]
  BY ConcatProperties
<1>2. \A i \in 1..Len(s) : (s \o u)[i] = s[i]
  BY <1>1
<1>3. ASSUME NEW i \in 1..Len(u) PROVE (s \o u)[Len(s) + i] = u[i]
  <2>1. Len(s) + i \in 1..(Len(s) + Len(u)) /\ ~ (Len(s) + i <= Len(s)) /\ Len(s) + i - Len(s) = i
    BY <1>1
  <2> QED  BY <1>1, <2>1
<1>4. ASSUME NEW i \in 1..(Len(s) + Len(u)), i \notin 1..Len(s)
      PROVE  \E j \in 1..Len(u) : i = Len(s) + j
  <2>1. i - Len(s) \in 1..Len(u) /\ i = Len(s) + (i - Len(s))
    BY <1>1, <1>4
  <2> QED  BY <2>1
<1> QED  BY <1>1, <1>2, <1>3, <1>4

LEMMA RecsOfJoined ==
  ASSUME NEW s \in Seq(Frame), NEW u \in Seq(Frame)
  PROVE  RecsIn(s \o u) = RecsIn(s) \cup RecsIn(u)
<1> DEFINE w == s \o u
<1>1. /\ Len(w) = Len(s) + Len(u) /\ Len(s) \in Nat /\ Len(u) \in Nat
      /\ \A i \in 1..Len(s) : w[i] = s[i]
      /\ \A i \in 1..Len(u) : w[Len(s) + i] = u[i]
      /\ \A i \in 1..Len(w) : i \in 1..Len(s) \/ \E j \in 1..Len(u) : i = Len(s) + j
  BY Joined
<1> HIDE DEF w
<1>2. ASSUME NEW i \in 1..Len(w) PROVE w[i] \in {s[j] : j \in 1..Len(s)} \cup {u[j] : j \in 1..Len(u)}
  <2>1. CASE i \in 1..Len(s)
    BY <1>1, <2>1
  <2>2. CASE \E j \in 1..Len(u) : i = Len(s) + j
    BY <1>1, <2>2
  <2> QED  BY <1>1, <2>1, <2>2
<1>3. \A i \in 1..Len(s) : i \in 1..Len(w) /\ w[i] = s[i]
  BY <1>1
<1>4. \A i \in 1..Len(u) : Len(s) + i \in 1..Len(w) /\ w[Len(s) + i] = u[i]
  BY <1>1
<1>5. \A i \in 1..Len(s) : s[i] \in {w[j] : j \in 1..Len(w)}
  BY <1>3
<1>6. \A i \in 1..Len(u) : u[i] \in {w[j] : j \in 1..Len(w)}
  BY <1>4
<1> QED  BY <1>2, <1>5, <1>6 DEF RecsIn, w

LEMMA RecsOfCut ==
  ASSUME NEW p, NEW s, Len(p) \in Nat, CutOf(p, s)
  PROVE  RecsIn(p) \subseteq RecsIn(s)
<1>1. ASSUME NEW i \in 1..Len(p), p[i] # Torn PROVE i \in 1..Len(s) /\ p[i] = s[i]
  BY <1>1 DEF CutOf
<1> QED  BY <1>1 DEF RecsIn

LEMMA WholeWhenJoined ==
  ASSUME NEW s \in Seq(Frame), NEW u \in Seq(Frame), NEW a, WellLogged(s, a), WellLogged(u, a)
  PROVE  WellLogged(s \o u, a)
<1> DEFINE w == s \o u
<1>1. /\ Len(w) = Len(s) + Len(u) /\ Len(s) \in Nat /\ Len(u) \in Nat
      /\ \A i \in 1..Len(s) : w[i] = s[i]
      /\ \A i \in 1..Len(u) : w[Len(s) + i] = u[i]
      /\ \A i \in 1..Len(w) : i \in 1..Len(s) \/ \E j \in 1..Len(u) : i = Len(s) + j
  BY Joined
<1> HIDE DEF w
<1> SUFFICES ASSUME NEW i \in 1..Len(w)
             PROVE  /\ w[i].kind = "put" => w[i].key \in a[w[i].txn]
                    /\ w[i].kind = "commit" => \E m \in 0..(i - 2) : IsGroup(w, m, i, a[w[i].txn])
  BY DEF WellLogged, w
<1>2. CASE i \in 1..Len(s)
  <2>1. w[i] = s[i] /\ i \in Int
    BY <1>1, <1>2
  <2>2. ASSUME w[i].kind = "commit" PROVE \E m \in 0..(i - 2) : IsGroup(w, m, i, a[w[i].txn])
    <3>1. PICK m \in 0..(i - 2) : IsGroup(s, m, i, a[w[i].txn])
      BY <1>2, <2>1, <2>2 DEF WellLogged
    <3>2. m + 1 \in 1..Len(s) /\ \A j \in (m + 2)..(i - 1) : j \in 1..Len(s)
      BY <1>1, <1>2, <2>1
    <3>3. w[m + 1] = s[m + 1] /\ \A j \in (m + 2)..(i - 1) : w[j] = s[j]
      BY <1>1, <3>2
    <3>4. IsGroup(w, m, i, a[w[i].txn])
      BY <2>1, <3>1, <3>3 DEF IsGroup
    <3> QED  BY <3>4
  <2> QED  BY <1>2, <2>1, <2>2 DEF WellLogged
<1>3. CASE \E j \in 1..Len(u) : i = Len(s) + j
  <2>0. PICK n \in 1..Len(u) : i = Len(s) + n
    BY <1>3
  <2>1. w[i] = u[n] /\ i \in Int /\ n \in Int
    BY <1>1, <2>0
  <2>2. ASSUME w[i].kind = "commit" PROVE \E m \in 0..(i - 2) : IsGroup(w, m, i, a[w[i].txn])
    <3>1. PICK m \in 0..(n - 2) : IsGroup(u, m, n, a[w[i].txn])
      BY <2>1, <2>2 DEF WellLogged
    <3> DEFINE p == Len(s) + m
    <3>2. p \in 0..(i - 2) /\ m + 1 \in 1..Len(u) /\ p + 1 = Len(s) + (m + 1)
      BY <1>1, <2>0, <2>1
    <3>3. w[p + 1] = BeginRec(w[i].txn)
      <4>1. w[p + 1] = u[m + 1]
        BY <1>1, <3>2
      <4> QED  BY <2>1, <3>1, <4>1 DEF IsGroup
    <3>4. ASSUME NEW j \in (p + 2)..(i - 1) PROVE w[j].kind = "put" /\ w[j].txn = w[i].txn
      <4>1. PICK h \in (m + 2)..(n - 1) : j = Len(s) + h
        <5>1. j - Len(s) \in (m + 2)..(n - 1) /\ j = Len(s) + (j - Len(s))
          BY <1>1, <2>0, <2>1
        <5> QED  BY <5>1
      <4>2. h \in 1..Len(u) /\ w[j] = u[h]
        BY <1>1, <2>1, <4>1
      <4> QED  BY <2>1, <3>1, <4>1, <4>2 DEF IsGroup
    <3>5. ASSUME NEW k \in a[w[i].txn] PROVE \E j \in (p + 2)..(i - 1) : w[j].key = k
      <4>1. PICK h \in (m + 2)..(n - 1) : u[h].key = k
        BY <3>1 DEF IsGroup
      <4>2. h \in 1..Len(u) /\ Len(s) + h \in (p + 2)..(i - 1)
        BY <1>1, <2>0, <2>1
      <4>3. w[Len(s) + h].key = k
        BY <1>1, <4>1, <4>2
      <4> QED  BY <4>2, <4>3
    <3>6. IsGroup(w, p, i, a[w[i].txn])
      BY <3>3, <3>4, <3>5 DEF IsGroup
    <3> QED  BY <3>2, <3>6
  <2> QED  BY <2>1, <2>2 DEF WellLogged
<1> QED  BY <1>1, <1>2, <1>3

LEMMA WholeWhenCut ==
  ASSUME NEW p, NEW s, Len(p) \in Nat, CutOf(p, s), NEW a, WellLogged(s, a)
  PROVE  WellLogged(p, a)
<1> SUFFICES ASSUME NEW i \in 1..Len(p)
             PROVE  /\ p[i].kind = "put" => p[i].key \in a[p[i].txn]
                    /\ p[i].kind = "commit" => \E m \in 0..(i - 2) : IsGroup(p, m, i, a[p[i].txn])
  BY DEF WellLogged
<1>1. CASE p[i] = Torn
  BY <1>1, Kinds
<1>2. CASE p[i] # Torn
  <2>1. i \in 1..Len(s) /\ \A j \in 1..i : p[j] = s[j]
    BY <1>2 DEF CutOf
  <2>2. p[i] = s[i] /\ i \in Int
    BY <2>1
  <2>3. ASSUME p[i].kind = "commit" PROVE \E m \in 0..(i - 2) : IsGroup(p, m, i, a[p[i].txn])
    <3>1. PICK m \in 0..(i - 2) : IsGroup(s, m, i, a[p[i].txn])
      BY <2>1, <2>2, <2>3 DEF WellLogged
    <3>2. p[m + 1] = s[m + 1] /\ \A j \in (m + 2)..(i - 1) : p[j] = s[j]
      <4>1. m + 1 \in 1..i /\ \A j \in (m + 2)..(i - 1) : j \in 1..i
        BY <2>2
      <4> QED  BY <2>1, <4>1
    <3>3. IsGroup(p, m, i, a[p[i].txn])
      BY <2>2, <3>1, <3>2 DEF IsGroup
    <3> QED  BY <3>3
  <2> QED  BY <2>1, <2>2, <2>3 DEF WellLogged
<1> QED  BY <1>1, <1>2

\* Only what the transactions of the log asked for matters.
LEMMA WholeForOthers ==
  ASSUME NEW s \in Seq(Frame), NEW a, NEW b, WellLogged(s, a), \A r \in RecsIn(s) : b[r.txn] = a[r.txn]
  PROVE  WellLogged(s, b)
<1> SUFFICES ASSUME NEW i \in 1..Len(s)
             PROVE  /\ s[i].kind = "put" => s[i].key \in b[s[i].txn]
                    /\ s[i].kind = "commit" => \E m \in 0..(i - 2) : IsGroup(s, m, i, b[s[i].txn])
  BY DEF WellLogged
<1>1. CASE s[i] = Torn
  BY <1>1, Kinds
<1>2. CASE s[i] # Torn
  <2>1. b[s[i].txn] = a[s[i].txn]
    BY <1>2 DEF RecsIn
  <2> QED  BY <2>1 DEF WellLogged
<1> QED  BY <1>1, <1>2

LEMMA AgainWhenCut ==
  ASSUME NEW p, NEW s, Len(p) \in Nat, CutOf(p, s)
  PROVE  Again(p) \subseteq Again(s)
<1> SUFFICES ASSUME NEW t \in Txns, NEW j \in 1..Len(p), NEW i \in 1..(j - 1),
                    p[i] = CommitRec(t), p[j] = BeginRec(t)
             PROVE  t \in Again(s)
  BY DEF Again
<1>1. j \in 1..Len(s) /\ \A h \in 1..j : p[h] = s[h]
  BY Kinds DEF CutOf
<1>2. i \in 1..j /\ j \in 1..j
  OBVIOUS
<1> QED  BY <1>1, <1>2 DEF Again

LEMMA AgainWhenJoined ==
  ASSUME NEW s \in Seq(Frame), NEW u \in Seq(Frame)
  PROVE  Again(s \o u) \subseteq
           Again(s) \cup Again(u)
             \cup {t \in Txns : CommitRec(t) \in RecsIn(s) /\ BeginRec(t) \in RecsIn(u)}
<1> DEFINE w == s \o u
<1>1. /\ Len(w) = Len(s) + Len(u) /\ Len(s) \in Nat /\ Len(u) \in Nat
      /\ \A i \in 1..Len(s) : w[i] = s[i]
      /\ \A i \in 1..Len(u) : w[Len(s) + i] = u[i]
      /\ \A i \in 1..Len(w) : i \in 1..Len(s) \/ \E j \in 1..Len(u) : i = Len(s) + j
  BY Joined
<1> HIDE DEF w
<1> SUFFICES ASSUME NEW t \in Txns, NEW j \in 1..Len(w), NEW i \in 1..(j - 1),
                    w[i] = CommitRec(t), w[j] = BeginRec(t)
             PROVE  \/ t \in Again(s) \cup Again(u)
                    \/ CommitRec(t) \in RecsIn(s) /\ BeginRec(t) \in RecsIn(u)
  BY DEF Again, w
<1>2. i \in Int /\ j \in Int /\ i < j /\ i \in 1..Len(w)
  BY <1>1
<1>3. CASE j \in 1..Len(s)
  <2>1. i \in 1..Len(s)
    BY <1>1, <1>2, <1>3
  <2>2. s[i] = CommitRec(t) /\ s[j] = BeginRec(t)
    BY <1>1, <1>3, <2>1
  <2> QED  BY <1>3, <2>2 DEF Again
<1>4. CASE i \in 1..Len(s) /\ j \notin 1..Len(s)
  <2>1. PICK h \in 1..Len(u) : j = Len(s) + h
    BY <1>1, <1>4
  <2>2. s[i] = CommitRec(t) /\ u[h] = BeginRec(t)
    BY <1>1, <1>4, <2>1
  <2> QED  BY <1>4, <2>2, Kinds DEF RecsIn
<1>5. CASE i \notin 1..Len(s)
  <2>1. PICK g \in 1..Len(u) : i = Len(s) + g
    BY <1>1, <1>2, <1>5
  <2>2. PICK h \in 1..Len(u) : j = Len(s) + h
    <3>1. j \notin 1..Len(s) /\ j \in 1..Len(w)
      BY <1>1, <1>2, <1>5
    <3> QED  BY <1>1, <3>1
  <2>3. g \in 1..(h - 1) /\ u[g] = CommitRec(t) /\ u[h] = BeginRec(t)
    BY <1>1, <1>2, <2>1, <2>2
  <2> QED  BY <2>3 DEF Again
<1> QED  BY <1>3, <1>4, <1>5

\* The group of a commit, frame by frame.
LEMMA GroupFrames ==
  ASSUME NEW t \in Txns, NEW W \in SUBSET Keys
  PROVE  LET r == RecordsOf(t, W)
             c == Cardinality(W) IN
         /\ c \in Nat /\ r \in Seq(Record) /\ Len(r) = c + 2
         /\ r[1] = BeginRec(t) /\ r[c + 2] = CommitRec(t)
         /\ \A i \in 2..(c + 1) : \E k \in W : r[i] = PutRec(t, k)
         /\ \A k \in W : \E i \in 2..(c + 1) : r[i] = PutRec(t, k)
<1> DEFINE r == RecordsOf(t, W)
           c == Cardinality(W)
           o == Ascending(W)
           puts == [i \in 1..c |-> PutRec(t, o[i])]
           front == <<BeginRec(t)>> \o puts
<1>1. c \in Nat /\ o \in [1..c -> W] /\ \A k \in W : \E i \in 1..c : o[i] = k
  BY AscendingOrder
<1>2. puts \in Seq(Record) /\ Len(puts) = c /\ \A i \in 1..c : puts[i] = PutRec(t, o[i])
  <2>1. \A i \in 1..c : PutRec(t, o[i]) \in Record
    BY <1>1 DEF Record
  <2> HIDE DEF c, o
  <2>2. puts \in [1..c -> Record]
    BY <2>1
  <2> QED  BY <1>1, <2>2
<1>3. r = front \o <<CommitRec(t)>>
  BY DEF RecordsOf
<1> HIDE DEF r, c, o, puts
<1>4. <<BeginRec(t)>> \in Seq(Frame) /\ puts \in Seq(Frame) /\ <<CommitRec(t)>> \in Seq(Frame)
  <2>1. BeginRec(t) \in Frame /\ CommitRec(t) \in Frame
    BY DEF Record, Frame
  <2>2. puts \in Seq(Frame)
    BY <1>2, RecordsAreFrames
  <2> QED  BY <2>1, <2>2
<1>5. /\ front \in Seq(Frame) /\ Len(front) = 1 + c /\ front[1] = BeginRec(t)
      /\ \A i \in 1..c : front[1 + i] = PutRec(t, o[i])
  <2>1. Len(<<BeginRec(t)>>) = 1 /\ <<BeginRec(t)>>[1] = BeginRec(t)
    OBVIOUS
  <2> QED  BY <1>2, <1>4, <2>1, Joined
<1> HIDE DEF front
<1>6. /\ Len(r) = c + 2 /\ r[c + 2] = CommitRec(t) /\ \A i \in 1..(c + 1) : r[i] = front[i]
  <2>1. Len(<<CommitRec(t)>>) = 1 /\ <<CommitRec(t)>>[1] = CommitRec(t)
    OBVIOUS
  <2>2. /\ Len(r) = Len(front) + 1 /\ \A i \in 1..Len(front) : r[i] = front[i]
        /\ r[Len(front) + 1] = CommitRec(t)
    BY <1>3, <1>4, <1>5, <2>1, Joined
  <2>3. 1 + c = c + 1 /\ (1 + c) + 1 = c + 2
    BY <1>1
  <2> QED  BY <1>5, <2>2, <2>3
<1>7. r[1] = BeginRec(t) /\ \A i \in 1..c : r[1 + i] = PutRec(t, o[i])
  <2>1. 1 \in 1..(c + 1) /\ \A i \in 1..c : 1 + i \in 1..(c + 1)
    BY <1>1
  <2> QED  BY <1>5, <1>6, <2>1
<1>8. ASSUME NEW i \in 2..(c + 1) PROVE \E k \in W : r[i] = PutRec(t, k)
  <2>1. i - 1 \in 1..c /\ 1 + (i - 1) = i
    BY <1>1
  <2>2. r[i] = PutRec(t, o[i - 1]) /\ o[i - 1] \in W
    BY <1>1, <1>7, <2>1
  <2> QED  BY <2>2
<1>9. ASSUME NEW k \in W PROVE \E i \in 2..(c + 1) : r[i] = PutRec(t, k)
  <2>1. PICK i \in 1..c : o[i] = k
    BY <1>1
  <2>2. 1 + i \in 2..(c + 1) /\ r[1 + i] = PutRec(t, k)
    BY <1>1, <1>7, <2>1
  <2> QED  BY <2>2
<1>10. r \in Seq(Record)
  BY GroupOfCommit DEF r
<1> QED  BY <1>1, <1>6, <1>7, <1>8, <1>9, <1>10 DEF r, c

\* What the rest needs to know of the group of a commit.
LEMMA GroupIsWhole ==
  ASSUME NEW t \in Txns, NEW W \in SUBSET Keys, NEW a, a[t] = W
  PROVE  LET r == RecordsOf(t, W) IN
         /\ r \in Seq(Record) /\ r \in Seq(Frame)
         /\ WellLogged(r, a) /\ Again(r) = {}
         /\ CommitRec(t) \in RecsIn(r)
         /\ \A q \in RecsIn(r) : q.txn = t /\ q.kind # "abort"
         /\ \A i \in 1..(Len(r) - 1) : r[i].kind # "commit"
         /\ Len(r) \in Nat \ {0} /\ r[Len(r)] = CommitRec(t)
<1> DEFINE r == RecordsOf(t, W)
           c == Cardinality(W)
<1>1. /\ c \in Nat /\ r \in Seq(Record) /\ Len(r) = c + 2
      /\ r[1] = BeginRec(t) /\ r[c + 2] = CommitRec(t)
      /\ \A i \in 2..(c + 1) : \E k \in W : r[i] = PutRec(t, k)
      /\ \A k \in W : \E i \in 2..(c + 1) : r[i] = PutRec(t, k)
  BY GroupFrames
<1> HIDE DEF r, c
<1>2. /\ r[1].kind = "begin" /\ r[1].txn = t /\ r[c + 2].kind = "commit" /\ r[c + 2].txn = t
      /\ \A i \in 2..(c + 1) : r[i].kind = "put" /\ r[i].txn = t /\ r[i].key \in W
  BY <1>1, Kinds
<1>3. \A i \in 1..(c + 2) : i = 1 \/ i \in 2..(c + 1) \/ i = c + 2
  BY <1>1
<1>4. \A i \in 1..Len(r) : r[i].txn = t /\ r[i].kind # "abort"
  BY <1>1, <1>2, <1>3
<1>5. \A q \in RecsIn(r) : q.txn = t /\ q.kind # "abort"
  BY <1>4 DEF RecsIn
<1>6. CommitRec(t) \in RecsIn(r)
  <2>1. c + 2 \in 1..Len(r)
    BY <1>1
  <2> QED  BY <1>1, <2>1, Kinds DEF RecsIn
<1>7. \A i \in 1..(c + 1) : r[i].kind # "commit"
  <2>1. \A i \in 1..(c + 1) : i = 1 \/ i \in 2..(c + 1)
    BY <1>1
  <2> QED  BY <1>2, <2>1
<1>8. Again(r) = {}
  <2> SUFFICES ASSUME NEW u \in Txns, NEW j \in 1..Len(r), NEW i \in 1..(j - 1),
                      r[i] = CommitRec(u), r[j] = BeginRec(u)
               PROVE  FALSE
    BY DEF Again
  <2>1. i \in 1..(c + 1)
    BY <1>1
  <2> QED  BY <1>7, <2>1, Kinds
<1>9. WellLogged(r, a)
  <2> SUFFICES ASSUME NEW i \in 1..Len(r)
               PROVE  /\ r[i].kind = "put" => r[i].key \in a[r[i].txn]
                      /\ r[i].kind = "commit" => \E m \in 0..(i - 2) : IsGroup(r, m, i, a[r[i].txn])
    BY DEF WellLogged
  <2>1. CASE i = 1
    BY <1>2, <2>1
  <2>2. CASE i \in 2..(c + 1)
    BY <1>2, <2>2
  <2>3. CASE i = c + 2
    <3>1. 0 \in 0..(i - 2) /\ i - 1 = c + 1 /\ 0 + 1 = 1 /\ 0 + 2 = 2
      BY <1>1, <2>3
    <3>2. \A k \in W : \E j \in 2..(c + 1) : r[j].key = k
      BY <1>1, Kinds
    <3>3. IsGroup(r, 0, i, W)
      BY <1>1, <1>2, <2>3, <3>1, <3>2 DEF IsGroup
    <3> QED  BY <1>2, <2>3, <3>1, <3>3
  <2> QED  BY <1>1, <1>3, <2>1, <2>2, <2>3
<1>10. r \in Seq(Frame) /\ Len(r) \in Nat \ {0} /\ c + 2 = Len(r) /\ Len(r) - 1 = c + 1
  BY <1>1, RecordsAreFrames
<1> QED  BY <1>1, <1>5, <1>6, <1>7, <1>8, <1>9, <1>10 DEF r

----------------------------------------------------------------------------
(* The steps of the log, seen this way.                                    *)

\* Replay hands redo the records in front of the first torn frame.
LEMMA CleanIsCut ==
  ASSUME NEW frames \in Seq(Frame)
  PROVE  /\ CleanPrefix(frames) \in Seq(Record) /\ Len(CleanPrefix(frames)) \in 0..Len(frames)
         /\ CutOf(CleanPrefix(frames), frames)
         /\ \A i \in 1..Len(frames) :
              (\A j \in 1..i : frames[j] # Torn) => i \in 1..Len(CleanPrefix(frames))
         /\ \A i \in 1..Len(CleanPrefix(frames)) :
              CleanPrefix(frames)[i] = frames[i] /\ \A j \in 1..i : frames[j] # Torn
<1> DEFINE p == CleanPrefix(frames)
<1>1. PICK n \in 0..Len(frames) :
        /\ p \in Seq(Frame) /\ Len(p) = n
        /\ \A i \in 1..n : p[i] = frames[i] /\ frames[i] # Torn
        /\ n < Len(frames) => frames[n + 1] = Torn
  BY CleanFrames
<1> HIDE DEF p
<1>2. Len(frames) \in Nat /\ n \in Nat /\ n <= Len(frames) /\ \A i \in 1..n : p[i] \in Frame
  BY <1>1
<1>3. p \in Seq(Record)
  <2>1. \A i \in 1..Len(p) : p[i] \in Record
    BY <1>1, <1>2 DEF Frame
  <2>2. p = [i \in 1..Len(p) |-> p[i]] /\ Len(p) \in Nat
    BY <1>1
  <2>3. p \in [1..Len(p) -> Record]
    BY <2>1, <2>2
  <2> QED  BY <2>2, <2>3, IsASeq
<1>4. ASSUME NEW i \in 1..n PROVE i <= Len(frames) /\ \A j \in 1..i : j \in 1..n
  BY <1>2
<1>5. CutOf(p, frames)
  BY <1>1, <1>4 DEF CutOf
<1>6. ASSUME NEW i \in 1..Len(frames), \A j \in 1..i : frames[j] # Torn PROVE i \in 1..n
  <2>1. CASE n < i
    <3>1. n + 1 \in 1..i /\ n < Len(frames)
      BY <1>2, <2>1
    <3> QED  BY <1>1, <1>6, <3>1
  <2>2. CASE ~ (n < i)
    BY <1>2, <2>2
  <2> QED  BY <2>1, <2>2
<1>7. \A i \in 1..n : p[i] = frames[i] /\ \A j \in 1..i : frames[j] # Torn
  BY <1>1, <1>4
<1> QED  BY <1>1, <1>3, <1>5, <1>6, <1>7 DEF p

\* A group that is written, wholly or in part, is put behind the file.
LEMMA FileGrows ==
  ASSUME WalTypes, WriteGroup \/ WriteGroupFails \/ SyncGroupFails
  PROVE  \E left \in Seq(Frame) :
           /\ file' = file \o left /\ CutOf(left, group) /\ UNCHANGED <<group, synced>>
           /\ WriteGroup => left = group
<1>1. file \in Seq(Frame) /\ group \in Seq(Frame) /\ Len(group) \in Nat
  BY RecordsAreFrames DEF WalTypes
<1>2. CutOf(group, group) /\ CutOf(<< >>, group)
  BY <1>1 DEF CutOf
<1>3. CASE WriteGroup
  BY <1>1, <1>2, <1>3 DEF WriteGroup
<1>4. CASE SyncGroupFails /\ ~ WriteGroup
  <2>1. file' = file \o << >> /\ << >> \in Seq(Frame)
    BY <1>1, <1>4, ConcatEmptySeq DEF SyncGroupFails, walVars
  <2> QED  BY <1>2, <1>4, <2>1 DEF SyncGroupFails, walVars
<1>5. CASE WriteGroupFails /\ ~ WriteGroup
  <2>1. PICK n \in 0..(Len(group) - 1), rest \in {<< >>, <<Torn>>} :
          file' = file \o SubSeq(group, 1, n) \o rest
    BY <1>5 DEF WriteGroupFails
  <2> DEFINE front == SubSeq(group, 1, n)
             left == front \o rest
  <2>2. n \in 0..Len(group) /\ n \in Int
    BY <1>1
  <2>3. /\ left \in Seq(Frame) /\ Len(rest) \in {0, 1} /\ Len(left) = n + Len(rest)
        /\ \A i \in 1..n : left[i] = group[i]
        /\ rest # << >> => left[n + 1] = Torn
    BY <1>1, <2>2, CutFrames
  <2>4. front \in Seq(Frame) /\ rest \in Seq(Frame)
    <3>1. Torn \in Frame
      BY DEF Frame
    <3>2. << >> \in Seq(Frame) /\ <<Torn>> \in Seq(Frame)
      BY <3>1
    <3>3. front \in Seq(Frame)
      BY <1>1, <2>2, SubSeqProperties
    <3> QED  BY <3>2, <3>3
  <2>5. file' = file \o left
    <3>1. ASSUME NEW s \in Seq(Frame), NEW t \in Seq(Frame), NEW u \in Seq(Frame)
          PROVE  (s \o t) \o u = s \o (t \o u)
      BY ConcatAssociative
    <3>2. file' = (file \o front) \o rest
      BY <2>1
    <3> HIDE DEF front
    <3> QED  BY <1>1, <2>4, <3>1, <3>2
  <2> HIDE DEF left
  <2>6. ASSUME NEW i \in 1..Len(left), left[i] # Torn PROVE i \in 1..n
    <3>1. CASE Len(rest) = 0
      BY <2>3, <3>1
    <3>2. CASE Len(rest) = 1
      <4>1. rest # << >>
        BY <3>2
      <4>2. i # n + 1
        BY <2>3, <2>6, <4>1
      <4> QED  BY <2>2, <2>3, <3>2, <4>2
    <3> QED  BY <2>3, <3>1, <3>2
  <2>7. \A i \in 1..n : i <= Len(group) /\ \A j \in 1..i : j \in 1..n
    BY <1>1, <2>2
  <2>8. CutOf(left, group)
    BY <2>3, <2>6, <2>7 DEF CutOf
  <2> QED  BY <1>5, <2>3, <2>5, <2>8 DEF WriteGroupFails
<1> QED  BY <1>3, <1>4, <1>5

\* A crash cuts the file, and so does opening it.
LEMMA FileIsCut ==
  ASSUME WalTypes, LoseTail \/ Reopen(CleanPrefix(file))
  PROVE  CutOf(file', file) /\ group' = << >> /\ Len(file') \in Nat
<1>0. file \in Seq(Frame) /\ Len(file) \in Nat
  BY DEF WalTypes
<1>1. CASE LoseTail
  <2>1. /\ group' = << >> /\ Len(file') \in Nat
        /\ \A i \in 1..Len(file') : i = Len(file') \/ (i <= Len(file) /\ file'[i] = file[i])
        /\ \A i \in 1..Len(file') : file'[i] = Torn \/ (i <= Len(file) /\ file'[i] = file[i])
    BY <1>1, WalLoses DEF WalTypes
  <2>2. ASSUME NEW i \in 1..Len(file'), file'[i] # Torn, NEW j \in 1..i PROVE file'[j] = file[j]
    <3>1. CASE j = i
      BY <2>1, <2>2, <3>1
    <3>2. CASE j # i
      <4>1. j \in 1..Len(file') /\ j # Len(file')
        BY <2>1, <3>2
      <4> QED  BY <2>1, <4>1
    <3> QED  BY <3>1, <3>2
  <2> QED  BY <2>1, <2>2 DEF CutOf
<1>2. CASE Reopen(CleanPrefix(file))
  BY <1>0, <1>2, CleanIsCut DEF Reopen
<1> QED  BY <1>1, <1>2

----------------------------------------------------------------------------
(* The steps of the database, as far as the following is concerned.        *)

logged == <<file, synced, group>>
shown == <<data, watermark>>
told == <<asked, answer, behind>>
counted == <<pending, writes, nextTxn, nextRowId>>

Begins ==
  /\ phase = "open" /\ job = NoJob /\ nextTxn < MaxTxns
  /\ UNCHANGED <<logged, shown, phase, job, writes, nextRowId>>
  /\ nextTxn' = nextTxn + 1 /\ pending' = pending \cup {nextTxn}
  /\ asked' = [asked EXCEPT ![nextTxn] = {}]
  /\ answer' = [answer EXCEPT ![nextTxn] = "none"]
  /\ behind' = behind \ {nextTxn}

Inserts(t) ==
  /\ phase = "open" /\ job = NoJob /\ t \in pending
  /\ nextRowId \in Keys /\ nextRowId' = nextRowId + 1
  /\ writes' = [writes EXCEPT ![t] = @ \cup {nextRowId}]
  /\ UNCHANGED <<logged, shown, told, phase, job, pending, nextTxn>>

Reads(t) ==
  /\ phase = "open" /\ job = NoJob /\ t \in pending /\ pending' = pending \ {t}
  /\ data' = [k \in Keys |-> data[k]] /\ watermark' = watermark + 1
  /\ answer' = [answer EXCEPT ![t] = "ok"]
  /\ UNCHANGED <<logged, phase, job, asked, behind, writes, nextTxn, nextRowId>>

Logs(t) ==
  /\ phase = "open" /\ job = NoJob /\ t \in pending /\ writes[t] # {}
  /\ group' = group \o CommitRecords(t)
  /\ job' = [op |-> "commit", txn |-> t, step |-> "write"]
  /\ asked' = [asked EXCEPT ![t] = writes[t]]
  /\ UNCHANGED <<file, synced, shown, counted, phase, answer, behind>>

Undoes(t) ==
  /\ phase = "open" /\ job = NoJob /\ t \in pending /\ pending' = pending \ {t}
  /\ group' = group \o <<AbortRec(t)>>
  /\ job' = [op |-> "rollback", txn |-> t, step |-> "write"]
  /\ answer' = [answer EXCEPT ![t] = "aborted"]
  /\ UNCHANGED <<file, synced, shown, phase, asked, behind, writes, nextTxn, nextRowId>>

Closes ==
  /\ phase = "open" /\ job = NoJob
  /\ job' = [op |-> "close", txn |-> NoTxn, step |-> "write"]
  /\ UNCHANGED <<logged, shown, told, counted, phase>>

Emits ==
  /\ job.step = "write" /\ WriteGroup /\ job' = [job EXCEPT !.step = "sync"]
  /\ UNCHANGED <<synced, group, shown, told, counted, phase>>

Publish ==
  /\ job.op = "commit" /\ job.step = "sync" /\ SyncGroup
  /\ job.txn \in pending /\ pending' = pending \ {job.txn}
  /\ data' = [k \in Keys |->
                IF k \in writes[job.txn]
                THEN Append(data[k], [ts |-> watermark + 1, by |-> job.txn]) ELSE data[k]]
  /\ watermark' = watermark + 1
  /\ answer' = [answer EXCEPT ![job.txn] = "ok"]
  /\ behind' = IF TornPlaces(file) = {} THEN behind ELSE behind \cup {job.txn}
  /\ job' = NoJob /\ UNCHANGED <<asked, writes, nextTxn, nextRowId, phase>>

\* How commit_group fails, and how it ends.
Fails == (job.step = "write" /\ WriteGroupFails) \/ (job.step = "sync" /\ SyncGroupFails)
Ends == (job.step = "sync" /\ SyncGroup) \/ Fails

AbortEnds ==
  /\ job.op = "rollback" /\ Ends /\ job' = NoJob
  /\ UNCHANGED <<shown, told, counted, phase>>

Refused ==
  /\ job.op = "commit" /\ Fails
  /\ job.txn \in pending /\ pending' = pending \ {job.txn}
  /\ answer' = [answer EXCEPT ![job.txn] = "failed"]
  /\ job' = NoJob
  /\ UNCHANGED <<shown, asked, behind, writes, nextTxn, nextRowId, phase>>

Gone ==
  /\ phase' = "down" /\ job' = NoJob /\ pending' = {} /\ nextTxn' = 0 /\ nextRowId' = 0
  /\ data' = [k \in Keys |-> << >>] /\ watermark' = 0 /\ writes' = [t \in Txns |-> {}]
  /\ UNCHANGED <<asked, behind>>

Stops ==
  /\ Gone /\ UNCHANGED answer /\ job.op # "commit"
  /\ \/ phase = "open" /\ job = NoJob /\ UNCHANGED logged
     \/ Ends

Crashes ==
  /\ Gone /\ phase = "open" /\ LoseTail
  /\ answer' = IF job.op = "commit" THEN [answer EXCEPT ![job.txn] = "unknown"] ELSE answer

Reopens ==
  /\ phase = "down" /\ phase' = "open" /\ pending' = {} /\ writes' = [t \in Txns |-> {}]
  /\ Reopen(CleanPrefix(file))
  /\ data' = Redo(CleanPrefix(file)).data /\ watermark' = Redo(CleanPrefix(file)).ts
  /\ nextTxn' = Redo(CleanPrefix(file)).maxTxn + 1 /\ nextRowId' = RowIdAfter(data')
  /\ UNCHANGED <<job, told>>

Rests ==
  /\ UNCHANGED <<logged, shown, told, counted, job>>
  /\ phase' = phase \/ (phase = "down" /\ phase' = "corrupt")

LEMMA FlatSteps ==
  ASSUME [DbNext]_dbVars
  PROVE  \/ Begins \/ Closes \/ Emits \/ Publish \/ AbortEnds \/ Refused
         \/ Stops \/ Crashes \/ Reopens \/ Rests
         \/ \E t \in Txns : Inserts(t) \/ Reads(t) \/ Logs(t) \/ Undoes(t)
<1> USE DEF logged, shown, told, counted, storeVars, walVars, history, Running
<1>1. TxnBegin => Begins
  BY DEF TxnBegin, Begin, Begins
<1>2. ASSUME NEW t \in Txns, Insert(t) PROVE Inserts(t)
  BY <1>2 DEF Insert, Set, Buffer, Revive, Inserts
<1>3. ASSUME NEW t \in Txns, CommitReadOnly(t) PROVE Reads(t)
  <2>1. \A k : k \notin writes[t]
    BY <1>3 DEF CommitReadOnly
  <2> QED  BY <1>3, <2>1 DEF CommitReadOnly, Commit, Forget, Reads
<1>4. ASSUME NEW t \in Txns, CommitStarts(t) PROVE Logs(t)
  BY <1>4 DEF CommitStarts, AppendAll, Logs
<1>5. ASSUME NEW t \in Txns, RollbackStarts(t) PROVE Undoes(t)
  BY <1>5 DEF RollbackStarts, AppendAll, Abort, Forget, Undoes
<1>6. CloseStarts => Closes
  BY DEF CloseStarts, Closes
<1>7. Leave /\ UNCHANGED <<asked, behind>> => Gone
  BY DEF Leave, Restore, Gone
<1>8. CloseAtOnce => Stops
  BY <1>7 DEF CloseAtOnce, Stops, NoJob
<1>9. JobWrites => Emits
  BY DEF JobWrites, WriteGroup, Emits
<1>10. JobSucceeds => Publish \/ AbortEnds \/ (Gone /\ UNCHANGED answer /\ job.op # "commit" /\ Ends)
  BY <1>7 DEF JobSucceeds, Commit, CommitTs, Forget, Publish, AbortEnds, Ends
<1>11. JobFails => Refused \/ AbortEnds \/ (Gone /\ UNCHANGED answer /\ job.op # "commit" /\ Ends)
  BY <1>7 DEF JobFails, CommitLogFails, Forget, Refused, AbortEnds, Ends, Fails
<1>12. Crash => Crashes
  BY <1>7 DEF Crash, Crashes
<1>13. Recover => Reopens
  BY DEF Recover, Restore, NextTxnAfter, Reopens
<1>14. RecoverRefuses \/ UNCHANGED dbVars => Rests
  BY DEF RecoverRefuses, dbVars, Rests
<1>15. JobSucceeds \/ JobFails => Publish \/ AbortEnds \/ Refused \/ Stops
  BY <1>10, <1>11 DEF Stops
<1> QED  BY <1>1, <1>2, <1>3, <1>4, <1>5, <1>6, <1>8, <1>9, <1>12, <1>13, <1>14, <1>15 DEF DbNext

----------------------------------------------------------------------------
(* Whose records are in the log.                                           *)

\* The records that are in the file, or about to be.
Known == RecsIn(file) \cup RecsIn(group)

CommitAtWork(t) == job.op = "commit" /\ job.txn = t

\* Ids in the log are below the counter; a transaction in flight has left no
\* record before its commit is at work; an Abort record tells that its
\* transaction was rolled back, and any other that is still to be written that
\* its commit is at work or has failed.
Accounts ==
  /\ nextTxn \in Nat /\ pending \subseteq {t \in Txns : t < nextTxn}
  /\ phase # "open" => job = NoJob /\ pending = {}
  /\ phase = "open" => \A r \in Known : r.txn < nextTxn
  /\ \A t \in pending :
       /\ answer[t] = "none"
       /\ CommitAtWork(t) \/ (asked[t] = {} /\ \A r \in Known : r.txn # t)
  /\ \A r \in Known : (r.kind = "abort") <=> (answer[r.txn] = "aborted")
  /\ \A r \in RecsIn(group) :
       r.kind # "abort" => answer[r.txn] = "failed" \/ CommitAtWork(r.txn)
  /\ \A t \in Txns : CommitAtWork(t) =>
       /\ t \in pending /\ asked[t] = writes[t]
       /\ job.step = "write" => CommitRec(t) \in RecsIn(group) /\ \A r \in RecsIn(file) : r.txn # t
       /\ job.step = "sync" => CommitRec(t) \in RecsIn(file)

\* What is known of the log after a step.
LEMMA KnownMoves ==
  ASSUME LogTypes, LogTypes'
  PROVE  /\ Known \subseteq Record
         /\ WriteGroup => RecsIn(file') = Known
         /\ WriteGroup \/ WriteGroupFails \/ SyncGroupFails =>
              group' = group /\ RecsIn(file) \subseteq RecsIn(file') /\ RecsIn(file') \subseteq Known
         /\ SyncGroup => file' = file /\ RecsIn(group') = {}
         /\ LoseTail \/ Reopen(CleanPrefix(file)) => RecsIn(file') \subseteq RecsIn(file) /\ RecsIn(group') = {}
<1>1. WalTypes /\ file \in Seq(Frame) /\ group \in Seq(Frame)
  BY RecordsAreFrames DEF LogTypes, WalTypes
<1>2. Known \subseteq Record
  BY <1>1, RecsAreRecords DEF Known
<1>3. ASSUME WriteGroup \/ WriteGroupFails \/ SyncGroupFails
      PROVE  /\ group' = group /\ RecsIn(file) \subseteq RecsIn(file') /\ RecsIn(file') \subseteq Known
             /\ WriteGroup => RecsIn(file') = Known
  <2>1. PICK left \in Seq(Frame) :
           /\ file' = file \o left /\ CutOf(left, group) /\ UNCHANGED <<group, synced>>
           /\ WriteGroup => left = group
    BY <1>1, <1>3, FileGrows
  <2>2. RecsIn(file') = RecsIn(file) \cup RecsIn(left)
    BY <1>1, <2>1, RecsOfJoined
  <2>3. RecsIn(left) \subseteq RecsIn(group)
    BY <2>1, RecsOfCut
  <2> QED  BY <2>1, <2>2, <2>3 DEF Known
<1>4. RecsIn(<< >>) = {}
  BY DEF RecsIn
<1>5. ASSUME LoseTail \/ Reopen(CleanPrefix(file))
      PROVE  RecsIn(file') \subseteq RecsIn(file) /\ RecsIn(group') = {}
  BY <1>1, <1>4, <1>5, FileIsCut, RecsOfCut
<1>6. SyncGroup => file' = file /\ group' = << >>
  BY DEF SyncGroup
<1> QED  BY <1>2, <1>3, <1>4, <1>5, <1>6

LEMMA KnownGrows ==
  ASSUME LogTypes, NEW t \in Txns
  PROVE  /\ RecsIn(group \o <<AbortRec(t)>>) = RecsIn(group) \cup {AbortRec(t)}
         /\ RecsIn(group \o CommitRecords(t)) = RecsIn(group) \cup RecsIn(CommitRecords(t))
         /\ CommitRec(t) \in RecsIn(CommitRecords(t))
         /\ \A r \in RecsIn(CommitRecords(t)) : r.txn = t /\ r.kind # "abort"
<1>1. group \in Seq(Frame) /\ writes[t] \in SUBSET Keys
  BY RecordsAreFrames DEF LogTypes, WalTypes
<1>2. /\ CommitRecords(t) \in Seq(Frame) /\ CommitRec(t) \in RecsIn(CommitRecords(t))
      /\ \A r \in RecsIn(CommitRecords(t)) : r.txn = t /\ r.kind # "abort"
  <2> DEFINE W == writes[t]
             a == [u \in Txns |-> W]
  <2>1. CommitRecords(t) = RecordsOf(t, W) /\ a[t] = W
    BY <1>1, GroupOfCommit
  <2> HIDE DEF W, a
  <2> QED  BY <1>1, <2>1, GroupIsWhole DEF W
<1>3. <<AbortRec(t)>> \in Seq(Frame) /\ RecsIn(<<AbortRec(t)>>) = {AbortRec(t)}
  <2>1. AbortRec(t) \in Frame /\ AbortRec(t) # Torn
    BY Kinds DEF Record, Frame
  <2>2. Len(<<AbortRec(t)>>) = 1 /\ <<AbortRec(t)>>[1] = AbortRec(t) /\ <<AbortRec(t)>> \in Seq(Frame)
    BY <2>1
  <2>3. {<<AbortRec(t)>>[i] : i \in 1..1} = {AbortRec(t)}
    BY <2>2
  <2> QED  BY <2>1, <2>2, <2>3 DEF RecsIn
<1> QED  BY <1>1, <1>2, <1>3, RecsOfJoined

LEMMA RedoOfFile ==
  ASSUME LogTypes
  PROVE  /\ CleanPrefix(file) \in Seq(Record) /\ Redo(CleanPrefix(file)) \in RedoState
         /\ RecsIn(CleanPrefix(file)) \subseteq RecsIn(file)
         /\ \A r \in RecsIn(CleanPrefix(file)) : r.txn \in Nat /\ r.txn <= Redo(CleanPrefix(file)).maxTxn
<1> DEFINE l == CleanPrefix(file)
<1>1. l \in Seq(Record) /\ Len(l) \in Nat /\ CutOf(l, file)
  BY CleanIsCut DEF LogTypes, WalTypes
<1> HIDE DEF l
<1>2. Redo(l) \in RedoState /\ RecsIn(l) \subseteq RecsIn(file)
  BY <1>1, RedoSteps, RecsOfCut DEF Redo
<1>3. \A r \in RecsIn(l) : r.txn \in Nat /\ r.txn <= Redo(l).maxTxn
  <2> TAKE r \in RecsIn(l)
  <2>1. PICK i \in 1..Len(l) : r = l[i]
    BY DEF RecsIn
  <2>2. l[i] \in Record
    BY <1>1
  <2> QED  BY <1>1, <2>1, <2>2, RedoCountsTxns, RecordKinds, TxnsAreNumbers
<1> QED  BY <1>1, <1>2, <1>3 DEF l

LEMMA AccountsStep == ASSUME LogTypes, LogTypes', Accounts, [DbNext]_dbVars PROVE Accounts'
<1> USE DEF Accounts, logged, shown, told, counted, CommitAtWork
<1>a. /\ asked \in [Txns -> SUBSET Keys] /\ job \in Jobs
      /\ answer \in [Txns -> {"none", "ok", "failed", "aborted", "unknown"}]
  BY DEF LogTypes
<1>b. NoJob.op = "none" /\ NoJob.step = "none" /\ (job.op = "commit" => job.txn \in Txns)
  BY <1>a DEF NoJob, Jobs
<1>c. Known \subseteq Record /\ RecsIn(group) \subseteq Known /\ RecsIn(file) \subseteq Known
  BY KnownMoves DEF Known
<1>d. \A r \in Record : r.txn \in Txns /\ r.txn \in Nat
  BY RecordKinds, TxnsAreNumbers
<1>1. CASE Begins
  <2>1. nextTxn \in Txns /\ \A r \in Known : r.txn # nextTxn
    BY <1>1, <1>c, <1>d, MaxTxnsAssumption DEF Begins, Txns
  <2>2. UNCHANGED <<Known, RecsIn(group), RecsIn(file), job, phase, writes>> /\ job = NoJob
    BY <1>1 DEF Begins, Known
  <2>3. nextTxn' = nextTxn + 1 /\ pending' = pending \cup {nextTxn} /\ phase = "open"
        /\ asked' = [asked EXCEPT ![nextTxn] = {}] /\ answer' = [answer EXCEPT ![nextTxn] = "none"]
    BY <1>1 DEF Begins
  <2>4. nextTxn' \in Nat /\ pending' \subseteq {t \in Txns : t < nextTxn'}
    <3>1. \A t \in Txns : t \in Nat
      BY TxnsAreNumbers
    <3> QED  BY <2>1, <2>3, <3>1
  <2>5. \A r \in Known : r.txn < nextTxn'
    BY <1>c, <1>d, <2>3
  <2>6. ASSUME NEW t \in pending'
        PROVE  answer'[t] = "none" /\ asked'[t] = {} /\ \A r \in Known : r.txn # t
    <3>1. CASE t = nextTxn
      BY <1>a, <2>1, <2>3, <3>1
    <3>2. CASE t # nextTxn
      BY <1>a, <1>b, <2>1, <2>2, <2>3, <3>2
    <3> QED  BY <3>1, <3>2
  <2>7. \A r \in Known : answer'[r.txn] = answer[r.txn]
    BY <1>a, <1>c, <1>d, <2>1, <2>3
  <2> QED  BY <1>b, <1>c, <2>2, <2>3, <2>4, <2>5, <2>6, <2>7
<1>2. ASSUME NEW t \in Txns, Inserts(t) PROVE Accounts'
  <2>1. UNCHANGED <<Known, RecsIn(group), RecsIn(file), job, phase, asked, answer, pending, nextTxn>>
    BY <1>2 DEF Inserts, Known
  <2>2. t \in pending /\ ~ CommitAtWork(t) /\ \A u \in Txns : u # t => writes'[u] = writes[u]
    BY <1>2, <1>b DEF Inserts
  <2> QED  BY <1>b, <2>1, <2>2
<1>3. ASSUME NEW t \in Txns, Reads(t) PROVE Accounts'
  <2>1. UNCHANGED <<Known, RecsIn(group), RecsIn(file), job, phase, asked, writes, nextTxn>>
        /\ job = NoJob /\ t \in pending /\ pending' = pending \ {t} /\ answer' = [answer EXCEPT ![t] = "ok"]
    BY <1>3 DEF Reads, Known
  <2>2. \A r \in Known : r.txn # t
    BY <1>b, <2>1
  <2>3. \A u \in Txns : u # t => answer'[u] = answer[u]
    BY <1>a, <2>1
  <2> QED  BY <1>b, <1>c, <1>d, <2>1, <2>2, <2>3
<1>4. ASSUME NEW t \in Txns, Logs(t) PROVE Accounts'
  <2>1. /\ UNCHANGED <<RecsIn(file), phase, answer, writes, nextTxn, pending>> /\ job = NoJob /\ t \in pending
        /\ job'.op = "commit" /\ job'.txn = t /\ job'.step = "write" /\ phase = "open"
        /\ group' = group \o CommitRecords(t) /\ asked' = [asked EXCEPT ![t] = writes[t]]
    BY <1>4 DEF Logs
  <2>2. \A r \in Known : r.txn # t
    BY <1>b, <2>1
  <2>3. /\ Known' = Known \cup RecsIn(CommitRecords(t)) /\ RecsIn(group') = RecsIn(group) \cup RecsIn(CommitRecords(t))
        /\ CommitRec(t) \in RecsIn(CommitRecords(t))
        /\ \A r \in RecsIn(CommitRecords(t)) : r.txn = t /\ r.kind # "abort"
    BY <2>1, KnownGrows DEF Known
  <2>4. asked'[t] = writes[t] /\ \A u \in Txns : u # t => asked'[u] = asked[u]
    BY <1>a, <2>1
  <2>5. \A r \in Known' : r.txn < nextTxn
    BY <2>1, <2>3
  <2>6. ASSUME NEW u \in pending, u # t PROVE asked'[u] = {} /\ \A r \in Known' : r.txn # u
    BY <1>b, <2>1, <2>3, <2>4, <2>6
  <2>7. \A r \in Known' : (r.kind = "abort") <=> (answer[r.txn] = "aborted")
    BY <2>1, <2>3
  <2>8. \A r \in RecsIn(group') : r.kind # "abort" => answer[r.txn] = "failed" \/ r.txn = t
    BY <1>b, <2>1, <2>3
  <2>9. \A r \in RecsIn(file) : r.txn # t
    BY <1>c, <2>2
  <2> QED  BY <2>1, <2>3, <2>4, <2>5, <2>6, <2>7, <2>8, <2>9
<1>5. ASSUME NEW t \in Txns, Undoes(t) PROVE Accounts'
  <2>1. /\ UNCHANGED <<RecsIn(file), phase, asked, writes, nextTxn>> /\ job = NoJob /\ t \in pending
        /\ pending' = pending \ {t} /\ answer' = [answer EXCEPT ![t] = "aborted"]
        /\ job'.op = "rollback" /\ phase = "open" /\ group' = group \o <<AbortRec(t)>>
    BY <1>5 DEF Undoes
  <2>2. \A r \in Known : r.txn # t
    BY <1>b, <2>1
  <2>3. /\ Known' = Known \cup {AbortRec(t)} /\ RecsIn(group') = RecsIn(group) \cup {AbortRec(t)}
        /\ AbortRec(t).txn = t /\ AbortRec(t).kind = "abort"
    BY <2>1, KnownGrows, Kinds DEF Known
  <2>4. answer'[t] = "aborted" /\ \A u \in Txns : u # t => answer'[u] = answer[u]
    BY <1>a, <2>1
  <2>5. \A r \in Known' : r.txn < nextTxn
    BY <2>1, <2>3
  <2>6. ASSUME NEW u \in pending' PROVE answer'[u] = "none" /\ asked[u] = {} /\ \A r \in Known' : r.txn # u
    BY <1>b, <2>1, <2>3, <2>4, <2>6
  <2>7. \A r \in Known' : (r.kind = "abort") <=> (answer'[r.txn] = "aborted")
    BY <1>c, <1>d, <2>2, <2>3, <2>4
  <2>8. \A r \in RecsIn(group') : r.kind # "abort" => answer'[r.txn] = "failed"
    BY <1>b, <1>c, <1>d, <2>1, <2>2, <2>3, <2>4
  <2> QED  BY <2>1, <2>5, <2>6, <2>7, <2>8
<1>6. CASE Closes
  <2>1. UNCHANGED <<Known, RecsIn(group), RecsIn(file), phase, asked, answer, pending, writes, nextTxn>>
        /\ job = NoJob /\ job'.op = "close" /\ phase = "open"
    BY <1>6 DEF Closes, Known
  <2> QED  BY <1>b, <2>1
<1>7. CASE Emits
  <2>1. /\ WriteGroup /\ job.step = "write" /\ job' = [job EXCEPT !.step = "sync"]
        /\ UNCHANGED <<group, phase, asked, answer, pending, writes, nextTxn>>
    BY <1>7 DEF Emits
  <2>2. job'.op = job.op /\ job'.txn = job.txn /\ job'.step = "sync" /\ job # NoJob
    BY <1>a, <1>b, <2>1 DEF Jobs
  <2>3. RecsIn(file') = Known /\ RecsIn(group') = RecsIn(group) /\ Known' = Known
    BY <1>c, <2>1, KnownMoves DEF Known
  <2> QED  BY <1>c, <2>1, <2>2, <2>3
<1>8. CASE Publish
  <2>1. /\ SyncGroup /\ job.op = "commit" /\ job.txn \in pending /\ pending' = pending \ {job.txn} /\ job' = NoJob
        /\ answer' = [answer EXCEPT ![job.txn] = "ok"] /\ UNCHANGED <<phase, asked, nextTxn>>
    BY <1>8 DEF Publish
  <2>2. RecsIn(group') = {} /\ Known' \subseteq Known
    BY <2>1, KnownMoves DEF Known
  <2>3. \A u \in Txns : u # job.txn => answer'[u] = answer[u]
    BY <1>a, <2>1
  <2>4. answer[job.txn] = "none" /\ answer'[job.txn] = "ok" /\ job.txn \in Txns
    BY <1>a, <1>b, <2>1
  <2>5. \A r \in Known' : (r.kind = "abort") <=> (answer'[r.txn] = "aborted")
    BY <1>c, <1>d, <2>2, <2>3, <2>4
  <2> QED  BY <1>b, <1>c, <1>d, <2>1, <2>2, <2>3, <2>4, <2>5
<1>9. CASE AbortEnds
  <2>1. /\ SyncGroup \/ WriteGroupFails \/ SyncGroupFails
        /\ job.op = "rollback" /\ job' = NoJob /\ UNCHANGED <<phase, asked, answer, pending, writes, nextTxn>>
    BY <1>9 DEF AbortEnds, Ends, Fails
  <2>2. Known' \subseteq Known /\ RecsIn(group') \subseteq RecsIn(group)
    BY <1>c, <2>1, KnownMoves DEF Known
  <2> QED  BY <1>b, <2>1, <2>2
<1>10. CASE Refused
  <2>1. /\ WriteGroupFails \/ SyncGroupFails
        /\ job.op = "commit" /\ job.txn \in pending /\ pending' = pending \ {job.txn} /\ job' = NoJob
        /\ answer' = [answer EXCEPT ![job.txn] = "failed"] /\ UNCHANGED <<phase, asked, nextTxn>>
    BY <1>10 DEF Refused, Fails
  <2>2. Known' \subseteq Known /\ RecsIn(group') \subseteq RecsIn(group)
    BY <1>c, <2>1, KnownMoves DEF Known
  <2>3. \A u \in Txns : u # job.txn => answer'[u] = answer[u]
    BY <1>a, <2>1
  <2>4. answer[job.txn] = "none" /\ answer'[job.txn] = "failed" /\ job.txn \in Txns
    BY <1>a, <1>b, <2>1
  <2>5. \A r \in Known' : (r.kind = "abort") <=> (answer'[r.txn] = "aborted")
    BY <1>c, <1>d, <2>2, <2>3, <2>4
  <2>6. \A r \in RecsIn(group') : r.kind # "abort" => answer'[r.txn] = "failed"
    BY <1>c, <1>d, <2>2, <2>3, <2>4
  <2> QED  BY <1>b, <1>c, <1>d, <2>1, <2>2, <2>3, <2>4, <2>5, <2>6
<1>11. ASSUME Gone, Known' \subseteq Known, RecsIn(group') \subseteq RecsIn(group),
              \A t \in Txns : (answer'[t] = "aborted") <=> (answer[t] = "aborted"),
              \A r \in RecsIn(group') : answer'[r.txn] = answer[r.txn] /\ ~ CommitAtWork(r.txn)
       PROVE  Accounts'
  <2>1. phase' = "down" /\ job' = NoJob /\ pending' = {} /\ nextTxn' = 0
    BY <1>11 DEF Gone
  <2> QED  BY <1>11, <1>b, <1>c, <1>d, <2>1
<1>12. CASE Stops
  <2>1. Gone /\ UNCHANGED answer /\ job.op # "commit"
    BY <1>12 DEF Stops
  <2>2. Known' \subseteq Known /\ RecsIn(group') \subseteq RecsIn(group)
    BY <1>12, <1>c, KnownMoves DEF Known, Stops, Ends, Fails
  <2> QED  BY <1>11, <2>1, <2>2
<1>13. CASE Crashes
  <2>1. Gone /\ LoseTail
        /\ answer' = IF job.op = "commit" THEN [answer EXCEPT ![job.txn] = "unknown"] ELSE answer
    BY <1>13 DEF Crashes
  <2>2. Known' \subseteq Known /\ RecsIn(group') = {}
    BY <1>c, <2>1, KnownMoves DEF Known
  <2>3. job.op = "commit" => answer[job.txn] = "none"
    BY <1>b
  <2>4. \A t \in Txns : (answer'[t] = "aborted") <=> (answer[t] = "aborted")
    BY <1>a, <2>1, <2>3
  <2> QED  BY <1>11, <2>1, <2>2, <2>4
<1>14. CASE Reopens
  <2>1. /\ phase = "down" /\ phase' = "open" /\ pending' = {} /\ Reopen(CleanPrefix(file))
        /\ nextTxn' = Redo(CleanPrefix(file)).maxTxn + 1 /\ UNCHANGED <<job, asked, answer>>
        /\ file' = CleanPrefix(file)
    BY <1>14 DEF Reopens, Reopen
  <2>2. RecsIn(file') \subseteq RecsIn(file) /\ RecsIn(group') = {} /\ Known' = RecsIn(file') /\ Known' \subseteq Known
    BY <1>c, <2>1, KnownMoves DEF Known
  <2>3. nextTxn' \in Nat /\ \A r \in Known' : r.txn < nextTxn'
    <3>1. Redo(CleanPrefix(file)).maxTxn \in Nat
      BY RedoOfFile DEF RedoState
    <3>2. \A r \in Known' : r.txn \in Nat /\ r.txn <= Redo(CleanPrefix(file)).maxTxn
      BY <2>1, <2>2, RedoOfFile
    <3> QED  BY <2>1, <3>1, <3>2
  <2> QED  BY <1>b, <2>1, <2>2, <2>3
<1>15. CASE Rests
  <2>1. /\ UNCHANGED <<Known, RecsIn(group), RecsIn(file), job, asked, answer, pending, writes, nextTxn>>
        /\ phase' = phase \/ (phase = "down" /\ phase' = "corrupt")
    BY <1>15 DEF Rests, Known
  <2> QED  BY <2>1
<1> QED  BY <1>1, <1>2, <1>3, <1>4, <1>5, <1>6, <1>7, <1>8, <1>9, <1>10, <1>12, <1>13, <1>14, <1>15,
           FlatSteps

----------------------------------------------------------------------------
(* The groups of the log are whole.                                        *)

\* Both parts of the log are made of groups, and a group that was written a
\* second time after its commit record is one whose commit was refused.
LogsAreWhole ==
  /\ WellLogged(file, asked) /\ WellLogged(group, asked)
  /\ \A t \in Again(file) \cup Again(group) : answer[t] = "failed"

\* Nothing is asked or told anew of a transaction that has records, except how
\* the commit at work ends.
LEMMA RecordedStays ==
  ASSUME LogTypes, Accounts, [DbNext]_dbVars, NEW r \in Known
  PROVE  /\ r.txn \in Txns /\ asked'[r.txn] = asked[r.txn]
         /\ CommitAtWork(r.txn) \/ answer'[r.txn] = answer[r.txn]
         /\ answer[r.txn] = "failed" => answer'[r.txn] = "failed"
<1> USE DEF logged, shown, told, counted, CommitAtWork
<1>a. /\ asked \in [Txns -> SUBSET Keys] /\ job \in Jobs
      /\ answer \in [Txns -> {"none", "ok", "failed", "aborted", "unknown"}]
  BY DEF LogTypes
<1>b. NoJob.op = "none" /\ (job.op = "commit" => job.txn \in Txns /\ answer[job.txn] = "none")
  BY <1>a DEF NoJob, Jobs, Accounts
<1>c. r.txn \in Txns /\ r.txn \in Nat
  <2>1. file \in Seq(Frame) /\ group \in Seq(Frame)
    BY RecordsAreFrames DEF LogTypes, WalTypes
  <2>2. r \in Record
    BY <2>1, RecsAreRecords DEF Known
  <2> QED  BY <2>2, RecordKinds, TxnsAreNumbers
<1>1. CASE Begins
  <2>1. r.txn # nextTxn
    BY <1>1, <1>c DEF Begins, Accounts
  <2> QED  BY <1>1, <1>a, <1>c, <2>1 DEF Begins
<1>2. ASSUME NEW t \in pending, job = NoJob, UNCHANGED asked \/ asked' = [asked EXCEPT ![t] = writes[t]],
             UNCHANGED answer \/ \E x : answer' = [answer EXCEPT ![t] = x]
      PROVE  asked'[r.txn] = asked[r.txn] /\ answer'[r.txn] = answer[r.txn]
  <2>1. r.txn # t
    BY <1>2, <1>b DEF Accounts
  <2> QED  BY <1>2, <1>a, <1>c, <2>1
<1>3. CASE \E t \in Txns : Inserts(t) \/ Reads(t) \/ Logs(t) \/ Undoes(t)
  BY <1>2, <1>3, <1>c DEF Inserts, Reads, Logs, Undoes
<1>4. CASE Closes \/ Emits \/ AbortEnds \/ Stops \/ Reopens \/ Rests
  BY <1>4, <1>c DEF Closes, Emits, AbortEnds, Stops, Gone, Reopens, Rests
<1>5. CASE Publish \/ Refused \/ Crashes
  <2>1. UNCHANGED asked /\ \A t \in Txns : (job.op = "commit" /\ job.txn = t) \/ answer'[t] = answer[t]
    BY <1>5, <1>a DEF Publish, Refused, Crashes, Gone
  <2> QED  BY <1>b, <1>c, <2>1
<1> QED  BY <1>1, <1>3, <1>4, <1>5, FlatSteps

LEMMA LogsStep ==
  ASSUME LogTypes, LogTypes', Accounts, LogsAreWhole, [DbNext]_dbVars PROVE LogsAreWhole'
<1> USE DEF logged
<1>a. /\ WalTypes /\ file \in Seq(Frame) /\ group \in Seq(Frame) /\ Len(file) \in Nat /\ Len(group) \in Nat
      /\ RecsIn(file) \subseteq Known /\ RecsIn(group) \subseteq Known
  BY RecordsAreFrames DEF LogTypes, WalTypes, Known
<1>b. \A r \in Known : /\ r.txn \in Txns /\ asked'[r.txn] = asked[r.txn]
                       /\ answer[r.txn] = "failed" => answer'[r.txn] = "failed"
  BY RecordedStays
<1>c. WellLogged(file, asked') /\ WellLogged(group, asked')
  BY <1>a, <1>b, WholeForOthers DEF LogsAreWhole
<1>d. \A t \in Again(file) \cup Again(group) : answer'[t] = "failed"
  <2> SUFFICES ASSUME NEW t \in Again(file) \cup Again(group) PROVE answer'[t] = "failed"
    OBVIOUS
  <2>1. CommitRec(t) \in Known
    <3>1. ASSUME NEW s \in Seq(Frame), t \in Again(s) PROVE CommitRec(t) \in RecsIn(s)
      <4>1. PICK j \in 1..Len(s) : \E i \in 1..(j - 1) : s[i] = CommitRec(t)
        BY <3>1 DEF Again
      <4>2. PICK i \in 1..(j - 1) : s[i] = CommitRec(t)
        BY <4>1
      <4>3. i \in 1..Len(s)
        OBVIOUS
      <4> QED  BY <4>2, <4>3, Kinds DEF RecsIn
    <3> QED  BY <1>a, <3>1
  <2>2. answer[t] = "failed"
    BY DEF LogsAreWhole
  <2>3. CommitRec(t).txn = t
    BY Kinds
  <2> QED  BY <1>b, <2>1, <2>2, <2>3
<1>1. ASSUME CutOf(file', file), Len(file') \in Nat, group' = << >> \/ group' = group PROVE LogsAreWhole'
  <2>1. WellLogged(file', asked') /\ Again(file') \subseteq Again(file)
    BY <1>1, <1>c, WholeWhenCut, AgainWhenCut
  <2>2. WellLogged(<< >>, asked') /\ Again(<< >>) = {}
    BY DEF WellLogged, Again
  <2> QED  BY <1>1, <1>c, <1>d, <2>1, <2>2 DEF LogsAreWhole
<1>2. CutOf(file, file)
  BY <1>a DEF CutOf
<1>3. ASSUME UNCHANGED logged PROVE LogsAreWhole'
  BY <1>1, <1>2, <1>3, <1>a
<1>4. ASSUME WriteGroup \/ WriteGroupFails \/ SyncGroupFails,
             \A t \in Txns : CommitAtWork(t) => job.step = "write" \/ SyncGroupFails,
             \A t \in Txns : CommitAtWork(t) \/ answer'[t] = answer[t]
      PROVE  LogsAreWhole'
  <2>1. CASE SyncGroupFails
    BY <1>3, <2>1 DEF SyncGroupFails, walVars
  <2>2. CASE ~ SyncGroupFails
    <3>1. PICK left \in Seq(Frame) : file' = file \o left /\ CutOf(left, group) /\ UNCHANGED group
      BY <1>4, <1>a, FileGrows
    <3>2. WellLogged(left, asked') /\ Again(left) \subseteq Again(group) /\ RecsIn(left) \subseteq RecsIn(group)
      BY <1>c, <3>1, WholeWhenCut, AgainWhenCut, RecsOfCut
    <3>3. WellLogged(file', asked')
      BY <1>a, <1>c, <3>1, <3>2, WholeWhenJoined
    <3>4. ASSUME NEW t \in Txns, CommitRec(t) \in RecsIn(file), BeginRec(t) \in RecsIn(left)
          PROVE  answer'[t] = "failed"
      <4>1. BeginRec(t) \in RecsIn(group) /\ BeginRec(t).kind # "abort" /\ BeginRec(t).txn = t
            /\ CommitRec(t).txn = t
        BY <3>2, <3>4, Kinds
      <4>2. ~ CommitAtWork(t)
        BY <1>4, <2>2, <3>4, <4>1 DEF Accounts
      <4>3. answer[t] = "failed"
        BY <4>1, <4>2 DEF Accounts
      <4> QED  BY <1>4, <4>2, <4>3
    <3>5. \A t \in Again(file') : answer'[t] = "failed"
      BY <1>a, <1>d, <3>1, <3>2, <3>4, AgainWhenJoined
    <3> QED  BY <1>c, <1>d, <3>1, <3>3, <3>5 DEF LogsAreWhole
  <2> QED  BY <2>1, <2>2
<1>5. ASSUME NEW s \in Seq(Frame), NEW t \in pending, group' = group \o s, UNCHANGED file, job = NoJob,
             WellLogged(s, asked'), Again(s) = {}, \A r \in RecsIn(s) : r.txn = t
      PROVE  LogsAreWhole'
  <2>1. WellLogged(group', asked')
    BY <1>5, <1>a, <1>c, WholeWhenJoined
  <2>2. \A r \in Known : r.txn # t
    BY <1>5 DEF Accounts, CommitAtWork, NoJob
  <2>3. ASSUME NEW u \in Txns, CommitRec(u) \in RecsIn(group), BeginRec(u) \in RecsIn(s) PROVE FALSE
    <3>1. CommitRec(u) \in Known /\ CommitRec(u).txn = u /\ BeginRec(u).txn = u
      BY <1>a, <2>3, Kinds
    <3>2. u = t
      BY <1>5, <2>3, <3>1
    <3> QED  BY <2>2, <3>1, <3>2
  <2>4. Again(group') \subseteq Again(group)
    BY <1>5, <1>a, <2>3, AgainWhenJoined
  <2> QED  BY <1>5, <1>c, <1>d, <2>1, <2>4 DEF LogsAreWhole
<1>6. ASSUME NEW t \in Txns, Logs(t) PROVE LogsAreWhole'
  <2> DEFINE W == writes[t]
  <2>1. /\ t \in pending /\ group' = group \o CommitRecords(t) /\ UNCHANGED file /\ job = NoJob
        /\ asked' = [asked EXCEPT ![t] = W] /\ W \in SUBSET Keys
    BY <1>6 DEF Logs, LogTypes
  <2>2. CommitRecords(t) = RecordsOf(t, W) /\ asked'[t] = W
    BY <2>1, GroupOfCommit DEF LogTypes
  <2> HIDE DEF W
  <2>3. /\ RecordsOf(t, W) \in Seq(Frame) /\ WellLogged(RecordsOf(t, W), asked') /\ Again(RecordsOf(t, W)) = {}
        /\ \A r \in RecsIn(RecordsOf(t, W)) : r.txn = t
    BY <2>1, <2>2, GroupIsWhole
  <2> QED  BY <1>5, <2>1, <2>2, <2>3
<1>7. ASSUME NEW t \in Txns, Undoes(t) PROVE LogsAreWhole'
  <2> DEFINE s == <<AbortRec(t)>>
  <2>1. t \in pending /\ group' = group \o s /\ UNCHANGED file /\ job = NoJob
    BY <1>7 DEF Undoes
  <2>2. AbortRec(t) \in Frame /\ AbortRec(t).kind = "abort" /\ AbortRec(t).txn = t
    BY Kinds DEF Record, Frame
  <2>3. s \in Seq(Frame) /\ Len(s) = 1 /\ s[1] = AbortRec(t)
    BY <2>2
  <2> HIDE DEF s
  <2>4. WellLogged(s, asked') /\ Again(s) = {} /\ \A r \in RecsIn(s) : r.txn = t
    <3>1. \A i \in 1..Len(s) : i = 1
      BY <2>3
    <3> QED  BY <2>2, <2>3, <3>1 DEF WellLogged, Again, RecsIn
  <2> QED  BY <1>5, <2>1, <2>3, <2>4
<1>8. CASE Begins \/ (\E t \in Txns : Inserts(t) \/ Reads(t)) \/ Closes \/ Rests
  BY <1>3, <1>8 DEF Begins, Inserts, Reads, Closes, Rests
<1>9. CASE Emits
  BY <1>4, <1>9 DEF Emits, told
<1>10. ASSUME SyncGroup PROVE LogsAreWhole'
  BY <1>1, <1>2, <1>10, <1>a DEF SyncGroup
<1>11. CASE Publish
  BY <1>10, <1>11 DEF Publish
<1>12. ASSUME Ends, \A t \in Txns : CommitAtWork(t) \/ answer'[t] = answer[t] PROVE LogsAreWhole'
  <2>1. CASE SyncGroup
    BY <1>10, <2>1
  <2>2. CASE SyncGroupFails
    BY <1>3, <2>2 DEF SyncGroupFails, walVars
  <2>3. CASE job.step = "write" /\ WriteGroupFails
    BY <1>4, <1>12, <2>3
  <2> QED  BY <1>12, <2>1, <2>2, <2>3 DEF Ends, Fails
<1>13. CASE AbortEnds
  BY <1>12, <1>13 DEF AbortEnds, told
<1>14. CASE Refused \/ Stops
  <2>1. \A t \in Txns : CommitAtWork(t) \/ answer'[t] = answer[t]
    BY <1>14 DEF Refused, Stops, CommitAtWork, LogTypes
  <2> QED  BY <1>3, <1>12, <1>14, <2>1 DEF Refused, Stops, Ends
<1>15. CASE Crashes \/ Reopens
  BY <1>1, <1>15, <1>a, FileIsCut DEF Crashes, Reopens
<1> QED  BY <1>6, <1>7, <1>8, <1>9, <1>11, <1>12, <1>13, <1>14, <1>15, FlatSteps

----------------------------------------------------------------------------
(* Row ids are given out once, and only what is logged is shown.           *)

\* The transactions whose commit record is in the log, or about to be.
Committing == {t \in Txns : CommitRec(t) \in Known}

\* No two transactions share a row id, be it in flight or logged, and the
\* counter is past all of them.
RowsAreFresh ==
  /\ nextRowId \in Nat
  /\ \A t, u \in Txns : t # u => writes[t] \cap writes[u] = {}
  /\ phase = "open" => \A t \in Txns : \A k \in writes[t] : k < nextRowId
  /\ \A t \in Committing :
       /\ phase = "open" => \A k \in asked[t] : k < nextRowId
       /\ \A u \in Txns \ {t} : asked[t] \cap writes[u] = {}
       /\ \A u \in Committing \ {t} : asked[t] \cap asked[u] = {}

\* The rows that are shown are those of logged commits, with all their rows.
ShownIsLogged ==
  /\ data \in [Keys -> Seq(Version)] /\ watermark \in Nat
  /\ \A k \in Keys : \A t \in WritersOf(data, k) :
       /\ CommitRec(t) \in RecsIn(file)
       /\ k \in asked[t] /\ \A l \in asked[t] : t \in WritersOf(data, l)

\* The commit record of t is in the synced part of the file, no torn frame before it.
Held(t) == \E i \in 1..synced : file[i] = CommitRec(t) /\ \A j \in 1..i : file[j] # Torn

\* Answered Ok, with rows, and not behind a torn frame.
Safe == {t \in Txns \ behind : answer[t] = "ok" /\ asked[t] # {}}

CleanIsSynced ==
  \A t \in Safe :
    Held(t) /\ (phase = "open" => \A k \in asked[t] : t \in WritersOf(data, k))

\* What redo shows of a log.
LEMMA RedoShowsLog ==
  ASSUME NEW f \in Seq(Frame), NEW a \in [Txns -> SUBSET Keys], WellLogged(f, a)
  PROVE  /\ Redo(CleanPrefix(f)).data \in [Keys -> Seq(Version)] /\ Redo(CleanPrefix(f)).ts \in Nat
         /\ \A k \in Keys : WritersOf(Redo(CleanPrefix(f)).data, k) =
              {t \in Txns : k \in a[t] /\ CommitRec(t) \in RecsIn(CleanPrefix(f))}
<1> DEFINE l == CleanPrefix(f)
<1>1. l \in Seq(Record) /\ Len(l) \in Nat /\ CutOf(l, f)
  BY CleanIsCut
<1> HIDE DEF l
<1>2. Redo(l) \in RedoState
  BY <1>1, RedoSteps DEF Redo
<1>3. WellLogged(l, a)
  BY <1>1, WholeWhenCut
<1>4. ASSUME NEW k \in Keys
      PROVE  WritersOf(Redo(l).data, k) = {t \in Txns : k \in a[t] /\ CommitRec(t) \in RecsIn(l)}
  <2>1. WritersOf(Redo(l).data, k) = {t \in Txns : k \in a[t] /\ \E i \in 1..Len(l) : l[i] = CommitRec(t)}
    <3>1. Len(l) \in 0..Len(l)
      BY <1>1
    <3> QED  BY <1>1, <1>3, <3>1, RedoWriters DEF Redo
  <2>2. \A t \in Txns : CommitRec(t) \in RecsIn(l) <=> \E i \in 1..Len(l) : l[i] = CommitRec(t)
    BY Kinds DEF RecsIn
  <2> QED  BY <2>1, <2>2
<1> QED  BY <1>2, <1>4 DEF RedoState, l

\* What redo shows of the file.
LEMMA RedoShows ==
  ASSUME LogTypes, LogsAreWhole
  PROVE  /\ Redo(CleanPrefix(file)).data \in [Keys -> Seq(Version)] /\ Redo(CleanPrefix(file)).ts \in Nat
         /\ \A k \in Keys : WritersOf(Redo(CleanPrefix(file)).data, k) =
              {t \in Txns : k \in asked[t] /\ CommitRec(t) \in RecsIn(CleanPrefix(file))}
BY RedoShowsLog DEF LogTypes, WalTypes, LogsAreWhole

LEMMA RowIdIsPast ==
  ASSUME NEW d
  PROVE  RowIdAfter(d) \in Nat /\ \A k \in Keys : d[k] # << >> => k < RowIdAfter(d)
<1> DEFINE W == {k \in Keys : d[k] # << >>}
           c == Cardinality(W)
           S == {-1} \cup W
<1>1. W \in SUBSET Keys /\ Keys \subseteq Nat
  <2>1. Cardinality(Keys) \in Nat
    BY KeysAreRowIds, FS_CardinalityType
  <2> QED  BY <2>1, KeysAreRowIds
<1> HIDE DEF W
<1>2. /\ c \in Nat /\ Ascending(W) \in [1..c -> W]
      /\ \A i, j \in 1..c : i < j => Ascending(W)[i] < Ascending(W)[j]
      /\ \A k \in W : \E i \in 1..c : Ascending(W)[i] = k
  BY <1>1, AscendingOrder
<1> HIDE DEF c
<1>3. \E x \in S : \A y \in S : x >= y
  <2>1. CASE W = {}
    BY <2>1
  <2>2. CASE W # {}
    <3> DEFINE x == Ascending(W)[c]
    <3>1. c \in 1..c /\ x \in W
      BY <1>2, <2>2
    <3>2. ASSUME NEW y \in W PROVE x >= y
      <4>1. PICK i \in 1..c : Ascending(W)[i] = y
        BY <1>2
      <4>2. i < c \/ i = c
        BY <1>2
      <4>3. y < x \/ y = x
        BY <1>2, <3>1, <4>1, <4>2
      <4>4. x \in Nat /\ y \in Nat
        BY <1>1, <3>1
      <4> HIDE DEF x
      <4> QED  BY <4>3, <4>4
    <3>3. x \in Nat
      BY <1>1, <3>1
    <3> HIDE DEF x
    <3> QED  BY <1>1, <3>1, <3>2, <3>3
  <2> QED  BY <2>1, <2>2
<1>4. Max(S) \in S /\ \A y \in S : Max(S) >= y
  BY <1>3 DEF Max
<1>5. RowIdAfter(d) = 1 + Max(S)
  BY DEF RowIdAfter, W
<1>6. Max(S) \in Int /\ Max(S) >= -1
  <2>1. S \subseteq Int /\ -1 \in S
    BY <1>1
  <2> HIDE DEF S
  <2> QED  BY <1>4, <2>1
<1> HIDE DEF S
<1>7. \A k \in W : Max(S) >= k /\ k \in Nat
  BY <1>1, <1>4 DEF S
<1> QED  BY <1>5, <1>6, <1>7 DEF W

LEMMA RowsStep ==
  ASSUME LogTypes, LogTypes', Accounts, LogsAreWhole, RowsAreFresh, [DbNext]_dbVars PROVE RowsAreFresh'
<1> USE DEF logged, shown, told, counted
<1>a. /\ asked \in [Txns -> SUBSET Keys] /\ writes \in [Txns -> SUBSET Keys] /\ Keys \subseteq Nat
      /\ Known \subseteq Record /\ nextRowId \in Nat
  <2>1. Cardinality(Keys) \in Nat
    BY KeysAreRowIds, FS_CardinalityType
  <2> QED  BY <2>1, KeysAreRowIds, KnownMoves DEF LogTypes, RowsAreFresh
<1>b. \A t \in Committing : CommitRec(t).txn = t /\ asked'[t] = asked[t]
  BY RecordedStays, Kinds DEF Committing
<1>c. Committing \subseteq Txns
  BY DEF Committing
<1>1. ASSUME Known' \subseteq Known, nextRowId' \in Nat,
             UNCHANGED writes \/ writes' = [t \in Txns |-> {}],
             phase' = "open" => phase = "open" /\ nextRowId' = nextRowId
      PROVE  RowsAreFresh'
  <2>1. Committing' \subseteq Committing /\ \A t \in Committing' : asked'[t] = asked[t]
    BY <1>1, <1>b DEF Committing
  <2>2. \A t \in Txns : writes'[t] \subseteq writes[t]
    BY <1>1
  <2>3. \A t, u \in Txns : t # u => writes'[t] \cap writes'[u] = {}
    BY <2>2 DEF RowsAreFresh
  <2>4. phase' = "open" => \A t \in Txns : \A k \in writes'[t] : k < nextRowId'
    BY <1>1, <2>2 DEF RowsAreFresh
  <2>5. ASSUME NEW t \in Committing'
        PROVE  /\ phase' = "open" => \A k \in asked'[t] : k < nextRowId'
               /\ \A u \in Txns \ {t} : asked'[t] \cap writes'[u] = {}
               /\ \A u \in Committing' \ {t} : asked'[t] \cap asked'[u] = {}
    BY <1>1, <2>1, <2>2 DEF RowsAreFresh
  <2> QED  BY <1>1, <2>3, <2>4, <2>5 DEF RowsAreFresh
<1>2. CASE Begins \/ Closes \/ Rests \/ \E t \in Txns : Reads(t)
  BY <1>1, <1>2, <1>a DEF Begins, Closes, Rests, Reads, Known
<1>3. ASSUME NEW t \in Txns, Inserts(t) PROVE RowsAreFresh'
  <2>1. /\ phase = "open" /\ nextRowId' = nextRowId + 1 /\ UNCHANGED phase
        /\ writes' = [writes EXCEPT ![t] = @ \cup {nextRowId}] /\ Known' = Known
    BY <1>3 DEF Inserts, Known
  <2>2. Committing' = Committing /\ \A c \in Committing : asked'[c] = asked[c]
    BY <1>b, <2>1 DEF Committing
  <2>3. writes'[t] = writes[t] \cup {nextRowId} /\ \A u \in Txns : u # t => writes'[u] = writes[u]
    BY <1>a, <2>1
  <2>4. \A u \in Txns : nextRowId \notin writes[u]
    BY <1>a, <2>1 DEF RowsAreFresh
  <2>5. \A c \in Committing : nextRowId \notin asked[c]
    BY <1>a, <2>1 DEF RowsAreFresh
  <2>6. \A u, v \in Txns : u # v => writes'[u] \cap writes'[v] = {}
    BY <2>3, <2>4 DEF RowsAreFresh
  <2>7. \A u \in Txns : \A k \in writes'[u] : k < nextRowId'
    <3>1. \A u \in Txns : \A k \in writes[u] : k < nextRowId /\ k \in Nat
      BY <1>a, <2>1 DEF RowsAreFresh
    <3> QED  BY <1>a, <2>1, <2>3, <3>1
  <2>8. \A c \in Committing : \A k \in asked[c] : k < nextRowId'
    <3>1. \A c \in Committing : \A k \in asked[c] : k < nextRowId /\ k \in Nat
      BY <1>a, <1>c, <2>1 DEF RowsAreFresh
    <3> QED  BY <1>a, <2>1, <3>1
  <2>9. \A c \in Committing : \A u \in Txns \ {c} : asked[c] \cap writes'[u] = {}
    BY <2>3, <2>5 DEF RowsAreFresh
  <2>10. \A c \in Committing : \A u \in Committing \ {c} : asked[c] \cap asked[u] = {}
    BY DEF RowsAreFresh
  <2>11. nextRowId' \in Nat
    BY <1>a, <2>1
  <2> QED  BY <2>2, <2>6, <2>7, <2>8, <2>9, <2>10, <2>11 DEF RowsAreFresh
<1>4. ASSUME NEW t \in Txns, Logs(t) PROVE RowsAreFresh'
  <2>1. /\ phase = "open" /\ UNCHANGED <<phase, writes, nextRowId>> /\ job = NoJob /\ t \in pending
        /\ asked' = [asked EXCEPT ![t] = writes[t]] /\ Known' = Known \cup RecsIn(CommitRecords(t))
        /\ \A r \in RecsIn(CommitRecords(t)) : r.txn = t
    BY <1>4, KnownGrows DEF Logs, Known
  <2>2. Committing' \subseteq Committing \cup {t}
    BY <2>1, Kinds DEF Committing
  <2>3. asked'[t] = writes[t]
    BY <1>a, <2>1
  <2>4. ASSUME NEW c \in Committing'
        PROVE  /\ phase' = "open" => \A k \in asked'[c] : k < nextRowId'
               /\ \A u \in Txns \ {c} : asked'[c] \cap writes'[u] = {}
               /\ \A u \in Committing' \ {c} : asked'[c] \cap asked'[u] = {}
    <3>1. CASE c = t
      <4>1. \A u \in Committing' \ {t} : u \in Committing /\ asked'[u] = asked[u]
        BY <1>b, <2>2
      <4>2. \A u \in Committing' \ {t} : asked[u] \cap writes[t] = {}
        BY <4>1 DEF RowsAreFresh
      <4> QED  BY <2>1, <2>3, <3>1, <4>1, <4>2 DEF RowsAreFresh
    <3>2. CASE c # t
      <4>1. c \in Committing /\ asked'[c] = asked[c]
        BY <1>b, <2>2, <3>2
      <4>2. ASSUME NEW u \in Committing' \ {c} PROVE asked[c] \cap asked'[u] = {}
        <5>1. CASE u = t
          BY <2>3, <4>1, <5>1 DEF RowsAreFresh
        <5>2. CASE u # t
          <6>1. u \in Committing /\ asked'[u] = asked[u]
            BY <1>b, <2>2, <5>2
          <6> QED  BY <4>1, <6>1 DEF RowsAreFresh
        <5> QED  BY <5>1, <5>2
      <4> QED  BY <2>1, <4>1, <4>2 DEF RowsAreFresh
    <3> QED  BY <3>1, <3>2
  <2> QED  BY <2>1, <2>4 DEF RowsAreFresh
<1>5. ASSUME NEW t \in Txns, Undoes(t) PROVE RowsAreFresh'
  <2>1. /\ UNCHANGED <<phase, writes, nextRowId>> /\ Known' = Known \cup {AbortRec(t)}
    BY <1>5, KnownGrows DEF Undoes, Known
  <2>2. Committing' = Committing
    <3>1. \A u \in Txns : CommitRec(u) # AbortRec(t)
      BY Kinds
    <3> QED  BY <2>1, <3>1 DEF Committing
  <2>3. \A c \in Committing : asked'[c] = asked[c]
    BY <1>b
  <2> QED  BY <2>1, <2>2, <2>3 DEF RowsAreFresh
<1>6. CASE Emits \/ Publish \/ AbortEnds \/ Refused
  <2>1. UNCHANGED <<phase, writes, nextRowId>>
    BY <1>6 DEF Emits, Publish, AbortEnds, Refused
  <2>2. Known' \subseteq Known
    BY <1>6, KnownMoves DEF Known, Emits, Publish, AbortEnds, Refused, Ends, Fails
  <2> QED  BY <1>1, <1>a, <2>1, <2>2
<1>7. CASE Stops \/ Crashes
  <2>1. phase' = "down" /\ nextRowId' = 0 /\ writes' = [t \in Txns |-> {}]
    BY <1>7 DEF Stops, Crashes, Gone
  <2>2. Known' \subseteq Known
    BY <1>7, KnownMoves DEF Known, Stops, Crashes, Ends, Fails
  <2> QED  BY <1>1, <2>1, <2>2
<1>8. CASE Reopens
  <2> DEFINE l == CleanPrefix(file)
  <2>1. /\ writes' = [t \in Txns |-> {}] /\ UNCHANGED asked /\ file' = l /\ group' = << >>
        /\ data' = Redo(l).data /\ nextRowId' = RowIdAfter(data')
    BY <1>8 DEF Reopens, Reopen
  <2>2. Known' = RecsIn(l)
    BY <2>1 DEF Known, RecsIn
  <2> HIDE DEF l
  <2>3. Known' \subseteq Known
    BY <2>2, RedoOfFile DEF Known, l
  <2>4. nextRowId' \in Nat
    BY <2>1, RowIdIsPast
  <2>5. ASSUME NEW t \in Committing', NEW k \in asked'[t] PROVE k < nextRowId'
    <3>1. t \in Txns /\ CommitRec(t) \in RecsIn(l) /\ k \in asked[t] /\ k \in Keys
      BY <1>a, <2>1, <2>2, <2>5 DEF Committing
    <3>2. t \in WritersOf(data', k)
      BY <2>1, <3>1, RedoShows DEF l
    <3>3. data'[k] # << >>
      BY <3>2 DEF WritersOf
    <3> QED  BY <2>1, <3>1, <3>3, RowIdIsPast
  <2>6. Committing' \subseteq Committing
    BY <2>3 DEF Committing
  <2> QED  BY <2>1, <2>4, <2>5, <2>6 DEF RowsAreFresh
<1> QED  BY <1>2, <1>3, <1>4, <1>5, <1>6, <1>7, <1>8, FlatSteps

LEMMA ShownStep ==
  ASSUME LogTypes, LogTypes', Accounts, LogsAreWhole, ShownIsLogged, [DbNext]_dbVars PROVE ShownIsLogged'
<1> USE DEF logged, shown, told, counted
<1>a. /\ writes \in [Txns -> SUBSET Keys] /\ asked \in [Txns -> SUBSET Keys]
      /\ data \in [Keys -> Seq(Version)] /\ watermark \in Nat /\ RecsIn(file) \subseteq Known
  BY DEF LogTypes, ShownIsLogged, Known
<1>b. \A k \in Keys : WritersOf(data, k) \subseteq Txns
  <2>1. \A k \in Keys : \A i \in DOMAIN data[k] : data[k][i] \in Version
    BY <1>a
  <2> QED  BY <2>1 DEF WritersOf, Version
<1>c. \A t \in Txns : CommitRec(t) \in Known => asked'[t] = asked[t]
  BY RecordedStays, Kinds
<1>1. ASSUME data' = data, watermark' \in Nat, RecsIn(file) \subseteq RecsIn(file') PROVE ShownIsLogged'
  <2>1. ASSUME NEW k \in Keys, NEW t \in WritersOf(data', k)
        PROVE  /\ CommitRec(t) \in RecsIn(file') /\ k \in asked'[t]
               /\ \A l \in asked'[t] : t \in WritersOf(data', l)
    <3>1. t \in WritersOf(data, k) /\ t \in Txns /\ CommitRec(t) \in RecsIn(file)
      BY <1>1, <1>b, <2>1 DEF ShownIsLogged
    <3>2. asked'[t] = asked[t]
      BY <1>a, <1>c, <3>1
    <3> QED  BY <1>1, <3>1, <3>2 DEF ShownIsLogged
  <2> QED  BY <1>1, <1>a, <2>1 DEF ShownIsLogged
<1>2. CASE Begins \/ Closes \/ Rests \/ \E t \in Txns : Inserts(t) \/ Logs(t) \/ Undoes(t)
  BY <1>1, <1>2, <1>a DEF Begins, Closes, Rests, Inserts, Logs, Undoes
<1>3. CASE \E t \in Txns : Reads(t)
  <2>1. data' = [k \in Keys |-> data[k]] /\ watermark' = watermark + 1 /\ file' = file
    BY <1>3 DEF Reads
  <2>2. data' = data /\ watermark' \in Nat
    BY <1>a, <2>1
  <2> QED  BY <1>1, <2>1, <2>2
<1>4. CASE Emits \/ AbortEnds \/ Refused
  <2>1. RecsIn(file) \subseteq RecsIn(file')
    BY <1>4, KnownMoves DEF Emits, AbortEnds, Refused, Ends, Fails
  <2> QED  BY <1>1, <1>4, <1>a, <2>1 DEF Emits, AbortEnds, Refused
<1>5. CASE Publish
  <2> DEFINE t == job.txn
             v == [ts |-> watermark + 1, by |-> t]
  <2>1. /\ t \in Txns /\ asked[t] = writes[t] /\ CommitRec(t) \in RecsIn(file) /\ file' = file /\ UNCHANGED asked
        /\ data' = [k \in Keys |-> IF k \in writes[t] THEN Append(data[k], v) ELSE data[k]]
        /\ watermark' \in Nat /\ watermark + 1 \in Nat
    BY <1>5, <1>a DEF Publish, SyncGroup, Accounts, CommitAtWork
  <2> HIDE DEF t
  <2>2. v \in Version /\ v.by = t
    BY <2>1 DEF Version
  <2> HIDE DEF v
  <2>3. data' \in [Keys -> Seq(Version)]
    BY <1>a, <2>1, <2>2
  <2>4. ASSUME NEW k \in Keys
        PROVE  WritersOf(data', k) = WritersOf(data, k) \cup (IF k \in asked[t] THEN {t} ELSE {})
    <3>1. CASE k \in asked[t]
      <4>1. data'[k] = Append(data[k], v) /\ data[k] \in Seq(Version)
        BY <1>a, <2>1, <3>1
      <4> QED  BY <2>2, <3>1, <4>1, WritersGrow, WritersAreOfChains
    <3>2. CASE k \notin asked[t]
      BY <2>1, <3>2 DEF WritersOf
    <3> QED  BY <3>1, <3>2
  <2>5. ASSUME NEW k \in Keys, NEW u \in WritersOf(data', k)
        PROVE  /\ CommitRec(u) \in RecsIn(file') /\ k \in asked'[u]
               /\ \A l \in asked'[u] : u \in WritersOf(data', l)
    <3>1. asked[u] \subseteq Keys
      BY <1>a, <1>b, <2>1, <2>4
    <3>2. CASE u \in WritersOf(data, k)
      BY <2>1, <2>4, <3>1, <3>2 DEF ShownIsLogged
    <3>3. CASE k \in asked[t] /\ u = t
      BY <2>1, <2>4, <3>1, <3>3
    <3> QED  BY <2>4, <3>2, <3>3
  <2> QED  BY <2>1, <2>3, <2>5 DEF ShownIsLogged
<1>6. CASE Stops \/ Crashes
  <2>1. data' = [k \in Keys |-> << >>] /\ watermark' = 0
    BY <1>6 DEF Stops, Crashes, Gone
  <2>2. data' \in [Keys -> Seq(Version)] /\ \A k \in Keys : WritersOf(data', k) = {}
    BY <2>1 DEF WritersOf
  <2> QED  BY <2>1, <2>2 DEF ShownIsLogged
<1>7. CASE Reopens
  <2> DEFINE l == CleanPrefix(file)
  <2>1. file' = l /\ UNCHANGED asked /\ data' = Redo(l).data /\ watermark' = Redo(l).ts
    BY <1>7 DEF Reopens, Reopen
  <2>2. /\ Redo(l).data \in [Keys -> Seq(Version)] /\ Redo(l).ts \in Nat
        /\ \A k \in Keys : WritersOf(Redo(l).data, k) = {t \in Txns : k \in asked[t] /\ CommitRec(t) \in RecsIn(l)}
    BY RedoShows
  <2> HIDE DEF l
  <2> QED  BY <1>a, <2>1, <2>2 DEF ShownIsLogged
<1> QED  BY <1>2, <1>3, <1>4, <1>5, <1>6, <1>7, FlatSteps

\* What a sync has covered stays, up to the first torn frame.
LEMMA SyncedStays ==
  ASSUME LogTypes, [DbNext]_dbVars, NEW t, Held(t) PROVE Held(t)'
<1> USE DEF logged
<1>a. /\ WalTypes /\ file \in Seq(Frame) /\ synced \in 0..Len(file) /\ Len(file) \in Nat /\ group \in Seq(Frame)
  BY RecordsAreFrames DEF LogTypes, WalTypes
<1>b. PICK n \in 1..synced : file[n] = CommitRec(t) /\ \A j \in 1..n : file[j] # Torn
  BY DEF Held
<1>c. n \in 1..Len(file) /\ \A j \in 1..n : j \in 1..synced /\ j \in 1..Len(file)
  BY <1>a
<1>1. ASSUME n \in 1..synced', \A j \in 1..n : file'[j] = file[j] PROVE Held(t)'
  <2>1. n \in 1..n
    BY <1>a
  <2> QED  BY <1>1, <1>b, <2>1 DEF Held
<1>2. CASE UNCHANGED logged
  BY <1>1, <1>2, <1>b
<1>3. ASSUME WriteGroup \/ WriteGroupFails \/ SyncGroupFails PROVE Held(t)'
  <2>1. PICK left \in Seq(Frame) : file' = file \o left /\ UNCHANGED synced
    BY <1>3, <1>a, FileGrows
  <2>2. \A j \in 1..Len(file) : file'[j] = file[j]
    BY <1>a, <2>1, Joined
  <2> QED  BY <1>1, <1>b, <1>c, <2>1, <2>2
<1>4. ASSUME SyncGroup PROVE Held(t)'
  BY <1>1, <1>4, <1>b, <1>c DEF SyncGroup
<1>5. CASE Crashes
  <2>1. synced <= synced' /\ (\A i \in 1..synced : file'[i] = file[i]) /\ synced' \in Nat
    BY <1>5, <1>a, WalLoses DEF Crashes, WalTypes
  <2> QED  BY <1>1, <1>a, <1>b, <1>c, <2>1
<1>6. CASE Reopens
  <2> DEFINE l == CleanPrefix(file)
  <2>1. file' = l /\ synced' = IF l = file THEN synced ELSE Len(l)
    BY <1>6 DEF Reopens, Reopen
  <2>2. n \in 1..Len(l) /\ \A j \in 1..Len(l) : l[j] = file[j]
    BY <1>a, <1>b, <1>c, CleanIsCut
  <2>3. \A j \in 1..n : j \in 1..Len(l)
    <3>1. Len(l) \in 0..Len(file)
      BY <1>a, CleanIsCut
    <3> QED  BY <1>a, <2>2, <3>1
  <2> HIDE DEF l
  <2> QED  BY <1>1, <1>b, <2>1, <2>2, <2>3
<1>7. CASE Emits \/ Publish \/ AbortEnds \/ Refused \/ Stops
  BY <1>2, <1>3, <1>4, <1>7 DEF Emits, Publish, AbortEnds, Refused, Stops, Ends, Fails
<1>8. CASE Begins \/ Closes \/ Rests \/ \E u \in Txns : Inserts(u) \/ Reads(u) \/ Logs(u) \/ Undoes(u)
  <2>1. UNCHANGED file /\ UNCHANGED synced
    BY <1>8 DEF Begins, Closes, Rests, Inserts, Reads, Logs, Undoes
  <2> QED  BY <1>1, <1>b, <2>1
<1> QED  BY <1>5, <1>6, <1>7, <1>8, FlatSteps

LEMMA CleanStep ==
  ASSUME LogTypes, LogTypes', Accounts, LogsAreWhole, ShownIsLogged, CleanIsSynced, [DbNext]_dbVars
  PROVE  CleanIsSynced'
<1> USE DEF logged, shown, told, counted
<1>a. /\ writes \in [Txns -> SUBSET Keys] /\ asked \in [Txns -> SUBSET Keys] /\ file \in Seq(Frame)
      /\ synced \in 0..Len(file) /\ Len(file) \in Nat
      /\ answer \in [Txns -> {"none", "ok", "failed", "aborted", "unknown"}]
      /\ data \in [Keys -> Seq(Version)]
  BY RecordsAreFrames DEF LogTypes, WalTypes, ShownIsLogged
<1>b. /\ \A t \in pending : t \in Txns /\ answer[t] = "none" /\ (job = NoJob => asked[t] = {})
      /\ job.op = "commit" => job.txn \in pending
  BY DEF Accounts, CommitAtWork, NoJob, LogTypes, Jobs
<1>1. ASSUME NEW t \in Safe', t \in Safe, asked'[t] = asked[t], phase' = "open" => phase = "open" /\ data' = data
      PROVE  Held(t)' /\ (phase' = "open" => \A k \in asked'[t] : t \in WritersOf(data', k))
  BY <1>1, SyncedStays DEF CleanIsSynced
<1>2. ASSUME Safe' \subseteq Safe, UNCHANGED asked, phase' = "open" => phase = "open" /\ data' = data
      PROVE  CleanIsSynced'
  BY <1>1, <1>2 DEF CleanIsSynced
<1>3. CASE Begins
  <2>1. nextTxn \in Txns /\ UNCHANGED <<phase, data>>
    BY <1>3, MaxTxnsAssumption DEF Begins, Accounts, Txns
  <2>2. ASSUME NEW t \in Safe' PROVE t \in Safe /\ asked'[t] = asked[t]
    BY <1>3, <1>a, <2>1, <2>2 DEF Begins, Safe
  <2> QED  BY <1>1, <2>1, <2>2 DEF CleanIsSynced
<1>4. CASE Closes \/ Rests \/ Emits \/ AbortEnds \/ \E t \in Txns : Inserts(t)
  <2>1. UNCHANGED <<asked, answer, behind, data>> /\ (phase' = "open" => phase = "open")
    BY <1>4 DEF Closes, Rests, Emits, AbortEnds, Inserts
  <2> QED  BY <1>2, <2>1 DEF Safe
<1>5. ASSUME NEW t \in Txns, Reads(t) PROVE CleanIsSynced'
  <2>1. /\ asked[t] = {} /\ UNCHANGED <<asked, behind, phase>> /\ answer' = [answer EXCEPT ![t] = "ok"]
        /\ data' = [k \in Keys |-> data[k]]
    BY <1>5, <1>b DEF Reads
  <2>2. Safe' \subseteq Safe
    BY <1>a, <2>1 DEF Safe
  <2>3. data' = data
    BY <1>a, <2>1
  <2> QED  BY <1>2, <2>1, <2>2, <2>3
<1>6. ASSUME NEW t \in Txns, Logs(t) PROVE CleanIsSynced'
  <2>1. /\ UNCHANGED <<answer, behind, phase, data>> /\ asked' = [asked EXCEPT ![t] = writes[t]] /\ answer[t] = "none"
    BY <1>6, <1>b DEF Logs
  <2>2. ASSUME NEW u \in Safe' PROVE u \in Safe /\ asked'[u] = asked[u]
    BY <1>a, <2>1, <2>2 DEF Safe
  <2> QED  BY <1>1, <2>1, <2>2 DEF CleanIsSynced
<1>7. CASE Refused \/ \E t \in Txns : Undoes(t)
  <2>1. UNCHANGED <<asked, behind, data, phase>> /\ \E t \in Txns, a \in {"failed", "aborted"} : answer' = [answer EXCEPT ![t] = a]
    BY <1>7, <1>b DEF Refused, Undoes
  <2>2. Safe' \subseteq Safe
    BY <1>a, <2>1 DEF Safe
  <2> QED  BY <1>2, <2>1, <2>2
<1>8. CASE Publish
  <2> DEFINE t == job.txn
             v == [ts |-> watermark + 1, by |-> t]
  <2>1. /\ t \in Txns /\ asked[t] = writes[t] /\ CommitRec(t) \in RecsIn(file) /\ file' = file /\ UNCHANGED <<asked, phase>>
        /\ data' = [k \in Keys |-> IF k \in writes[t] THEN Append(data[k], v) ELSE data[k]]
        /\ answer' = [answer EXCEPT ![t] = "ok"] /\ synced' = Len(file) /\ watermark \in Nat
        /\ behind' = IF TornPlaces(file) = {} THEN behind ELSE behind \cup {t}
    BY <1>8, <1>b DEF Publish, SyncGroup, Accounts, CommitAtWork, ShownIsLogged
  <2>2. v \in Version /\ v.by = t
    BY <2>1 DEF Version
  <2> HIDE DEF t, v
  <2>3. ASSUME NEW k \in Keys
        PROVE  WritersOf(data, k) \subseteq WritersOf(data', k) /\ (k \in asked[t] => t \in WritersOf(data', k))
    <3>1. CASE k \in asked[t]
      <4>1. data'[k] = Append(data[k], v) /\ data[k] \in Seq(Version)
        BY <1>a, <2>1, <3>1
      <4>2. WritersOf(data', k) = WritersOf(data, k) \cup {t}
        BY <2>2, <4>1, WritersGrow, WritersAreOfChains
      <4> QED  BY <4>2
    <3>2. CASE k \notin asked[t]
      BY <2>1, <3>2 DEF WritersOf
    <3> QED  BY <3>1, <3>2
  <2>4. ASSUME NEW u \in Safe' PROVE Held(u)' /\ \A k \in asked'[u] : u \in WritersOf(data', k)
    <3>1. u \in Txns /\ asked[u] \subseteq Keys
      BY <1>a, <2>4 DEF Safe
    <3>2. CASE u = t
      <4>1. \A j \in 1..Len(file) : file[j] # Torn
        <5>1. u \notin behind'
          BY <2>4 DEF Safe
        <5>2. TornPlaces(file) = {} /\ DOMAIN file = 1..Len(file)
          BY <1>a, <2>1, <3>2, <5>1
        <5> QED  BY <5>2 DEF TornPlaces
      <4>2. PICK i \in 1..Len(file) : file[i] = CommitRec(t)
        BY <2>1 DEF RecsIn
      <4>3. \A j \in 1..i : j \in 1..Len(file)
        BY <1>a
      <4>4. Held(u)'
        BY <2>1, <3>2, <4>1, <4>2, <4>3 DEF Held
      <4> QED  BY <2>1, <2>3, <3>1, <3>2, <4>4
    <3>3. CASE u # t
      <4>1. u \in Safe
        BY <1>a, <2>1, <2>4, <3>3 DEF Safe
      <4>2. Held(u) /\ \A k \in asked[u] : u \in WritersOf(data, k)
        BY <1>8, <4>1 DEF CleanIsSynced, Publish, Accounts, NoJob
      <4> QED  BY <2>1, <2>3, <3>1, <4>2, SyncedStays
    <3> QED  BY <3>2, <3>3
  <2> QED  BY <2>4 DEF CleanIsSynced
<1>9. CASE Stops \/ Crashes
  <2>1. phase' = "down" /\ UNCHANGED <<asked, behind>>
        /\ (UNCHANGED answer \/ answer' = [answer EXCEPT ![job.txn] = "unknown"])
    BY <1>9 DEF Stops, Crashes, Gone
  <2>2. Safe' \subseteq Safe
    BY <1>a, <2>1 DEF Safe
  <2> QED  BY <1>2, <2>1, <2>2
<1>10. CASE Reopens
  <2> DEFINE l == CleanPrefix(file)
  <2>1. UNCHANGED told /\ data' = Redo(l).data
    BY <1>10 DEF Reopens
  <2>2. Safe' = Safe
    BY <2>1 DEF Safe
  <2>3. ASSUME NEW t \in Safe PROVE Held(t)' /\ \A k \in asked[t] : t \in WritersOf(data', k)
    <3>1. PICK i \in 1..synced : file[i] = CommitRec(t) /\ \A j \in 1..i : file[j] # Torn
      BY DEF CleanIsSynced, Held
    <3>2. i \in 1..Len(l) /\ l[i] = CommitRec(t)
      <4>1. i \in 1..Len(file)
        BY <1>a
      <4> QED  BY <1>a, <3>1, <4>1, CleanIsCut
    <3>3. CommitRec(t) \in RecsIn(l) /\ t \in Txns /\ asked[t] \subseteq Keys
      BY <1>a, <3>2, Kinds DEF RecsIn, Safe
    <3>4. \A k \in asked[t] : t \in WritersOf(data', k)
      BY <2>1, <3>3, RedoShows
    <3>5. Held(t)
      BY DEF CleanIsSynced
    <3> QED  BY <3>4, <3>5, SyncedStays
  <2> QED  BY <2>1, <2>2, <2>3 DEF CleanIsSynced
<1> QED  BY <1>3, <1>4, <1>5, <1>6, <1>7, <1>8, <1>9, <1>10, FlatSteps

----------------------------------------------------------------------------
(* What holds of every database, whatever fails.                           *)

RecoveryInv ==
  LogTypes /\ Accounts /\ LogsAreWhole /\ RowsAreFresh /\ ShownIsLogged /\ CleanIsSynced

LEMMA RecoveryInvInit == DbInit => RecoveryInv
<1> SUFFICES ASSUME DbInit PROVE RecoveryInv
  OBVIOUS
<1>1. LogTypes
  BY LogTypesInit
<1>2. /\ file = << >> /\ group = << >> /\ synced = 0 /\ phase = "open" /\ job = NoJob
      /\ pending = {} /\ nextTxn = 0 /\ nextRowId = 0 /\ watermark = 0 /\ data = [k \in Keys |-> << >>]
      /\ answer = [t \in Txns |-> "none"] /\ asked = [t \in Txns |-> {}] /\ writes = [t \in Txns |-> {}]
  BY DEF DbInit, Init, WalInit
<1>3. Known = {} /\ RecsIn(file) = {} /\ RecsIn(group) = {} /\ Committing = {}
  BY <1>2 DEF Known, RecsIn, Committing
<1>4. Accounts
  BY <1>2, <1>3 DEF Accounts, CommitAtWork, NoJob
<1>5. LogsAreWhole
  BY <1>2 DEF LogsAreWhole, WellLogged, Again
<1>6. RowsAreFresh
  BY <1>2, <1>3 DEF RowsAreFresh
<1>7. ShownIsLogged /\ CleanIsSynced
  <2>1. data \in [Keys -> Seq(Version)] /\ \A k \in Keys : WritersOf(data, k) = {}
    BY <1>2 DEF WritersOf
  <2> QED  BY <1>2, <2>1 DEF ShownIsLogged, CleanIsSynced, Safe
<1> QED  BY <1>1, <1>4, <1>5, <1>6, <1>7 DEF RecoveryInv

LEMMA RecoveryInvStep == RecoveryInv /\ [DbNext]_dbVars => RecoveryInv'
<1> SUFFICES ASSUME RecoveryInv, [DbNext]_dbVars PROVE RecoveryInv'
  OBVIOUS
<1>1. LogTypes /\ Accounts /\ LogsAreWhole /\ RowsAreFresh /\ ShownIsLogged /\ CleanIsSynced
  BY DEF RecoveryInv
<1>2. LogTypes'
  BY <1>1, LogTypesStep
<1>3. Accounts' /\ LogsAreWhole' /\ RowsAreFresh' /\ ShownIsLogged' /\ CleanIsSynced'
  BY <1>1, <1>2, AccountsStep, LogsStep, RowsStep, ShownStep, CleanStep
<1> QED  BY <1>2, <1>3 DEF RecoveryInv

\* A transaction id that is in the log, or about to be, is below the counter
\* that gives out ids, also after the counter was recomputed from a log that a
\* crash or a failed write cut short (mvcc.rs:313).
THEOREM IdsStayFresh == DbSpec => []IdsAreFresh
<1>1. RecoveryInv => IdsAreFresh
  <2> SUFFICES ASSUME RecoveryInv, phase = "open"
               PROVE  /\ \A i \in DOMAIN file : file[i] # Torn => file[i].txn < nextTxn
                      /\ \A i \in DOMAIN group : group[i].txn < nextTxn
    BY DEF IdsAreFresh
  <2>1. file \in Seq(Frame) /\ group \in Seq(Record) /\ \A r \in Known : r.txn < nextTxn
    BY DEF RecoveryInv, LogTypes, WalTypes, Accounts
  <2>2. DOMAIN file = 1..Len(file) /\ DOMAIN group = 1..Len(group) /\ \A i \in 1..Len(group) : group[i] \in Record
    BY <2>1
  <2>3. \A i \in 1..Len(group) : group[i] # Torn
    BY <2>2, TornIsNoRecord
  <2> QED  BY <2>1, <2>2, <2>3 DEF Known, RecsIn
<1> QED  BY <1>1, RecoveryInvInit, RecoveryInvStep, PTL DEF DbSpec

\* A row is never shown without the other rows its transaction asked to commit:
\* not by a commit, and not by a recovery from a log that was torn in the
\* middle of a group (engine.rs redo, mvcc.rs:308-353).
THEOREM RecoveryIsWhole == DbSpec => []RecoveredWhole
<1>1. RecoveryInv => RecoveredWhole
  BY DEF RecoveryInv, ShownIsLogged, RecoveredWhole
<1> QED  BY <1>1, RecoveryInvInit, RecoveryInvStep, PTL DEF DbSpec

\* No committed row is ever overwritten: the counter of row ids, recomputed at
\* every start from what redo shows, stays past every committed row, so that
\* two transactions never write the same one.
THEOREM RowsStayTheirs == DbSpec => []RowsNeverOverwritten
<1>1. RecoveryInv => RowsNeverOverwritten
  <2> SUFFICES ASSUME RecoveryInv, NEW k \in Keys
               PROVE  /\ Cardinality(WritersOf(data, k)) <= 1
                      /\ phase = "open" /\ data[k] # << >> => k < nextRowId
    BY DEF RowsNeverOverwritten
  <2>1. \A i \in DOMAIN data[k] : data[k][i] \in Version
    BY DEF RecoveryInv, ShownIsLogged
  <2>2. \A t \in WritersOf(data, k) : t \in Committing /\ k \in asked[t]
    BY <2>1 DEF RecoveryInv, ShownIsLogged, WritersOf, Version, Committing, Known
  <2>3. \A t, u \in WritersOf(data, k) : t = u
    BY <2>2 DEF RecoveryInv, RowsAreFresh
  <2>4. CASE WritersOf(data, k) = {}
    <3>1. Cardinality(WritersOf(data, k)) = 0
      BY <2>4, FS_EmptySet
    <3>2. data[k] = << >>
      <4>1. data[k] \in Seq(Version)
        BY DEF RecoveryInv, ShownIsLogged
      <4> QED  BY <2>4, <4>1, NobodyWrote, WritersAreOfChains
    <3> QED  BY <3>1, <3>2
  <2>5. CASE WritersOf(data, k) # {}
    <3>1. PICK t \in WritersOf(data, k) : TRUE
      BY <2>5
    <3>2. WritersOf(data, k) = {t}
      BY <2>3, <3>1
    <3>3. Cardinality(WritersOf(data, k)) = 1
      BY <3>2, FS_Singleton
    <3>4. phase = "open" => k < nextRowId
      BY <2>2, <3>1 DEF RecoveryInv, RowsAreFresh
    <3> QED  BY <3>3, <3>4
  <2> QED  BY <2>4, <2>5
<1> QED  BY <1>1, RecoveryInvInit, RecoveryInvStep, PTL DEF DbSpec

\* A commit that was answered Ok is in every open database from then on,
\* unless its group landed behind a torn frame: no failed write or sync, no
\* crash at any step and no restart loses it (DURABILITY_CONTRACT.md:33).
THEOREM CleanCommitsStay == DbSpec => []CleanCommitsSurvive
<1>1. RecoveryInv => CleanCommitsSurvive
  BY DEF RecoveryInv, CleanIsSynced, Safe, CleanCommitsSurvive
<1> QED  BY <1>1, RecoveryInvInit, RecoveryInvStep, PTL DEF DbSpec

----------------------------------------------------------------------------
(* The two recoveries.                                                     *)

LEMMA LastPlace ==
  ASSUME NEW n \in Nat, NEW S \in SUBSET (1..n), S # {}
  PROVE  Max(S) \in S /\ \A i \in S : i <= Max(S)
<1> DEFINE HasMax(T) == \E x \in T : \A y \in T : x >= y
           Good == {m \in 0..n : \A T \in SUBSET (1..m) : T # {} => HasMax(T)}
<1>1. 0 \in Good
  <2>1. \A T \in SUBSET (1..0) : T = {}
    OBVIOUS
  <2>2. 0 \in 0..n
    OBVIOUS
  <2> HIDE DEF HasMax
  <2> QED  BY <2>1, <2>2
<1>2. ASSUME NEW m \in 0..(n - 1), m \in Good PROVE m + 1 \in Good
  <2>1. ASSUME NEW T \in SUBSET (1..(m + 1)), T # {} PROVE HasMax(T)
    <3>1. CASE m + 1 \in T
      BY <3>1
    <3>2. CASE m + 1 \notin T
      <4>1. T \in SUBSET (1..m)
        BY <3>2
      <4> QED  BY <1>2, <2>1, <4>1
    <3> QED  BY <3>1, <3>2
  <2> HIDE DEF HasMax
  <2> QED  BY <2>1
<1>3. \A m \in 0..n : m \in Good
  <2> HIDE DEF Good
  <2> QED  BY <1>1, <1>2, InductionTo
<1>4. HasMax(S)
  <2> HIDE DEF HasMax
  <2> QED  BY <1>3
<1>5. Max(S) \in S /\ \A y \in S : Max(S) >= y
  BY <1>4 DEF Max
<1> QED  BY <1>5

\* On every log that the engine leaves, the analysis of recovery.rs finds for
\* each row the writer that redo_from_records shows, except when it undoes a
\* transaction whose refused commit was written a second time.
THEOREM RecoveriesStayAgreed == DbSpec => []RecoveriesAgree
<1>1. RecoveryInv => RecoveriesAgree
  <2> DEFINE log == CleanPrefix(file)
             d == Redo(log).data
  <2> SUFFICES ASSUME RecoveryInv, NEW k \in Keys
               PROVE  \/ RecoveredWriter(log, k) = (IF d[k] = << >> THEN NoTxn ELSE d[k][Len(d[k])].by)
                      \/ \E t \in Undone(log) : answer[t] = "failed" /\ t \in WritersOf(d, k)
    BY DEF RecoveriesAgree
  <2>a. LogTypes /\ Accounts /\ LogsAreWhole /\ RowsAreFresh
    BY DEF RecoveryInv
  <2>b. /\ log \in Seq(Record) /\ Len(log) \in Nat /\ DOMAIN log = 1..Len(log) /\ CutOf(log, file)
        /\ RecsIn(log) \subseteq Known /\ \A i \in 1..Len(log) : log[i] \in Record
    BY <2>a, CleanIsCut, RedoOfFile DEF LogTypes, WalTypes, Known
  <2>c. d \in [Keys -> Seq(Version)]
        /\ WritersOf(d, k) = {t \in Txns : k \in asked[t] /\ CommitRec(t) \in RecsIn(log)}
    BY <2>a, RedoShows
  <2> HIDE DEF log, d
  <2>d. WellLogged(log, asked) /\ Again(log) \subseteq Again(file)
    BY <2>a, <2>b, WholeWhenCut, AgainWhenCut DEF LogsAreWhole
  <2>e. \A i \in 1..Len(log) : log[i] \in RecsIn(log)
    BY <2>b, TornIsNoRecord DEF RecsIn
  <2>f. \A t, u \in WritersOf(d, k) : t = u
    BY <2>a, <2>b, <2>c DEF RowsAreFresh, Committing
  <2> DEFINE puts == {i \in Puts(log) : log[i].key = k /\ Redoes(log, i)}
             last(t) == Max(Marks(log, t))
  <2>1. ASSUME NEW t \in Txns, Marks(log, t) # {}
        PROVE  /\ last(t) \in 1..Len(log) /\ log[last(t)].txn = t
               /\ log[last(t)].kind \in {"begin", "commit", "abort"}
               /\ \A i \in Marks(log, t) : i <= last(t)
    <3>1. Marks(log, t) \in SUBSET (1..Len(log))
      BY <2>b DEF Marks
    <3>2. last(t) \in Marks(log, t) /\ \A i \in Marks(log, t) : i <= last(t)
      BY <2>1, <2>b, <3>1, LastPlace
    <3> QED  BY <2>b, <3>2 DEF Marks
  <2> HIDE DEF last
  <2>2. ASSUME NEW t \in Txns, Marks(log, t) # {}
        PROVE  StatusOf(log, t) = CASE log[last(t)].kind = "begin" -> "in flight"
                                    [] log[last(t)].kind = "commit" -> "committed"
                                    [] log[last(t)].kind = "abort" -> "aborted"
    BY <2>2 DEF StatusOf, last
  <2>3. ASSUME NEW i \in puts PROVE i \in 1..Len(log) /\ log[i].txn \in WritersOf(d, k)
    <3> DEFINE t == log[i].txn
    <3>1. i \in 1..Len(log) /\ log[i].kind = "put" /\ log[i].key = k /\ StatusOf(log, t) = "committed"
      BY <2>b DEF Puts, Redoes
    <3>2. t \in Txns /\ k \in asked[t]
      BY <2>b, <2>d, <3>1, RecordKinds DEF WellLogged
    <3> HIDE DEF t
    <3>3. Marks(log, t) # {}
      BY <3>1 DEF StatusOf
    <3>4. log[last(t)].kind = "commit"
      BY <2>1, <2>2, <3>1, <3>2, <3>3
    <3>5. log[last(t)] = CommitRec(t)
      BY <2>1, <2>b, <3>2, <3>3, <3>4, RecordKinds
    <3>6. CommitRec(t) \in RecsIn(log)
      BY <2>1, <2>e, <3>2, <3>3, <3>5
    <3> QED  BY <2>c, <3>1, <3>2, <3>6 DEF t
  <2>4. CASE WritersOf(d, k) = {}
    <3>1. puts = {}
      BY <2>3, <2>4
    <3>2. d[k] = << >>
      <4>1. d[k] \in Seq(Version)
        BY <2>c
      <4> QED  BY <2>4, <4>1, NobodyWrote, WritersAreOfChains
    <3> QED  BY <3>1, <3>2 DEF RecoveredWriter, NoTxn
  <2>5. CASE WritersOf(d, k) # {}
    <3>1. PICK t \in Txns : k \in asked[t] /\ CommitRec(t) \in RecsIn(log) /\ WritersOf(d, k) = {t}
      BY <2>c, <2>f, <2>5
    <3>2. d[k] # << >> /\ d[k][Len(d[k])].by = t
      <4>1. d[k] \in Seq(Version)
        BY <2>c
      <4>2. d[k] # << >>
        BY <3>1 DEF WritersOf
      <4>3. Len(d[k]) \in DOMAIN d[k]
        BY <4>1, <4>2
      <4>4. d[k][Len(d[k])].by \in WritersOf(d, k)
        BY <4>3 DEF WritersOf
      <4> QED  BY <3>1, <4>2, <4>4
    <3>3. PICK c \in 1..Len(log) : log[c] = CommitRec(t)
      BY <3>1 DEF RecsIn
    <3>4. log[c].kind = "commit" /\ log[c].txn = t /\ c \in Marks(log, t)
      BY <2>b, <3>3, Kinds DEF Marks
    <3>5. PICK j \in 1..Len(log) : log[j].kind = "put" /\ log[j].txn = t /\ log[j].key = k
      <4>1. PICK m \in 0..(c - 2) : IsGroup(log, m, c, asked[t])
        BY <2>d, <3>4 DEF WellLogged
      <4>2. PICK j \in (m + 2)..(c - 1) : log[j].key = k
        BY <3>1, <4>1 DEF IsGroup
      <4>3. j \in 1..Len(log) /\ log[j].kind = "put" /\ log[j].txn = t
        BY <2>b, <3>4, <4>1, <4>2 DEF IsGroup
      <4> QED  BY <4>2, <4>3
    <3>6. CASE log[last(t)].kind = "commit"
      <4>1. j \in puts
        <5>1. StatusOf(log, t) = "committed"
          BY <2>2, <3>4, <3>6
        <5> QED  BY <2>b, <3>5, <5>1 DEF Puts, Redoes
      <4>2. puts \in SUBSET (1..Len(log))
        BY <2>3
      <4>3. Max(puts) \in puts
        BY <2>b, <4>1, <4>2, LastPlace
      <4>4. log[Max(puts)].txn = t
        BY <2>3, <3>1, <4>3
      <4>5. RecoveredWriter(log, k) = t
        BY <4>1, <4>4 DEF RecoveredWriter
      <4> QED  BY <3>2, <4>5
    <3>7. CASE log[last(t)].kind = "begin"
      <4>1. StatusOf(log, t) = "in flight"
        BY <2>2, <3>4, <3>7
      <4>2. t \in Undone(log)
        BY <2>b, <3>5, <4>1 DEF Undone, Puts
      <4>3. last(t) \in 1..Len(log) /\ c <= last(t) /\ log[last(t)] = BeginRec(t)
        BY <2>1, <2>b, <3>4, <3>7, RecordKinds
      <4>4. c # last(t)
        BY <3>4, <3>7
      <4>5. c \in 1..(last(t) - 1)
        BY <4>3, <4>4
      <4>6. t \in Again(log)
        BY <3>3, <4>3, <4>5 DEF Again
      <4>7. answer[t] = "failed"
        BY <2>a, <2>d, <4>6 DEF LogsAreWhole
      <4> QED  BY <3>1, <4>2, <4>7
    <3>8. log[last(t)].kind # "abort"
      <4> SUFFICES ASSUME log[last(t)].kind = "abort" PROVE FALSE
        OBVIOUS
      <4>1. log[last(t)] \in Known /\ log[last(t)].txn = t
        BY <2>1, <2>b, <2>e, <3>4
      <4>2. answer[t] = "aborted"
        BY <2>a, <4>1 DEF Accounts
      <4>3. CommitRec(t) \in Known /\ CommitRec(t).kind # "abort" /\ CommitRec(t).txn = t
        BY <2>b, <3>1, Kinds
      <4> QED  BY <2>a, <4>2, <4>3 DEF Accounts
    <3> QED  BY <2>1, <3>4, <3>6, <3>7, <3>8
  <2> QED  BY <2>4, <2>5
<1> QED  BY <1>1, RecoveryInvInit, RecoveryInvStep, PTL DEF DbSpec

----------------------------------------------------------------------------
(* The store follows the log.                                              *)

\* Who wrote the versions of a chain, in their order.
By(c) == [i \in DOMAIN c |-> c[i].by]

LEMMA ByGrows ==
  /\ By(<< >>) = << >>
  /\ \A c \in Seq(Version) : \A v \in Version :
       By(c) \in Seq(Txns) /\ By(Append(c, v)) = Append(By(c), v.by)
<1>1. By(<< >>) = << >>
  BY DEF By
<1> SUFFICES ASSUME NEW c \in Seq(Version), NEW v \in Version
             PROVE  By(c) \in Seq(Txns) /\ By(Append(c, v)) = Append(By(c), v.by)
  BY <1>1
<1> DEFINE n == Len(c)
           e == Append(c, v)
<1>2. /\ n \in Nat /\ DOMAIN c = 1..n /\ \A i \in 1..n : c[i] \in Version
      /\ DOMAIN e = 1..(n + 1) /\ e[n + 1] = v /\ \A i \in 1..n : e[i] = c[i]
  BY AppendProperties
<1> HIDE DEF e, n
<1>3. By(c) = [i \in 1..n |-> c[i].by] /\ By(e) = [i \in 1..(n + 1) |-> e[i].by]
  BY <1>2 DEF By
<1>4. \A i \in 1..n : c[i].by \in Txns
  BY <1>2 DEF Version
<1>5. By(c) \in Seq(Txns) /\ Len(By(c)) = n
  BY <1>2, <1>3, <1>4
<1>6. v.by \in Txns
  BY DEF Version
<1> DEFINE f == Append(By(c), v.by)
<1>7. /\ DOMAIN f = 1..(n + 1) /\ f[n + 1] = v.by /\ \A i \in 1..n : f[i] = c[i].by
      /\ f = [i \in 1..(n + 1) |-> f[i]]
  <2>1. f \in Seq(Txns) /\ Len(f) = n + 1
    BY <1>5, <1>6, AppendProperties
  <2>2. /\ DOMAIN f = 1..(n + 1) /\ f[n + 1] = v.by /\ \A i \in 1..n : f[i] = By(c)[i]
    BY <1>5, <1>6, AppendProperties
  <2> HIDE DEF f
  <2> QED  BY <1>3, <2>1, <2>2
<1> HIDE DEF f
<1>8. \A i \in 1..(n + 1) : e[i].by = f[i]
  <2> TAKE i \in 1..(n + 1)
  <2>1. i \in 1..n \/ i = n + 1
    BY <1>2
  <2> QED  BY <1>2, <1>7, <2>1
<1>9. By(e) = f
  BY <1>3, <1>7, <1>8
<1> QED  BY <1>5, <1>9 DEF e, f

\* Records that are not commits show nothing.
LEMMA RedoQuiet ==
  ASSUME NEW l \in Seq(Record), NEW a \in [Txns -> SUBSET Keys], WellLogged(l, a),
         NEW m \in 0..Len(l), NEW n \in m..Len(l), \A i \in (m + 1)..n : l[i].kind # "commit"
  PROVE  RedoStates(l)[n].data = RedoStates(l)[m].data
<1> DEFINE d(i) == RedoStates(l)[i].data
           N == n - m
           Good == {i \in 0..N : d(m + i) = d(m)}
<1>1. N \in Nat /\ m \in Nat /\ Len(l) \in Nat /\ m + N = n /\ m + 0 = m
  OBVIOUS
<1>2. 0 \in Good
  BY <1>1
<1>3. ASSUME NEW i \in 0..(N - 1), i \in Good PROVE i + 1 \in Good
  <2>1. m + (i + 1) \in 1..Len(l) /\ m + (i + 1) \in (m + 1)..n /\ m + (i + 1) - 1 = m + i /\ i + 1 \in 0..N
    BY <1>1
  <2>2. Publishes(RedoStates(l)[m + i], l[m + (i + 1)], RedoStates(l)[m + (i + 1)], a)
    BY <2>1, RedoPublishes
  <2>3. d(m + (i + 1)) = d(m + i)
    BY <2>1, <2>2 DEF Publishes
  <2> QED  BY <1>3, <2>1, <2>3
<1>4. \A i \in 0..N : i \in Good
  <2> HIDE DEF Good, N
  <2> QED  BY <1>1, <1>2, <1>3, InductionTo
<1>5. N \in Good
  <2> HIDE DEF Good
  <2> QED  BY <1>1, <1>4
<1> QED  BY <1>1, <1>5

\* What redo makes of a log that goes on with the group of a commit.
Joins(e, g, a, t) ==
  Redo(e \o g).data =
    [k \in Keys |->
       IF k \in a[t]
       THEN Append(Redo(e).data[k], [ts |-> RedoStates(e \o g)[Len(e \o g) - 1].ts + 1, by |-> t])
       ELSE Redo(e).data[k]]

\* What a group behind the log adds to what redo shows.
LEMMA RedoOfJoined ==
  ASSUME NEW e \in Seq(Record), NEW g \in Seq(Record), NEW a \in [Txns -> SUBSET Keys], WellLogged(e \o g, a),
         \A i \in 1..(Len(g) - 1) : g[i].kind # "commit"
  PROVE  /\ g = << >> \/ g[Len(g)].kind # "commit" => Redo(e \o g).data = Redo(e).data
         /\ \A t \in Txns : g # << >> /\ g[Len(g)] = CommitRec(t) => Joins(e, g, a, t)
<1> DEFINE l == e \o g
           m == Len(e)
           n == Len(g)
<1>1. /\ m \in Nat /\ n \in Nat /\ Len(l) = m + n /\ l \in Seq(Record)
      /\ \A i \in 1..m : l[i] = e[i]
      /\ \A i \in 1..n : l[m + i] = g[i]
  <2>1. e \in Seq(Frame) /\ g \in Seq(Frame) /\ l \in Seq(Record)
    BY RecordsAreFrames, ConcatProperties
  <2> QED  BY <2>1, Joined
<1>2. WellLogged(l, a)
  OBVIOUS
<1>3. n = 0 <=> g = << >>
  BY EmptySeq
<1> HIDE DEF l, m, n
<1>4. RedoStates(l)[m] = Redo(e)
  BY <1>1, RedoOfPrefix DEF m
<1>5. \A i \in (m + 1)..(m + n - 1) : l[i].kind # "commit"
  <2> TAKE i \in (m + 1)..(m + n - 1)
  <2>1. i - m \in 1..(n - 1) /\ i - m \in 1..n /\ i = m + (i - m)
    BY <1>1
  <2>2. l[i] = g[i - m]
    BY <1>1, <2>1
  <2> QED  BY <2>1, <2>2 DEF n
<1>6. ASSUME g = << >> \/ g[n].kind # "commit" PROVE Redo(l).data = Redo(e).data
  <2>1. \A i \in (m + 1)..(m + n) : l[i].kind # "commit"
    <3> TAKE i \in (m + 1)..(m + n)
    <3>1. n # 0 /\ (i = m + n \/ i \in (m + 1)..(m + n - 1))
      BY <1>1
    <3>2. l[m + n] = g[n]
      BY <1>1, <3>1
    <3> QED  BY <1>3, <1>5, <1>6, <3>1, <3>2
  <2>2. m \in 0..Len(l) /\ m + n \in m..Len(l)
    BY <1>1
  <2>3. RedoStates(l)[m + n].data = RedoStates(l)[m].data
    BY <1>1, <1>2, <2>1, <2>2, RedoQuiet
  <2> QED  BY <1>1, <1>4, <2>3 DEF Redo
<1>7. ASSUME NEW t \in Txns, g # << >>, g[n] = CommitRec(t)
      PROVE  Joins(e, g, a, t)
  <2>1. /\ n # 0 /\ m \in 0..Len(l) /\ m + n - 1 \in m..Len(l) /\ m + n \in 1..Len(l) /\ l[m + n] = g[n]
        /\ Len(l) - 1 = m + n - 1
    BY <1>1, <1>3, <1>7
  <2>2. RedoStates(l)[m + n - 1].data = Redo(e).data
    <3> DEFINE q == m + n - 1
    <3>1. q \in m..Len(l) /\ \A i \in (m + 1)..q : l[i].kind # "commit"
      BY <1>5, <2>1
    <3> HIDE DEF q
    <3>2. RedoStates(l)[q].data = RedoStates(l)[m].data
      BY <1>1, <1>2, <2>1, <3>1, RedoQuiet
    <3> QED  BY <1>4, <3>2 DEF q
  <2>3. Publishes(RedoStates(l)[m + n - 1], l[m + n], RedoStates(l)[m + n], a)
    BY <1>1, <1>2, <2>1, RedoPublishes
  <2>4. l[m + n].kind = "commit" /\ l[m + n].txn = t
    BY <1>7, <2>1, Kinds
  <2>5. Redo(l).data =
          [k \in Keys |->
             IF k \in a[t] THEN Append(Redo(e).data[k], [ts |-> RedoStates(l)[Len(l) - 1].ts + 1, by |-> t])
             ELSE Redo(e).data[k]]
    BY <1>1, <2>1, <2>2, <2>3, <2>4 DEF Publishes, Redo
  <2> QED  BY <2>5, Zenon DEF l, Joins
<1> QED  BY <1>6, <1>7 DEF l, n

\* The group that is pending is that of the method inside commit_group, if any.
GroupOfJob ==
  /\ job = NoJob => group = << >>
  /\ job.op = "commit" => group = RecordsOf(job.txn, writes[job.txn])
  /\ job.op = "rollback" => \E t \in Txns : group = <<AbortRec(t)>>
  /\ job.op = "close" => group = << >>

\* The versions in memory are those that redo makes of e: the file without the
\* group whose sync is due.
Matches(e) ==
  /\ file = IF job.step = "sync" THEN e \o group ELSE e
  /\ Faults = {} => synced = Len(e)
  /\ \A k \in Keys : By(data[k]) = By(Redo(e).data[k])

LiveInv ==
  /\ Faults = {} /\ phase # "open" => synced = Len(file)
  /\ phase = "open" => GroupOfJob /\ \E e \in Seq(Record) : Matches(e)

LEMMA LiveStep ==
  ASSUME Faults \subseteq {"kill"}, LogTypes, LogTypes', Accounts, LogsAreWhole, LogsAreWhole',
         ShownIsLogged, LiveInv, [DbNext]_dbVars
  PROVE  LiveInv'
<1> USE DEF logged, shown, told, counted
<1>a. /\ asked \in [Txns -> SUBSET Keys] /\ writes \in [Txns -> SUBSET Keys] /\ asked' \in [Txns -> SUBSET Keys]
      /\ job \in Jobs /\ data \in [Keys -> Seq(Version)] /\ watermark \in Nat
      /\ file \in Seq(Frame) /\ synced \in 0..Len(file) /\ group \in Seq(Record)
  BY DEF LogTypes, WalTypes, ShownIsLogged
<1>b. NoJob.op = "none" /\ NoJob.step = "none"
      /\ (job # NoJob => phase = "open" /\ job.op \in {"commit", "rollback", "close"} /\ job.step \in {"write", "sync"})
  BY <1>a DEF NoJob, Jobs, Accounts
<1>c. ~ Fails /\ (Ends => job.step = "sync" /\ SyncGroup)
  BY DEF Fails, Ends, WriteGroupFails, SyncGroupFails
<1>1. ASSUME UNCHANGED <<file, synced, group, data, phase, job>>, job = NoJob PROVE LiveInv'
  BY <1>1, <1>b DEF LiveInv, GroupOfJob, Matches
<1>2. CASE Begins \/ \E t \in Txns : Inserts(t)
  BY <1>1, <1>2 DEF Begins, Inserts
<1>3. CASE \E t \in Txns : Reads(t)
  <2>1. data' = [k \in Keys |-> data[k]] /\ UNCHANGED <<logged, phase, job>> /\ job = NoJob
    BY <1>3 DEF Reads
  <2>2. data' = data
    BY <1>a, <2>1
  <2> QED  BY <1>1, <2>1, <2>2
<1>4. CASE Rests
  <2>1. UNCHANGED <<file, synced, group, data, writes, job>> /\ (phase' = phase \/ (phase = "down" /\ phase' = "corrupt"))
    BY <1>4 DEF Rests
  <2> QED  BY <2>1 DEF LiveInv, GroupOfJob, Matches
<1>5. ASSUME job = NoJob, phase = "open", UNCHANGED <<file, synced, data, phase>>, job'.step = "write",
             job' # NoJob, GroupOfJob'
      PROVE  LiveInv'
  <2>1. PICK e \in Seq(Record) : Matches(e)
    BY <1>5 DEF LiveInv
  <2>2. Matches(e)'
    BY <1>5, <1>b, <2>1 DEF Matches
  <2> QED  BY <1>5, <2>2 DEF LiveInv
<1>6. ASSUME NEW t \in Txns, Logs(t) PROVE LiveInv'
  <2>1. /\ job = NoJob /\ phase = "open" /\ UNCHANGED <<file, synced, data, phase, writes>>
        /\ group' = group \o CommitRecords(t) /\ job' = [op |-> "commit", txn |-> t, step |-> "write"]
    BY <1>6 DEF Logs
  <2>2. group' = RecordsOf(t, writes[t])
    <3> DEFINE W == writes[t]
    <3>0. W \in SUBSET Keys
      BY <1>a
    <3>1. CommitRecords(t) = RecordsOf(t, W)
      BY <3>0, GroupOfCommit
    <3> HIDE DEF W
    <3>2. RecordsOf(t, W) \in Seq(Record)
      BY <3>0, GroupFrames
    <3>3. group = << >>
      BY <2>1 DEF LiveInv, GroupOfJob
    <3>4. << >> \o RecordsOf(t, W) = RecordsOf(t, W)
      BY <3>2, ConcatEmptySeq
    <3> QED  BY <2>1, <3>1, <3>3, <3>4 DEF W
  <2>3. job'.op = "commit" /\ job'.txn = t /\ job'.step = "write" /\ job' # NoJob
    BY <2>1 DEF NoJob
  <2>4. GroupOfJob'
    BY <2>1, <2>2, <2>3 DEF GroupOfJob
  <2> QED  BY <1>5, <2>1, <2>3, <2>4
<1>7. ASSUME NEW t \in Txns, Undoes(t) PROVE LiveInv'
  <2>1. /\ job = NoJob /\ phase = "open" /\ UNCHANGED <<file, synced, data, phase>>
        /\ group' = group \o <<AbortRec(t)>> /\ job' = [op |-> "rollback", txn |-> t, step |-> "write"]
    BY <1>7 DEF Undoes
  <2>2. group' = <<AbortRec(t)>>
    <3>1. group = << >>
      BY <2>1 DEF LiveInv, GroupOfJob
    <3> QED  BY <2>1, <3>1
  <2>3. job'.op = "rollback" /\ job'.step = "write" /\ job' # NoJob
    BY <2>1 DEF NoJob
  <2>4. GroupOfJob'
    BY <2>1, <2>2, <2>3 DEF GroupOfJob
  <2> QED  BY <1>5, <2>1, <2>3, <2>4
<1>8. CASE Closes
  <2>1. /\ job = NoJob /\ phase = "open" /\ UNCHANGED <<file, synced, data, phase, group>>
        /\ job' = [op |-> "close", txn |-> NoTxn, step |-> "write"]
    BY <1>8 DEF Closes
  <2>2. job'.op = "close" /\ job'.step = "write" /\ job' # NoJob
    BY <2>1 DEF NoJob
  <2>3. GroupOfJob'
    BY <2>1, <2>2 DEF GroupOfJob, LiveInv
  <2> QED  BY <1>5, <2>1, <2>2, <2>3
<1>9. CASE Emits
  <2>1. /\ job.step = "write" /\ job # NoJob /\ phase = "open" /\ file' = file \o group
        /\ UNCHANGED <<synced, group, data, writes, phase>> /\ job' = [job EXCEPT !.step = "sync"]
    BY <1>9, <1>b DEF Emits, WriteGroup
  <2>2. job'.op = job.op /\ job'.txn = job.txn /\ job'.step = "sync" /\ job' # NoJob
    BY <1>a, <1>b, <2>1 DEF Jobs, NoJob
  <2>3. PICK e \in Seq(Record) : Matches(e)
    BY <2>1 DEF LiveInv
  <2>4. Matches(e)' /\ GroupOfJob'
    BY <2>1, <2>2, <2>3 DEF Matches, GroupOfJob, LiveInv
  <2> QED  BY <2>1, <2>3, <2>4 DEF LiveInv
<1>10. ASSUME SyncGroup, job.step = "sync", job' = NoJob, UNCHANGED phase, NEW e \in Seq(Record), Matches(e),
              NEW l \in Seq(Record), l = e \o group, \A k \in Keys : By(data'[k]) = By(Redo(l).data[k])
       PROVE  LiveInv'
  <2>1. file' = l /\ synced' = Len(l) /\ group' = << >>
    BY <1>10 DEF SyncGroup, Matches
  <2>2. Matches(l)'
    BY <1>10, <1>b, <2>1 DEF Matches
  <2>3. GroupOfJob'
    BY <1>10, <1>b, <2>1 DEF GroupOfJob
  <2> QED  BY <1>10, <1>b, <2>2, <2>3 DEF LiveInv
<1>11. CASE Publish
  <2> DEFINE t == job.txn
             W == writes[t]
             v == [ts |-> watermark + 1, by |-> t]
  <2>1. /\ job.op = "commit" /\ job.step = "sync" /\ SyncGroup /\ phase = "open" /\ job' = NoJob /\ UNCHANGED phase
        /\ data' = [k \in Keys |-> IF k \in W THEN Append(data[k], v) ELSE data[k]]
        /\ t \in Txns /\ asked[t] = W /\ W \in SUBSET Keys /\ group = RecordsOf(t, W)
    BY <1>11, <1>a, <1>b DEF Publish, Accounts, CommitAtWork, LiveInv, GroupOfJob, NoJob
  <2>2. PICK e \in Seq(Record) : Matches(e)
    BY <2>1 DEF LiveInv
  <2>0. PICK l \in Seq(Record) : l = e \o group
    BY <1>a, ConcatProperties
  <2>3. file = l /\ \A k \in Keys : By(data[k]) = By(Redo(e).data[k])
    BY <2>0, <2>1, <2>2 DEF Matches
  <2> HIDE DEF t, W
  <2>4. /\ group # << >> /\ group[Len(group)] = CommitRec(t)
        /\ \A i \in 1..(Len(group) - 1) : group[i].kind # "commit"
    BY <2>1, GroupIsWhole
  <2>5. WellLogged(e \o group, asked)
    BY <2>0, <2>3 DEF LogsAreWhole
  <2> DEFINE w == [ts |-> RedoStates(l)[Len(l) - 1].ts + 1, by |-> t]
  <2>6. Redo(l).data =
          [k \in Keys |-> IF k \in W THEN Append(Redo(e).data[k], w) ELSE Redo(e).data[k]]
    <3>1. Redo(e \o group).data =
            [k \in Keys |->
               IF k \in asked[t]
               THEN Append(Redo(e).data[k], [ts |-> RedoStates(e \o group)[Len(e \o group) - 1].ts + 1, by |-> t])
               ELSE Redo(e).data[k]]
      <4>1. group \in Seq(Record) /\ asked \in [Txns -> SUBSET Keys] /\ t \in Txns
        BY <1>a, <2>1
      <4> HIDE <1>a, <2>1
      <4>2. group # << >> /\ group[Len(group)] = CommitRec(t)
        BY <2>4
      <4>3. Joins(e, group, asked, t)
        BY <2>4, <2>5, <4>1, <4>2, RedoOfJoined
      <4> QED  BY <4>3 DEF Joins
    <3> QED  BY <2>0, <2>1, <3>1
  <2>7. v \in Version /\ v.by = t
    BY <1>a, <2>1 DEF Version
  <2>8. w \in Version /\ w.by = t
    <3>1. Len(group) # 0
      BY <1>a, <2>4, EmptySeq
    <3>2. Len(l) = Len(e) + Len(group) /\ Len(e) \in Nat /\ Len(group) \in Nat
      BY <1>a, <2>0, ConcatProperties
    <3>3. Len(l) - 1 \in 0..Len(l)
      BY <3>1, <3>2
    <3>4. RedoStates(l)[Len(l) - 1].ts \in Nat
      BY <3>3, RedoSteps DEF RedoState
    <3> QED  BY <2>1, <3>4 DEF Version
  <2>9. Redo(e).data \in [Keys -> Seq(Version)]
    <3>1. Len(e) \in 0..Len(e)
      OBVIOUS
    <3> QED  BY <3>1, RedoSteps DEF Redo, RedoState
  <2> HIDE DEF v, w
  <2>10. ASSUME NEW k \in Keys PROVE By(data'[k]) = By(Redo(l).data[k])
    <3>1. CASE k \in W
      <4>1. By(data'[k]) = Append(By(data[k]), t)
        BY <1>a, <2>1, <2>7, <3>1, ByGrows
      <4>2. By(Redo(l).data[k]) = Append(By(Redo(e).data[k]), t)
        BY <2>6, <2>8, <2>9, <3>1, ByGrows
      <4> QED  BY <2>3, <4>1, <4>2
    <3>2. CASE k \notin W
      BY <2>1, <2>3, <2>6, <3>2
    <3> QED  BY <3>1, <3>2
  <2> QED  BY <1>10, <2>0, <2>1, <2>2, <2>10
<1>12. CASE AbortEnds
  <2>1. /\ job.op = "rollback" /\ job.step = "sync" /\ SyncGroup /\ phase = "open" /\ job' = NoJob
        /\ UNCHANGED <<phase, data>>
    BY <1>12, <1>b, <1>c DEF AbortEnds
  <2>2. PICK e \in Seq(Record) : Matches(e)
    BY <2>1 DEF LiveInv
  <2>0. PICK l \in Seq(Record) : l = e \o group
    BY <1>a, ConcatProperties
  <2>3. file = l /\ \A k \in Keys : By(data[k]) = By(Redo(e).data[k])
    BY <2>0, <2>1, <2>2 DEF Matches
  <2>4. PICK t \in Txns : group = <<AbortRec(t)>>
    BY <2>1 DEF LiveInv, GroupOfJob
  <2>5. Len(group) = 1 /\ group[Len(group)].kind # "commit" /\ \A i \in 1..(Len(group) - 1) : FALSE
    BY <2>4, Kinds
  <2>6. WellLogged(e \o group, asked)
    BY <2>0, <2>3 DEF LogsAreWhole
  <2>7. Redo(l).data = Redo(e).data
    BY <1>a, <2>0, <2>5, <2>6, RedoOfJoined
  <2> QED  BY <1>10, <2>0, <2>1, <2>2, <2>3, <2>7
<1>13. ~ Refused
  BY <1>c DEF Refused
<1>14. CASE Stops
  <2>1. phase' = "down"
    BY <1>14 DEF Stops, Gone
  <2>2. ASSUME Faults = {} PROVE synced' = Len(file')
    <3>1. CASE job = NoJob /\ phase = "open" /\ UNCHANGED logged
      BY <1>b, <2>2, <3>1 DEF LiveInv, Matches
    <3>2. CASE SyncGroup
      BY <3>2 DEF SyncGroup
    <3> QED  BY <1>14, <1>c, <3>1, <3>2 DEF Stops
  <2> QED  BY <2>1, <2>2 DEF LiveInv
<1>15. CASE Crashes
  <2>1. phase' = "down"
    BY <1>15 DEF Crashes, Gone
  <2>2. ASSUME Faults = {} PROVE synced' = Len(file')
    <3>1. PICK n \in synced..Len(file) :
            \E rest \in {<< >>} \cup (IF n < Len(file) THEN {<<Torn>>} ELSE {}) :
              file' = SubSeq(file, 1, n) \o rest /\ synced' = n + Len(rest)
      BY <1>15, <2>2 DEF Crashes, LoseTail
    <3>2. PICK rest \in {<< >>, <<Torn>>} : file' = SubSeq(file, 1, n) \o rest /\ synced' = n + Len(rest)
      BY <3>1
    <3>3. n \in 0..Len(file)
      BY <1>a
    <3> QED  BY <1>a, <3>2, <3>3, CutFrames
  <2> QED  BY <2>1, <2>2 DEF LiveInv
<1>16. CASE Reopens
  <2>1. PICK l \in Seq(Record) : l = CleanPrefix(file)
    BY <1>a, CleanIsCut
  <2>2. /\ phase # "open" /\ phase' = "open" /\ job' = job /\ file' = l /\ group' = << >> /\ data' = Redo(l).data
        /\ synced' = IF l = file THEN synced ELSE Len(l)
    BY <1>16, <2>1 DEF Reopens, Reopen
  <2>3. job' = NoJob /\ (Faults = {} => synced' = Len(l))
    BY <1>b, <2>2 DEF LiveInv
  <2>4. Matches(l)' /\ GroupOfJob'
    BY <1>b, <2>2, <2>3 DEF Matches, GroupOfJob
  <2> QED  BY <2>2, <2>4 DEF LiveInv
<1> QED  BY <1>2, <1>3, <1>4, <1>6, <1>7, <1>8, <1>9, <1>11, <1>12, <1>13, <1>14, <1>15, <1>16, FlatSteps

LEMMA LiveInit == DbInit => LiveInv
<1> SUFFICES ASSUME DbInit PROVE LiveInv
  OBVIOUS
<1>1. /\ file = << >> /\ group = << >> /\ synced = 0 /\ phase = "open" /\ job = NoJob
      /\ data = [k \in Keys |-> << >>]
  BY DEF DbInit, Init, WalInit
<1> DEFINE e == << >>
<1>2. e \in Seq(Record) /\ Len(e) = 0
  OBVIOUS
<1>3. Redo(e).data = [k \in Keys |-> << >>]
  <2>1. RedoStates(e)[0] = EmptyRedo
    BY <1>2, RedoSteps
  <2> QED  BY <1>2, <2>1 DEF Redo, EmptyRedo
<1>4. e = file
  BY <1>1
<1> HIDE DEF e
<1>5. Matches(e)
  BY <1>1, <1>2, <1>3, <1>4 DEF Matches, NoJob
<1>6. GroupOfJob
  BY <1>1 DEF GroupOfJob, NoJob
<1> QED  BY <1>1, <1>2, <1>5, <1>6 DEF LiveInv

LEMMA LiveInvStep ==
  ASSUME Faults \subseteq {"kill"}, RecoveryInv, LiveInv, [DbNext]_dbVars PROVE LiveInv'
<1>1. LogTypes /\ Accounts /\ LogsAreWhole /\ ShownIsLogged
  BY DEF RecoveryInv
<1>2. LogTypes' /\ LogsAreWhole'
  BY RecoveryInvStep DEF RecoveryInv
<1> QED  BY <1>1, <1>2, LiveStep

LEMMA CleanWhole ==
  ASSUME NEW l \in Seq(Record) PROVE CleanPrefix(l) = l
<1>1. \A i \in DOMAIN l : l[i] \in Record
  OBVIOUS
<1>2. TornPlaces(l) = {}
  BY <1>1, TornIsNoRecord DEF TornPlaces
<1> QED  BY <1>2 DEF CleanPrefix

\* As long as writes and syncs succeed, the versions in memory are at every rest
\* those that redo makes of the log, row by row and in the same order: through
\* commits, rollbacks, crashes in the middle of a group and restarts, and also
\* when a killed process leaves bytes that no sync has covered (mvcc.rs:227-230).
THEOREM StoreFollowsLog ==
  ASSUME Faults \subseteq {"kill"} PROVE DbSpec => []LiveIsLog
<1>1. RecoveryInv /\ LiveInv => LiveIsLog
  <2> SUFFICES ASSUME RecoveryInv, LiveInv, Running, NEW k \in Keys
               PROVE  By(data[k]) = By(Redo(CleanPrefix(file)).data[k])
    BY DEF LiveIsLog, By
  <2>1. PICK e \in Seq(Record) : Matches(e)
    BY DEF LiveInv, Running
  <2>2. file = e
    BY <2>1 DEF Matches, Running, NoJob
  <2> QED  BY <2>1, <2>2, CleanWhole DEF Matches
<1>2. RecoveryInv /\ LiveInv /\ [DbNext]_dbVars => (RecoveryInv /\ LiveInv)'
  BY LiveInvStep, RecoveryInvStep
<1> QED  BY <1>1, <1>2, RecoveryInvInit, LiveInit, PTL DEF DbSpec

----------------------------------------------------------------------------
(* The durable table.                                                      *)

\* A transaction in flight shows nothing yet.
NotYetShown == \A t \in pending : \A k \in Keys : t \notin WritersOf(data, k)

LEMMA NotYetShownStep ==
  ASSUME RecoveryInv, NotYetShown, [DbNext]_dbVars PROVE NotYetShown'
<1> USE DEF logged, shown, told, counted
<1>a. LogTypes /\ Accounts /\ ShownIsLogged /\ data \in [Keys -> Seq(Version)] /\ watermark \in Nat
  BY DEF RecoveryInv, ShownIsLogged
<1>b. \A k \in Keys : \A t \in WritersOf(data, k) : CommitRec(t) \in Known /\ CommitRec(t).txn = t
  BY <1>a, Kinds DEF ShownIsLogged, Known
<1>1. ASSUME pending' \subseteq pending, data' = data PROVE NotYetShown'
  BY <1>1 DEF NotYetShown
<1>2. CASE Begins
  <2>1. nextTxn \in Nat /\ pending' = pending \cup {nextTxn} /\ data' = data /\ \A r \in Known : r.txn < nextTxn
    BY <1>2, <1>a DEF Begins, Accounts
  <2>2. \A k \in Keys : nextTxn \notin WritersOf(data, k)
    BY <1>b, <2>1
  <2> QED  BY <2>1, <2>2 DEF NotYetShown
<1>3. CASE \E t \in Txns : Reads(t)
  <2>1. data' = [k \in Keys |-> data[k]] /\ pending' \subseteq pending
    BY <1>3 DEF Reads
  <2> QED  BY <1>1, <1>a, <2>1
<1>4. CASE Closes \/ Emits \/ AbortEnds \/ Refused \/ Rests \/ \E t \in Txns : Inserts(t) \/ Logs(t) \/ Undoes(t)
  <2>1. pending' \subseteq pending /\ data' = data
    BY <1>4 DEF Closes, Emits, AbortEnds, Refused, Rests, Inserts, Logs, Undoes
  <2> QED  BY <1>1, <2>1
<1>5. CASE Publish
  <2> DEFINE t == job.txn
             v == [ts |-> watermark + 1, by |-> t]
  <2>1. /\ t \in Txns /\ pending' = pending \ {t}
        /\ data' = [k \in Keys |-> IF k \in writes[t] THEN Append(data[k], v) ELSE data[k]]
    BY <1>5, <1>a DEF Publish, Accounts
  <2>2. v \in Version /\ v.by = t
    BY <1>a, <2>1 DEF Version
  <2> HIDE DEF t, v
  <2>3. ASSUME NEW k \in Keys PROVE WritersOf(data', k) \subseteq WritersOf(data, k) \cup {t}
    <3>1. CASE k \in writes[t]
      <4>1. data'[k] = Append(data[k], v) /\ data[k] \in Seq(Version)
        BY <1>a, <2>1, <3>1
      <4>2. WritersOf(data', k) = WritersOf(data, k) \cup {t}
        BY <2>2, <4>1, WritersGrow, WritersAreOfChains
      <4> QED  BY <4>2
    <3>2. CASE k \notin writes[t]
      BY <2>1, <3>2 DEF WritersOf
    <3> QED  BY <3>1, <3>2
  <2> QED  BY <2>1, <2>3 DEF NotYetShown
<1>6. CASE Stops \/ Crashes \/ Reopens
  BY <1>6 DEF Stops, Crashes, Reopens, Gone, NotYetShown
<1> QED  BY <1>2, <1>3, <1>4, <1>5, <1>6, FlatSteps

\* The pairs of a row and its writer in a table of version chains.
Pairs(d) == UNION {{k} \X WritersOf(d, k) : k \in Keys}

LEMMA PairsAre ==
  ASSUME NEW d, NEW e
  PROVE  /\ \A r : r \in Pairs(d) <=> \E k \in Keys : \E t \in WritersOf(d, k) : r = <<k, t>>
         /\ (\A k \in Keys : WritersOf(e, k) = WritersOf(d, k)) => Pairs(e) = Pairs(d)
         /\ \A W \in SUBSET Keys : \A t :
              (\A k \in Keys : WritersOf(e, k) = WritersOf(d, k) \cup (IF k \in W THEN {t} ELSE {})) =>
                Pairs(e) = Pairs(d) \cup (W \X {t})
<1>1. ASSUME NEW f PROVE \A r : r \in Pairs(f) <=> \E k \in Keys : \E t \in WritersOf(f, k) : r = <<k, t>>
  BY DEF Pairs
<1>2. ASSUME \A k \in Keys : WritersOf(e, k) = WritersOf(d, k) PROVE Pairs(e) = Pairs(d)
  BY <1>2 DEF Pairs
<1>3. ASSUME NEW W \in SUBSET Keys, NEW t,
             \A k \in Keys : WritersOf(e, k) = WritersOf(d, k) \cup (IF k \in W THEN {t} ELSE {})
      PROVE  Pairs(e) = Pairs(d) \cup (W \X {t})
  <2>1. \A r : r \in Pairs(e) => r \in Pairs(d) \cup (W \X {t})
    <3> TAKE r
    <3> SUFFICES ASSUME r \in Pairs(e) PROVE r \in Pairs(d) \cup (W \X {t})
      OBVIOUS
    <3>1. PICK k \in Keys : \E u \in WritersOf(e, k) : r = <<k, u>>
      BY <1>1
    <3>2. \A u \in WritersOf(e, k) : u \in WritersOf(d, k) \/ (k \in W /\ u = t)
      BY <1>3
    <3> QED  BY <1>1, <3>1, <3>2
  <2>2. \A r : r \in Pairs(d) \cup (W \X {t}) => r \in Pairs(e)
    <3>1. ASSUME NEW r \in Pairs(d) PROVE r \in Pairs(e)
      <4>1. PICK k \in Keys : \E u \in WritersOf(d, k) : r = <<k, u>>
        BY <1>1, <3>1
      <4>2. WritersOf(d, k) \subseteq WritersOf(e, k)
        BY <1>3
      <4> QED  BY <1>1, <4>1, <4>2
    <3>2. ASSUME NEW k \in W PROVE <<k, t>> \in Pairs(e)
      <4>1. k \in Keys /\ t \in WritersOf(e, k)
        BY <1>3
      <4> QED  BY <1>1, <4>1
    <3> QED  BY <3>1, <3>2
  <2> QED  BY <2>1, <2>2
<1> QED  BY <1>1, <1>2, <1>3

LEMMA WritersBy ==
  ASSUME NEW c, NEW d, By(c) = By(d) PROVE Writers(c) = Writers(d)
<1>1. \A x : Writers(x) = {By(x)[i] : i \in DOMAIN By(x)}
  BY DEF Writers, By
<1> QED  BY <1>1

RefinementInv == RecoveryInv /\ LiveInv /\ NotYetShown

\* What an open database shows, as the log without the group at work tells it.
LEMMA OpenShows ==
  ASSUME RefinementInv, phase = "open", NEW e \in Seq(Record), Matches(e)
  PROVE  \A k \in Keys : WritersOf(data, k) = {t \in Txns : k \in asked[t] /\ CommitRec(t) \in RecsIn(e)}
<1>1. /\ asked \in [Txns -> SUBSET Keys] /\ WellLogged(file, asked) /\ group \in Seq(Frame)
      /\ e \in Seq(Frame) /\ Len(e) \in Nat /\ file \in Seq(Frame)
  BY RecordsAreFrames DEF RefinementInv, RecoveryInv, LogTypes, WalTypes, LogsAreWhole
<1>2. CutOf(e, file)
  <2>1. \A i \in 1..Len(e) : i <= Len(file) /\ file[i] = e[i]
    <3>1. CASE file = e
      BY <1>1, <3>1
    <3>2. CASE file = e \o group
      <4>1. Len(file) = Len(e) + Len(group) /\ Len(group) \in Nat /\ \A i \in 1..Len(e) : file[i] = e[i]
        BY <1>1, <3>2, Joined
      <4> QED  BY <1>1, <4>1
    <3> QED  BY <3>1, <3>2 DEF Matches
  <2>2. \A i \in 1..Len(e) : \A j \in 1..i : j \in 1..Len(e)
    BY <1>1
  <2> QED  BY <2>1, <2>2 DEF CutOf
<1>3. WellLogged(e, asked)
  BY <1>1, <1>2, WholeWhenCut
<1>4. \A k \in Keys : WritersOf(Redo(e).data, k) = {t \in Txns : k \in asked[t] /\ CommitRec(t) \in RecsIn(e)}
  BY <1>1, <1>3, RedoShowsLog, CleanWhole
<1>5. \A k \in Keys : WritersOf(data, k) = WritersOf(Redo(e).data, k)
  BY WritersBy, WritersAreOfChains DEF Matches
<1> QED  BY <1>4, <1>5

\* The rows of a commit at work are nobody's.
LEMMA AskedRowsAreFree ==
  ASSUME RefinementInv, job.op = "commit"
  PROVE  /\ job.txn \in Txns /\ answer[job.txn] = "none" /\ phase = "open"
         /\ asked[job.txn] = writes[job.txn] /\ asked[job.txn] \in SUBSET Keys
         /\ \A k \in asked[job.txn] : WritersOf(data, k) = {}
<1> DEFINE t == job.txn
<1>1. /\ job \in Jobs /\ asked \in [Txns -> SUBSET Keys] /\ Accounts
      /\ \A k \in Keys : \A i \in DOMAIN data[k] : data[k][i] \in Version
  BY DEF RefinementInv, RecoveryInv, LogTypes, ShownIsLogged
<1>2. t \in Txns /\ job # NoJob /\ job.step \in {"write", "sync"}
  BY <1>1 DEF Jobs, NoJob
<1>3. t \in pending /\ asked[t] = writes[t] /\ CommitRec(t) \in Known /\ answer[t] = "none" /\ phase = "open"
  BY <1>1, <1>2 DEF Accounts, CommitAtWork, Known
<1> HIDE DEF t
<1>4. ASSUME NEW k \in asked[t], NEW u \in WritersOf(data, k) PROVE FALSE
  <2>1. k \in Keys
    BY <1>1, <1>2, <1>4
  <2>2. u \in Txns
    BY <1>1, <1>4, <2>1 DEF WritersOf, Version
  <2>3. k \in asked[u] /\ u \in Committing
    BY <1>4, <2>1, <2>2 DEF RefinementInv, RecoveryInv, ShownIsLogged, Committing, Known
  <2>4. u # t
    BY <1>3, <1>4, <2>1 DEF RefinementInv, NotYetShown
  <2>5. t \in Committing
    BY <1>2, <1>3 DEF Committing
  <2> QED  BY <1>4, <2>3, <2>4, <2>5 DEF RefinementInv, RecoveryInv, RowsAreFresh
<1> QED  BY <1>1, <1>2, <1>3, <1>4 DEF t

\* The rows of the table that are written, as DurableTable sees them.
LEMMA WrittenRows ==
  ASSUME NEW W \in SUBSET Keys, phase = "open", \A k \in W : WritersOf(data, k) = {}
  PROVE  W \in SUBSET (Keys \ Durable!Written)
<1>1. CommittedRows = Pairs(data)
  BY DEF CommittedRows, Pairs
<1>2. ASSUME NEW r \in CommittedRows, r[1] \in W PROVE FALSE
  <2>1. PICK k \in Keys : \E t \in WritersOf(data, k) : r = <<k, t>>
    BY <1>1, <1>2, PairsAre
  <2>2. r[1] = k
    BY <2>1
  <2> QED  BY <1>2, <2>1, <2>2
<1> QED  BY <1>2 DEF Durable!Written

\* Only a commit puts commit records into the group.
LEMMA NoCommitInGroup ==
  ASSUME RefinementInv, phase = "open", job.op # "commit"
  PROVE  \A t \in Txns : CommitRec(t) \notin RecsIn(group)
<1>1. job \in Jobs /\ GroupOfJob
  BY DEF RefinementInv, RecoveryInv, LogTypes, LiveInv
<1>2. job = NoJob \/ job.op \in {"rollback", "close"}
  BY <1>1 DEF Jobs
<1>3. CASE group = << >>
  BY <1>3 DEF RecsIn
<1>4. ASSUME NEW u \in Txns, group = <<AbortRec(u)>> PROVE \A t \in Txns : CommitRec(t) \notin RecsIn(group)
  <2>1. Len(group) = 1 /\ group[1] = AbortRec(u)
    BY <1>4
  <2>2. RecsIn(group) \subseteq {AbortRec(u)}
    BY <2>1 DEF RecsIn
  <2> QED  BY <2>2, Kinds
<1> QED  BY <1>1, <1>2, <1>3, <1>4 DEF GroupOfJob

\* A crash keeps the log that the store had followed, and of the rest only
\* frames of the group at work.
LEMMA CrashKeeps ==
  ASSUME Faults = {}, WalTypes, WalTypes', group \in Seq(Frame), NEW e \in Seq(Record), Matches(e), LoseTail
  PROVE  /\ RecsIn(e) \subseteq RecsIn(CleanPrefix(file'))
         /\ RecsIn(CleanPrefix(file')) \subseteq RecsIn(e) \cup RecsIn(group)
<1> DEFINE l == CleanPrefix(file')
<1>1. /\ e \in Seq(Frame) /\ Len(e) \in Nat /\ synced = Len(e) /\ \A i \in 1..Len(e) : e[i] # Torn
      /\ file' \in Seq(Frame) /\ Len(file') \in Nat
  <2>1. \A i \in 1..Len(e) : e[i] \in Record
    OBVIOUS
  <2> QED  BY <2>1, RecordsAreFrames, TornIsNoRecord DEF Matches, WalTypes
<1>2. /\ Len(l) \in Nat /\ CutOf(l, file')
      /\ \A i \in 1..Len(file') : (\A j \in 1..i : file'[j] # Torn) => i \in 1..Len(l)
      /\ \A i \in 1..Len(l) : l[i] = file'[i]
  <2>1. Len(l) \in 0..Len(file')
    BY <1>1, CleanIsCut
  <2> QED  BY <1>1, <2>1, CleanIsCut
<1> HIDE DEF l
<1>3. RecsIn(file) \subseteq RecsIn(e) \cup RecsIn(group)
  <2>1. CASE file = e \o group
    BY <1>1, <2>1, RecsOfJoined
  <2> QED  BY <2>1 DEF Matches
<1>4. RecsIn(l) \subseteq RecsIn(file)
  <2>1. CutOf(file', file)
    BY FileIsCut
  <2>2. RecsIn(file') \subseteq RecsIn(file)
    BY <1>1, <2>1, RecsOfCut
  <2>3. RecsIn(l) \subseteq RecsIn(file')
    BY <1>2, RecsOfCut
  <2> QED  BY <2>2, <2>3
<1>5. \A i \in 1..Len(e) : i \in 1..Len(file') /\ file'[i] = e[i]
  <2>1. synced <= synced' /\ (\A i \in 1..synced : file'[i] = file[i]) /\ synced' \in 0..Len(file')
    BY WalLoses DEF WalTypes
  <2>2. \A i \in 1..Len(e) : file[i] = e[i]
    BY <1>1, Joined DEF Matches
  <2> QED  BY <1>1, <2>1, <2>2
<1>6. ASSUME NEW i \in 1..Len(e) PROVE i \in 1..Len(l) /\ l[i] = e[i]
  <2>1. \A j \in 1..i : j \in 1..Len(e)
    BY <1>1
  <2>2. \A j \in 1..i : file'[j] # Torn
    BY <1>1, <1>5, <2>1
  <2> QED  BY <1>2, <1>5, <2>2
<1>7. RecsIn(e) \subseteq RecsIn(l)
  BY <1>6 DEF RecsIn
<1> QED  BY <1>3, <1>4, <1>7 DEF l

LEMMA DurableStep ==
  ASSUME Faults = {}, RefinementInv, RefinementInv', [DbNext]_dbVars
  PROVE  Durable!Next \/ UNCHANGED Durable!vars
<1> USE DEF logged, shown, told, counted
<1> DEFINE now == IF phase = "open" THEN data ELSE Redo(CleanPrefix(file)).data
           then == IF phase' = "open" THEN data' ELSE Redo(CleanPrefix(file')).data
<1>a. /\ asked \in [Txns -> SUBSET Keys] /\ data \in [Keys -> Seq(Version)] /\ job \in Jobs /\ WalTypes /\ WalTypes'
      /\ answer \in [Txns -> {"none", "ok", "failed", "aborted", "unknown"}]
      /\ Accounts /\ RecsIn(file) \subseteq Known /\ LogTypes /\ watermark \in Nat
      /\ file \in Seq(Frame) /\ group \in Seq(Frame) /\ group \in Seq(Record)
  BY RecordsAreFrames DEF RefinementInv, RecoveryInv, LogTypes, WalTypes, ShownIsLogged, Known
<1>b. NoJob.op = "none" /\ NoJob.step = "none" /\ (job # NoJob => phase = "open")
  BY <1>a DEF NoJob, Accounts
<1>c. ~ Fails /\ (Ends => job.step = "sync" /\ SyncGroup)
  BY DEF Fails, Ends, WriteGroupFails, SyncGroupFails
<1>d. CommittedRows = Pairs(now) /\ CommittedRows' = Pairs(then)
  BY DEF CommittedRows, Pairs
<1>e. /\ asked' \in [Txns -> SUBSET Keys] /\ file' \in Seq(Frame) /\ WellLogged(file', asked')
  BY DEF RefinementInv, RecoveryInv, LogTypes, WalTypes, LogsAreWhole
<1> HIDE DEF now, then
<1>1. ASSUME UNCHANGED answer, \A k \in Keys : WritersOf(then, k) = WritersOf(now, k)
      PROVE  UNCHANGED Durable!vars
  <2>1. Pairs(then) = Pairs(now)
    BY <1>1, PairsAre
  <2> QED  BY <1>1, <1>d, <2>1 DEF Durable!vars
<1>2. ASSUME phase = "open", phase' = "open", data' = data PROVE then = now /\ CommittedRows' = CommittedRows
  BY <1>2, <1>d DEF now, then
<1>3. CASE Begins
  <2>1. nextTxn \in Txns /\ data' = data /\ phase = "open" /\ phase' = "open" /\ answer' = [answer EXCEPT ![nextTxn] = "none"]
        /\ \A r \in Known : r.txn < nextTxn
    BY <1>3, <1>a, MaxTxnsAssumption DEF Begins, Accounts, Txns
  <2>2. ASSUME NEW r \in CommittedRows PROVE r[2] # nextTxn
    <3>1. CommittedRows = Pairs(data)
      BY <1>d, <2>1 DEF now
    <3>2. PICK k \in Keys : \E t \in WritersOf(data, k) : r = <<k, t>>
      BY <2>2, <3>1, PairsAre
    <3>3. PICK t \in WritersOf(data, k) : r = <<k, t>>
      BY <3>2
    <3>4. CommitRec(t) \in Known /\ CommitRec(t).txn = t
      BY Kinds DEF RefinementInv, RecoveryInv, ShownIsLogged, Known
    <3>5. t < nextTxn /\ r[2] = t /\ nextTxn \in Nat
      BY <2>1, <3>3, <3>4, TxnsAreNumbers
    <3> QED  BY <3>5
  <2>3. Durable!Begin(nextTxn)
    BY <1>2, <2>1, <2>2 DEF Durable!Begin
  <2> QED  BY <2>1, <2>3 DEF Durable!Next
<1>4. CASE Closes \/ Emits \/ AbortEnds \/ \E t \in Txns : Inserts(t) \/ Logs(t)
  <2>1. UNCHANGED <<data, phase, answer>> /\ phase = "open"
    BY <1>4, <1>b DEF Closes, Emits, AbortEnds, Inserts, Logs
  <2> QED  BY <1>1, <1>2, <2>1
<1>5. ASSUME NEW t \in Txns, Reads(t) PROVE Durable!Next
  <2>1. /\ phase = "open" /\ UNCHANGED phase /\ answer[t] = "none" /\ answer' = [answer EXCEPT ![t] = "ok"]
        /\ data' = [k \in Keys |-> data[k]]
    BY <1>5, <1>a DEF Reads, Accounts
  <2>2. data' = data
    BY <1>a, <2>1
  <2>3. CommittedRows' = CommittedRows \cup ({} \X {t})
    BY <1>2, <2>1, <2>2
  <2>4. Durable!Commit(t)
    BY <2>1, <2>3 DEF Durable!Commit
  <2> QED  BY <2>4 DEF Durable!Next
<1>6. ASSUME NEW t \in Txns, Undoes(t) PROVE Durable!Next
  <2>1. /\ phase = "open" /\ UNCHANGED <<data, phase>> /\ answer[t] = "none" /\ answer' = [answer EXCEPT ![t] = "aborted"]
    BY <1>6, <1>a DEF Undoes, Accounts
  <2>2. Durable!Refuse(t)
    BY <1>2, <2>1 DEF Durable!Refuse
  <2> QED  BY <2>2 DEF Durable!Next
<1>7. CASE Publish
  <2> DEFINE t == job.txn
             v == [ts |-> watermark + 1, by |-> t]
  <2>1. /\ job.op = "commit" /\ UNCHANGED phase /\ answer' = [answer EXCEPT ![t] = "ok"]
        /\ data' = [k \in Keys |-> IF k \in writes[t] THEN Append(data[k], v) ELSE data[k]]
    BY <1>7 DEF Publish
  <2>2. /\ t \in Txns /\ answer[t] = "none" /\ phase = "open" /\ asked[t] = writes[t] /\ asked[t] \in SUBSET Keys
        /\ \A k \in asked[t] : WritersOf(data, k) = {}
    BY <2>1, AskedRowsAreFree
  <2> HIDE DEF t
  <2>3. v \in Version /\ v.by = t
    BY <1>a, <2>2 DEF Version
  <2> HIDE DEF v
  <2>4. ASSUME NEW k \in Keys
        PROVE  WritersOf(data', k) = WritersOf(data, k) \cup (IF k \in asked[t] THEN {t} ELSE {})
    <3>1. CASE k \in asked[t]
      <4>1. data'[k] = Append(data[k], v) /\ data[k] \in Seq(Version)
        BY <1>a, <2>1, <2>2, <3>1
      <4> QED  BY <2>3, <3>1, <4>1, WritersGrow, WritersAreOfChains
    <3>2. CASE k \notin asked[t]
      BY <2>1, <2>2, <3>2 DEF WritersOf
    <3> QED  BY <3>1, <3>2
  <2>5. CommittedRows = Pairs(data) /\ CommittedRows' = Pairs(data')
    BY <1>d, <2>1, <2>2 DEF now, then
  <2>6. CommittedRows' = CommittedRows \cup (asked[t] \X {t})
    BY <2>2, <2>4, <2>5, PairsAre
  <2>7. asked[t] \in SUBSET (Keys \ Durable!Written)
    BY <2>2, WrittenRows
  <2>8. Durable!Commit(t)
    BY <2>1, <2>2, <2>6, <2>7 DEF Durable!Commit
  <2> QED  BY <2>2, <2>8 DEF Durable!Next
<1>8. ~ Refused
  BY <1>c DEF Refused
<1>9. CASE Rests
  <2>1. UNCHANGED <<data, file, answer>> /\ (phase' = phase \/ (phase = "down" /\ phase' = "corrupt"))
    BY <1>9 DEF Rests
  <2>2. then = now
    BY <2>1 DEF then, now
  <2> QED  BY <1>1, <2>1, <2>2
<1>10. CASE Reopens
  <2>1. phase = "down" /\ phase' = "open" /\ data' = Redo(CleanPrefix(file)).data /\ UNCHANGED answer
    BY <1>10 DEF Reopens
  <2>2. then = now
    BY <2>1 DEF then, now
  <2> QED  BY <1>1, <2>1, <2>2
<1>11. ASSUME phase = "open", phase' = "down", UNCHANGED asked, NEW e \in Seq(Record), Matches(e)
       PROVE  /\ now = data
              /\ \A k \in Keys : WritersOf(now, k) = {t \in Txns : k \in asked[t] /\ CommitRec(t) \in RecsIn(e)}
              /\ \A k \in Keys : WritersOf(then, k) =
                   {t \in Txns : k \in asked[t] /\ CommitRec(t) \in RecsIn(CleanPrefix(file'))}
  <2>1. now = data /\ then = Redo(CleanPrefix(file')).data
    BY <1>11 DEF now, then
  <2>2. \A k \in Keys : WritersOf(data, k) = {t \in Txns : k \in asked[t] /\ CommitRec(t) \in RecsIn(e)}
    BY <1>11, OpenShows
  <2>3. \A k \in Keys : WritersOf(Redo(CleanPrefix(file')).data, k) =
                          {t \in Txns : k \in asked'[t] /\ CommitRec(t) \in RecsIn(CleanPrefix(file'))}
    BY <1>e, RedoShowsLog
  <2> QED  BY <1>11, <2>1, <2>2, <2>3
<1>12. CASE Stops
  <2>1. phase = "open" /\ phase' = "down" /\ UNCHANGED <<asked, answer>> /\ job.op # "commit"
    BY <1>12, <1>b, <1>c DEF Stops, Gone
  <2>2. PICK e \in Seq(Record) : Matches(e)
    BY <2>1 DEF RefinementInv, LiveInv
  <2>3. file' = file
    BY <1>12, <1>c DEF Stops, SyncGroup
  <2>4. CleanPrefix(file') = file /\ \A t \in Txns : CommitRec(t) \in RecsIn(file) <=> CommitRec(t) \in RecsIn(e)
    <3>1. CASE file = e
      BY <2>3, <3>1, CleanWhole
    <3>2. CASE file = e \o group
      <4>1. file \in Seq(Record) /\ e \in Seq(Frame) /\ RecsIn(file) = RecsIn(e) \cup RecsIn(group)
        BY <1>a, <3>2, RecordsAreFrames, ConcatProperties, RecsOfJoined
      <4>2. \A t \in Txns : CommitRec(t) \notin RecsIn(group)
        BY <1>a, <2>1, NoCommitInGroup
      <4> QED  BY <2>3, <4>1, <4>2, CleanWhole
    <3> QED  BY <2>2, <3>1, <3>2 DEF Matches
  <2> QED  BY <1>1, <1>11, <2>1, <2>2, <2>4
<1>13. CASE Crashes
  <2>1. phase = "open" /\ phase' = "down" /\ UNCHANGED asked /\ LoseTail
        /\ answer' = IF job.op = "commit" THEN [answer EXCEPT ![job.txn] = "unknown"] ELSE answer
    BY <1>13 DEF Crashes, Gone
  <2>2. PICK e \in Seq(Record) : Matches(e)
    BY <2>1 DEF RefinementInv, LiveInv
  <2> DEFINE l == CleanPrefix(file')
  <2>3. RecsIn(e) \subseteq RecsIn(l) /\ RecsIn(l) \subseteq RecsIn(e) \cup RecsIn(group)
    BY <1>a, <2>1, <2>2, CrashKeeps
  <2>4. /\ now = data
        /\ \A k \in Keys : WritersOf(now, k) = {t \in Txns : k \in asked[t] /\ CommitRec(t) \in RecsIn(e)}
        /\ \A k \in Keys : WritersOf(then, k) = {t \in Txns : k \in asked[t] /\ CommitRec(t) \in RecsIn(l)}
    BY <1>11, <2>1, <2>2
  <2> HIDE DEF l
  <2>5. CASE job.op # "commit"
    <3>1. \A t \in Txns : CommitRec(t) \notin RecsIn(group)
      BY <1>a, <2>1, <2>5, NoCommitInGroup
    <3>2. \A t \in Txns : CommitRec(t) \in RecsIn(l) <=> CommitRec(t) \in RecsIn(e)
      BY <2>3, <3>1
    <3> QED  BY <1>1, <2>1, <2>4, <2>5, <3>2
  <2>6. CASE job.op = "commit"
    <3> DEFINE t == job.txn
    <3>1. /\ t \in Txns /\ answer[t] = "none" /\ asked[t] = writes[t] /\ asked[t] \in SUBSET Keys
          /\ \A k \in asked[t] : WritersOf(data, k) = {}
      BY <2>6, AskedRowsAreFree
    <3> HIDE DEF t
    <3>2. \A u \in Txns : u # t => (CommitRec(u) \in RecsIn(l) <=> CommitRec(u) \in RecsIn(e))
      <4>1. group = RecordsOf(t, writes[t])
        BY <2>1, <2>6 DEF RefinementInv, LiveInv, GroupOfJob, t
      <4>2. \A r \in RecsIn(group) : r.txn = t
        BY <3>1, <4>1, GroupIsWhole
      <4> QED  BY <2>3, <4>2, Kinds
    <3>3. answer' = [answer EXCEPT ![t] = "unknown"]
      BY <2>1, <2>6 DEF t
    <3>4. CASE CommitRec(t) \in RecsIn(l) <=> CommitRec(t) \in RecsIn(e)
      <4>1. \A k \in Keys : WritersOf(then, k) = WritersOf(now, k)
        BY <2>4, <3>2, <3>4
      <4>2. CommittedRows' = CommittedRows
        BY <1>d, <4>1, PairsAre
      <4>3. Durable!Interrupt(t)
        BY <3>1, <3>3, <4>2 DEF Durable!Interrupt
      <4> QED  BY <3>1, <4>3 DEF Durable!Next
    <3>5. CASE CommitRec(t) \in RecsIn(l) /\ CommitRec(t) \notin RecsIn(e)
      <4>1. ASSUME NEW k \in Keys
            PROVE  WritersOf(then, k) = WritersOf(now, k) \cup (IF k \in asked[t] THEN {t} ELSE {})
        BY <2>4, <3>1, <3>2, <3>5
      <4>2. CommittedRows' = CommittedRows \cup (asked[t] \X {t})
        BY <1>d, <3>1, <4>1, PairsAre
      <4>3. asked[t] \in SUBSET (Keys \ Durable!Written)
        BY <2>1, <3>1, WrittenRows
      <4>4. Durable!Interrupt(t)
        BY <3>1, <3>3, <4>2, <4>3 DEF Durable!Interrupt
      <4> QED  BY <3>1, <4>4 DEF Durable!Next
    <3> QED  BY <2>3, <3>4, <3>5
  <2> QED  BY <2>5, <2>6
<1> QED  BY <1>3, <1>4, <1>5, <1>6, <1>7, <1>8, <1>9, <1>10, <1>12, <1>13, FlatSteps

\* Transactions, log, crashes and recovery together implement a table that
\* loses no commit that was answered Ok and shows no refused one, and that shows a
\* commit a crash interrupted as a whole or not at all.
THEOREM DatabaseImplementsTable ==
  ASSUME Faults = {} PROVE DbSpec => ImplementsDurableTable
<1>1. DbInit => RefinementInv
  BY RecoveryInvInit, LiveInit DEF RefinementInv, NotYetShown, DbInit, Init
<1>2. RefinementInv /\ [DbNext]_dbVars => RefinementInv'
  <2> SUFFICES ASSUME RefinementInv, [DbNext]_dbVars PROVE RefinementInv'
    OBVIOUS
  <2>1. RecoveryInv /\ LiveInv /\ NotYetShown /\ Faults \subseteq {"kill"}
    BY DEF RefinementInv
  <2>2. RecoveryInv' /\ LiveInv' /\ NotYetShown'
    BY <2>1, RecoveryInvStep, LiveInvStep, NotYetShownStep
  <2> QED  BY <2>2 DEF RefinementInv
<1>3. DbInit => Durable!Init
  <2> SUFFICES ASSUME DbInit PROVE Durable!Init
    OBVIOUS
  <2>1. phase = "open" /\ data = [k \in Keys |-> << >>] /\ answer = [t \in Txns |-> "none"]
    BY DEF DbInit, Init
  <2>2. \A k \in Keys : WritersOf(data, k) = {}
    <3> TAKE k \in Keys
    <3>1. data[k] = << >>
      BY <2>1
    <3> QED  BY <3>1, WritersAreOfChains, WritersGrow
  <2>3. CommittedRows = {}
    BY <2>1, <2>2 DEF CommittedRows
  <2> QED  BY <2>1, <2>3 DEF Durable!Init
<1>4. RefinementInv /\ RefinementInv' /\ [DbNext]_dbVars => [Durable!Next]_(Durable!vars)
  BY DurableStep
<1> QED  BY <1>1, <1>2, <1>3, <1>4, PTL DEF DbSpec, ImplementsDurableTable, Durable!Spec
===============================================================================
