----------------------------- MODULE ServerProofs -----------------------------
(***************************************************************************)
(* Proofs about Server, for any number of connections, packets and rows:    *)
(* the directory, reads of open transactions, and transactions that are     *)
(* left behind.                                                             *)
(***************************************************************************)
EXTENDS Server, TLAPS

----------------------------------------------------------------------------
(* The directory.  Inductive: what a start leaves at each stage.            *)

DirTypes ==
  /\ stage \in Stages /\ meta \in Metas
  /\ layout \in BOOLEAN /\ synced \in BOOLEAN /\ walFile \in BOOLEAN
  /\ served \in BOOLEAN /\ exposed \in BOOLEAN

\* What is in the directory at each stage of a start.
StageShape ==
  /\ meta # "none" => layout
  /\ stage \in {"meta", "fill", "sync", "wal", "serving"} => layout
  /\ synced => meta = "whole"
  /\ stage \in {"layout", "meta"} => meta = "none"
  /\ stage = "sync" => meta = "whole"
  /\ stage = "wal" => synced
  /\ stage = "serving" => served /\ (synced \/ exposed)
  /\ stage = "open" => meta # "none"
  /\ stage = "refused" => meta \in {"empty", "part"}

\* A directory that was served, and never on unsynced bytes, is complete.
ServedShape ==
  /\ walFile => served
  /\ served /\ ~ exposed => synced /\ stage \in {"down", "open", "serving"}

DirInv == DirTypes /\ StageShape /\ ServedShape

LEMMA DirInvInit == DirInit => DirInv
BY DEF DirInit, DirInv, DirTypes, StageShape, ServedShape, Stages, Metas

LEMMA DirInvStart == ASSUME DirInv, Start PROVE DirInv'
BY DEF DirInv, DirTypes, StageShape, ServedShape, Stages, Metas, Start, FirstStage

LEMMA DirInvStep == ASSUME DirInv, DirStep PROVE DirInv'
<1> USE DEF DirInv, DirTypes, StageShape, ServedShape, Stages, Metas
<1>1. CASE CreateLayout BY <1>1 DEF CreateLayout
<1>2. CASE CreateMeta BY <1>2 DEF CreateMeta
<1>3. CASE FillMeta BY <1>3 DEF FillMeta
<1>4. CASE SyncMeta BY <1>4 DEF SyncMeta
<1>5. CASE OpenWal BY <1>5 DEF OpenWal
<1>6. CASE OpenDb BY <1>6 DEF OpenDb
<1> QED BY <1>1, <1>2, <1>3, <1>4, <1>5, <1>6 DEF DirStep

LEMMA DirInvDie == ASSUME DirInv, Die PROVE DirInv'
BY DEF DirInv, DirTypes, StageShape, ServedShape, Stages, Metas, Die, AfterCrash

LEMMA DirInvStutter == ASSUME DirInv, UNCHANGED dirVars PROVE DirInv'
BY DEF DirInv, DirTypes, StageShape, ServedShape, dirVars

\* A step of a connection leaves the directory alone.
LEMMA ConnKeepsDir ==
  ASSUME NEW c, \/ Accept(c) \/ Hangup(c) \/ Break(c) \/ (\E n \in 0..MaxPacket : Receive(c, n))
                \/ Thread(c) \/ Send(c)
  PROVE  UNCHANGED dirVars
BY DEF Accept, Hangup, Break, Receive, Thread, Route, FindPoison, Reject, Begin, Commit,
       Rollback, Insert, Select, Panic, Send, CheckRelease, Release, Answer

LEMMA DirInvNext == ASSUME DirInv, [Next]_vars PROVE DirInv'
<1>1. CASE Start BY <1>1, DirInvStart
<1>2. CASE DirStep BY <1>2, DirInvStep
<1>3. CASE Crash BY <1>3, DirInvDie DEF Crash
<1>4. CASE UNCHANGED dirVars BY <1>4, DirInvStutter
<1> QED BY <1>1, <1>2, <1>3, <1>4, ConnKeepsDir DEF Next, vars

\* A server refuses to start, or creates its database, only where none was
\* served before: main.rs, dbdir.rs:125-196.
THEOREM ServedDirectoryIsFound == Spec => []ServedIsReopened
<1>1. Init => DirInv BY DirInvInit DEF Init
<1>2. DirInv /\ [Next]_vars => DirInv' BY DirInvNext
<1>3. DirInv => ServedIsReopened
  BY DEF DirInv, DirTypes, StageShape, ServedShape, ServedIsReopened, Metas
<1> QED BY <1>1, <1>2, <1>3, PTL DEF Spec

----------------------------------------------------------------------------
(* Transactions and replies.                                                *)

Session == [rows : SUBSET Nat, snap : SUBSET Nat]

SessionTypes ==
  /\ active \in UNION {[S -> Session] : S \in SUBSET Conns}
  /\ committed \in SUBSET Nat /\ nextRow \in Nat
  /\ broken \in SUBSET Conns

ThreadTypes ==
  /\ pc \in [Conns -> Places]
  /\ stmt \in [Conns -> Statements \cup {NoStatement}]
  /\ owned \in [Conns -> BOOLEAN]
  /\ reply \in [Conns -> [ok : BOOLEAN, rows : SUBSET Nat]]
  /\ flag \in [Conns -> BOOLEAN]

\* A snapshot holds committed rows.
SnapsAreCommitted == \A c \in DOMAIN active : active[c].snap \subseteq committed

\* The path chosen when the guard was first held is still right when it is held
\* again: only the thread of a session begins and ends its transaction.
RouteHolds(c) == pc[c] = "execute" /\ c \in DOMAIN active => owned[c]

\* A thread that waits for a packet has no statement at hand.
IsIdle(c) == pc[c] \in {"none", "read"} => stmt[c].does = "none"

\* What a SELECT that is being answered saw.
Own(c) == IF InTxn(c) THEN active[c].rows ELSE {}
ReadIsRouted(c) ==
  Reads(c) => Own(c) \subseteq reply[c].rows /\ reply[c].rows \subseteq committed \cup Own(c)

PathInv == \A c \in Conns : RouteHolds(c) /\ IsIdle(c) /\ ReadIsRouted(c)

ThreadInv == SessionTypes /\ ThreadTypes /\ SnapsAreCommitted /\ PathInv

LEMMA ThreadInvInit == Init => ThreadInv
<1> SUFFICES ASSUME Init PROVE ThreadInv OBVIOUS
<1>1. SessionTypes
  <2>1. active \in [{} -> Session] BY DEF Init, NoSessions
  <2> QED BY <2>1 DEF Init, SessionTypes
<1>2. ThreadTypes
  <2>1. Done({}) \in [ok : BOOLEAN, rows : SUBSET Nat] BY DEF Done
  <2> QED BY <2>1 DEF Init, ThreadTypes, Places
<1>3. DOMAIN active = {} BY DEF Init, NoSessions
<1>4. SnapsAreCommitted BY <1>3 DEF SnapsAreCommitted
<1>5. PathInv BY DEF PathInv, RouteHolds, IsIdle, ReadIsRouted, Reads, Init, NoStatement
<1> QED BY <1>1, <1>2, <1>4, <1>5 DEF ThreadInv

\* The step of a thread that leaves the engine's data alone.
LEMMA SessionStutter ==
  ASSUME SessionTypes, SnapsAreCommitted, UNCHANGED <<active, committed, nextRow>>, broken' \in SUBSET Conns
  PROVE  SessionTypes' /\ SnapsAreCommitted'
BY DEF SessionTypes, SnapsAreCommitted

\* Ending a transaction.
LEMMA WithoutTyped ==
  ASSUME SessionTypes, NEW c
  PROVE  /\ Without(c) \in UNION {[S -> Session] : S \in SUBSET Conns}
         /\ DOMAIN Without(c) = DOMAIN active \ {c}
         /\ \A d \in DOMAIN active \ {c} : Without(c)[d] = active[d]
<1>1. PICK S \in SUBSET Conns : active \in [S -> Session] BY DEF SessionTypes
<1>2. Without(c) \in [S \ {c} -> Session] BY <1>1 DEF Without
<1> QED BY <1>1, <1>2 DEF Without

LEMMA SessionBegin ==
  ASSUME SessionTypes, SnapsAreCommitted, NEW c \in Conns, Begin(c)
  PROVE  SessionTypes' /\ SnapsAreCommitted'
<1>1. PICK S \in SUBSET Conns : active \in [S -> Session] BY DEF SessionTypes
<1>2. [rows |-> {}, snap |-> committed] \in Session BY DEF SessionTypes, Session
<1>3. active' \in [S \cup {c} -> Session] BY <1>1, <1>2 DEF Begin
<1>4. \A d \in DOMAIN active' : active'[d].snap \subseteq committed
  BY <1>1, <1>2 DEF Begin, SnapsAreCommitted
<1>5. UNCHANGED <<committed, nextRow, broken>> BY DEF Begin, Answer
<1>6. S \cup {c} \in SUBSET Conns OBVIOUS
<1>7. SnapsAreCommitted' BY <1>4, <1>5 DEF SnapsAreCommitted
<1>8. SessionTypes' BY <1>3, <1>5, <1>6 DEF SessionTypes
<1> QED BY <1>7, <1>8

LEMMA SessionCommit ==
  ASSUME SessionTypes, SnapsAreCommitted, NEW c \in Conns, Commit(c)
  PROVE  SessionTypes' /\ SnapsAreCommitted'
<1>1. PICK S \in SUBSET Conns : active \in [S -> Session] BY DEF SessionTypes
<1>2. active[c].rows \in SUBSET Nat BY <1>1 DEF Commit, InTxn, Session
<1>3. committed \subseteq committed' /\ committed' \in SUBSET Nat
  BY <1>2 DEF Commit, SessionTypes
<1>4. active' = Without(c) /\ UNCHANGED <<nextRow, broken>> BY DEF Commit, Answer
<1> QED BY <1>3, <1>4, WithoutTyped DEF SessionTypes, SnapsAreCommitted

LEMMA SessionEnds ==
  ASSUME SessionTypes, SnapsAreCommitted, NEW c \in Conns, Rollback(c) \/ Release(c)
  PROVE  SessionTypes' /\ SnapsAreCommitted'
<1>1. active' = active \/ active' = Without(c) BY DEF Rollback, Release
<1>2. UNCHANGED <<committed, nextRow, broken>> BY DEF Rollback, Release, Answer
<1> QED BY <1>1, <1>2, WithoutTyped DEF SessionTypes, SnapsAreCommitted

\* What Insert does to a transaction.
LEMMA InsertInTxn ==
  ASSUME SessionTypes, NEW c \in Conns, Insert(c), InTxn(c)
  PROVE  /\ active' \in UNION {[S -> Session] : S \in SUBSET Conns}
         /\ DOMAIN active' = DOMAIN active
         /\ \A d \in DOMAIN active : active'[d].snap = active[d].snap
         /\ \A d \in DOMAIN active \ {c} : active'[d] = active[d]
<1>1. PICK S \in SUBSET Conns : active \in [S -> Session] BY DEF SessionTypes
<1>2. c \in S /\ active[c] \in Session BY <1>1 DEF InTxn
<1> DEFINE more == [active[c] EXCEPT !.rows = active[c].rows \cup {nextRow}]
<1>3. more = [rows |-> active[c].rows \cup {nextRow}, snap |-> active[c].snap]
  BY <1>2 DEF Session
<1>4. more \in Session BY <1>2, <1>3 DEF Session, SessionTypes
<1>5. active' = [active EXCEPT ![c] = more] BY DEF Insert
<1>6. more.snap = active[c].snap BY <1>3
<1> HIDE DEF more
<1>7. active' \in [S -> Session] BY <1>1, <1>4, <1>5
<1> QED BY <1>1, <1>2, <1>5, <1>6, <1>7

LEMMA SessionInsert ==
  ASSUME SessionTypes, SnapsAreCommitted, NEW c \in Conns, Insert(c)
  PROVE  SessionTypes' /\ SnapsAreCommitted'
<1>1. nextRow \in Nat /\ nextRow' \in Nat BY DEF SessionTypes, Insert, Answer
<1>2. UNCHANGED broken BY DEF Insert, Answer
<1>3. CASE InTxn(c)
  <2>1. UNCHANGED committed BY <1>3 DEF Insert
  <2> QED BY <1>1, <1>2, <1>3, <2>1, InsertInTxn DEF SessionTypes, SnapsAreCommitted
<1>4. CASE ~ InTxn(c)
  <2>1. UNCHANGED active /\ committed' \in {committed, committed \cup {nextRow}} BY <1>4 DEF Insert
  <2> QED BY <1>1, <1>2, <2>1 DEF SessionTypes, SnapsAreCommitted
<1> QED BY <1>3, <1>4

LEMMA SessionCrash ==
  ASSUME SessionTypes, Crash
  PROVE  SessionTypes' /\ SnapsAreCommitted'
<1>1. active' \in [{} -> Session] BY DEF Crash, NoSessions
<1>2. DOMAIN active' = {} BY <1>1
<1> QED BY <1>1, <1>2 DEF SessionTypes, SnapsAreCommitted, Crash

----------------------------------------------------------------------------
(* A step of one connection.                                                *)

ConnStep(c) ==
  \/ Accept(c) \/ Hangup(c) \/ Break(c) \/ (\E n \in 0..MaxPacket : Receive(c, n))
  \/ Thread(c) \/ Send(c)

LEMMA SessionStep ==
  ASSUME SessionTypes, SnapsAreCommitted, NEW c \in Conns, ConnStep(c)
  PROVE  SessionTypes' /\ SnapsAreCommitted'
<1>1. CASE Begin(c) BY <1>1, SessionBegin
<1>2. CASE Commit(c) BY <1>2, SessionCommit
<1>3. CASE Rollback(c) \/ Release(c) BY <1>3, SessionEnds
<1>4. CASE Insert(c) BY <1>4, SessionInsert
<1>5. CASE Reject(c) \/ Select(c) \/ Panic(c)
  <2>1. UNCHANGED <<active, committed, nextRow>> /\ broken' \in SUBSET Conns
    BY <1>5 DEF Reject, Select, Panic, Answer, engineVars, SessionTypes
  <2> QED BY <2>1, SessionStutter
<1>6. CASE \/ Accept(c) \/ Hangup(c) \/ Break(c) \/ \E n \in 0..MaxPacket : Receive(c, n)
           \/ (\E st \in Statements : Route(c, st)) \/ FindPoison(c) \/ Send(c) \/ CheckRelease(c)
  <2>1. UNCHANGED <<active, committed, nextRow>> /\ broken' \in SUBSET Conns
    BY <1>6 DEF Accept, Hangup, Break, Receive, Route, FindPoison, Send, CheckRelease,
                engineVars, SessionTypes
  <2> QED BY <2>1, SessionStutter
<1> QED BY <1>1, <1>2, <1>3, <1>4, <1>5, <1>6 DEF ConnStep, Thread

\* What the step of c may not touch: the state of another thread and session.
OthersKept(c) ==
  /\ \A d \in Conns \ {c} :
       /\ pc'[d] = pc[d] /\ stmt'[d] = stmt[d] /\ owned'[d] = owned[d] /\ reply'[d] = reply[d]
       /\ d \in DOMAIN active' <=> d \in DOMAIN active
       /\ d \in DOMAIN active => active'[d] = active[d]
  /\ committed \subseteq committed'
  /\ broken \subseteq broken'

LEMMA ThreadTyped ==
  ASSUME SessionTypes, ThreadTypes, NEW c \in Conns, ConnStep(c)
  PROVE  ThreadTypes'
<1> USE DEF ThreadTypes, Goto, Places, Alive
<1>1. Done({}) \in [ok : BOOLEAN, rows : SUBSET Nat] BY DEF Done
<1>2. Failed \in [ok : BOOLEAN, rows : SUBSET Nat] BY DEF Failed
<1>3. ASSUME Exit(c) PROVE ThreadTypes' BY <1>1, <1>3 DEF Exit
<1>4. ASSUME NEW r \in [ok : BOOLEAN, rows : SUBSET Nat], Answer(c, r) PROVE ThreadTypes'
  <2>1. FlagAfter(c, r.ok) \in BOOLEAN BY DEF FlagAfter
  <2>2. stmt' \in [Conns -> Statements \cup {NoStatement}] BY <1>4 DEF Answer
  <2> QED BY <1>4, <2>1, <2>2 DEF Answer
<1>5. CASE Accept(c) BY <1>3, <1>5 DEF Accept, locals
<1>6. CASE Hangup(c) BY <1>6 DEF Hangup, locals
<1>7. CASE Break(c) BY <1>3, <1>7 DEF Break
<1>8. CASE \E n \in 0..MaxPacket : Receive(c, n) BY <1>8 DEF Receive
<1>9. CASE \E st \in Statements : Route(c, st)
  <2>1. OwnsTxn(c) \in BOOLEAN BY DEF OwnsTxn, InTxn
  <2> QED BY <1>9, <2>1 DEF Route
<1>10. CASE FindPoison(c) BY <1>2, <1>10 DEF FindPoison
<1>11. CASE Reject(c) BY <1>2, <1>4, <1>11 DEF Reject
<1>12. CASE Begin(c) BY <1>1, <1>4, <1>12 DEF Begin
<1>13. CASE Commit(c) BY <1>1, <1>2, <1>4, <1>13 DEF Commit
<1>14. CASE Rollback(c) BY <1>1, <1>4, <1>14 DEF Rollback
<1>15. CASE Insert(c) BY <1>1, <1>2, <1>4, <1>15 DEF Insert
<1>16. CASE Select(c)
  <2>1. PICK S \in SUBSET Conns : active \in [S -> Session] BY DEF SessionTypes
  <2>2. Visible(c) \in SUBSET Nat BY <2>1 DEF Visible, InTxn, Session, SessionTypes
  <2>3. Done(Visible(c)) \in [ok : BOOLEAN, rows : SUBSET Nat] BY <2>2 DEF Done
  <2> QED BY <1>4, <1>16, <2>3 DEF Select
<1>17. CASE Panic(c) BY <1>3, <1>17 DEF Panic
<1>18. CASE Send(c) BY <1>1, <1>18 DEF Send
<1>19. CASE CheckRelease(c) BY <1>3, <1>19 DEF CheckRelease, locals
<1>20. CASE Release(c) BY <1>3, <1>20 DEF Release
<1> QED BY <1>5, <1>6, <1>7, <1>8, <1>9, <1>10, <1>11, <1>12, <1>13, <1>14, <1>15, <1>16,
           <1>17, <1>18, <1>19, <1>20 DEF ConnStep, Thread

LEMMA OthersAreKept ==
  ASSUME SessionTypes, ThreadTypes, NEW c \in Conns, ConnStep(c)
  PROVE  OthersKept(c)
<1> USE DEF ThreadTypes, Goto
<1> DEFINE Locals ==
      /\ \A d \in Conns \ {c} :
           pc'[d] = pc[d] /\ stmt'[d] = stmt[d] /\ owned'[d] = owned[d] /\ reply'[d] = reply[d]
      /\ broken \subseteq broken'
<1> DEFINE Sessions ==
      /\ \A d \in Conns \ {c} :
           /\ d \in DOMAIN active' <=> d \in DOMAIN active
           /\ d \in DOMAIN active => active'[d] = active[d]
      /\ committed \subseteq committed'
<1>1. ASSUME Exit(c), broken \subseteq broken' PROVE Locals BY <1>1 DEF Exit
<1>2. ASSUME NEW r, Answer(c, r) PROVE Locals BY <1>2 DEF Answer
<1>3. Locals
  <2>1. CASE Accept(c) BY <1>1, <2>1 DEF Accept, locals
  <2>2. CASE Hangup(c) BY <2>2 DEF Hangup, locals
  <2>3. CASE Break(c) BY <1>1, <2>3 DEF Break
  <2>4. CASE \E n \in 0..MaxPacket : Receive(c, n) BY <2>4 DEF Receive
  <2>5. CASE (\E st \in Statements : Route(c, st)) \/ FindPoison(c) \/ Send(c)
    BY <2>5 DEF Route, FindPoison, Send
  <2>6. CASE Reject(c) \/ Begin(c) \/ Commit(c) \/ Rollback(c) \/ Insert(c) \/ Select(c)
    BY <1>2, <2>6 DEF Reject, Begin, Commit, Rollback, Insert, Select
  <2>7. CASE Panic(c) BY <1>1, <2>7 DEF Panic
  <2>8. CASE CheckRelease(c) BY <1>1, <2>8 DEF CheckRelease, locals
  <2>9. CASE Release(c) BY <1>1, <2>9 DEF Release
  <2> QED BY <2>1, <2>2, <2>3, <2>4, <2>5, <2>6, <2>7, <2>8, <2>9 DEF ConnStep, Thread
<1>4. ASSUME active' = active, committed \subseteq committed' PROVE Sessions BY <1>4
<1>5. Sessions
  <2>1. CASE Begin(c) BY <2>1 DEF Begin
  <2>2. CASE Commit(c)
    <3>1. active' = Without(c) /\ committed \subseteq committed' BY <2>2 DEF Commit
    <3> QED BY <3>1, WithoutTyped
  <2>3. CASE Rollback(c) \/ Release(c)
    <3>1. active' = active \/ active' = Without(c) BY <2>3 DEF Rollback, Release
    <3>2. UNCHANGED committed BY <2>3 DEF Rollback, Release
    <3> QED BY <3>1, <3>2, WithoutTyped
  <2>4. CASE Insert(c)
    <3>1. committed \subseteq committed' BY <2>4 DEF Insert
    <3>2. CASE InTxn(c) BY <2>4, <3>1, <3>2, InsertInTxn
    <3>3. CASE ~ InTxn(c) BY <1>4, <2>4, <3>1, <3>3 DEF Insert
    <3> QED BY <3>2, <3>3
  <2>5. CASE Reject(c) \/ Select(c) \/ Panic(c)
    BY <1>4, <2>5 DEF Reject, Select, Panic, engineVars
  <2>6. CASE \/ Accept(c) \/ Hangup(c) \/ Break(c) \/ \E n \in 0..MaxPacket : Receive(c, n)
             \/ (\E st \in Statements : Route(c, st)) \/ FindPoison(c) \/ Send(c) \/ CheckRelease(c)
    BY <1>4, <2>6 DEF Accept, Hangup, Break, Receive, Route, FindPoison, Send, CheckRelease, engineVars
  <2> QED BY <2>1, <2>2, <2>3, <2>4, <2>5, <2>6 DEF ConnStep, Thread
<1> QED BY <1>3, <1>5 DEF OthersKept

----------------------------------------------------------------------------
(* What a thread knows of its own session.                                  *)

LEMMA OwnPath ==
  ASSUME SessionTypes, ThreadTypes, NEW c \in Conns, ConnStep(c), RouteHolds(c), IsIdle(c)
  PROVE  RouteHolds(c)' /\ IsIdle(c)'
<1> USE DEF ThreadTypes, Goto, RouteHolds, IsIdle, At
<1>1. ASSUME Exit(c) PROVE pc'[c] = "gone" BY <1>1 DEF Exit
<1>2. ASSUME NEW r, Answer(c, r) PROVE pc'[c] = "send" BY <1>2 DEF Answer
<1>3. NoStatement.does = "none" BY DEF NoStatement
<1>4. CASE Accept(c) BY <1>1, <1>4 DEF Accept, locals
<1>5. CASE Hangup(c) BY <1>5 DEF Hangup, locals
<1>6. CASE Break(c) BY <1>1, <1>6 DEF Break
<1>7. CASE \E n \in 0..MaxPacket : Receive(c, n) BY <1>7 DEF Receive
<1>8. CASE \E st \in Statements : Route(c, st)
  BY <1>8 DEF Route, OwnsTxn, InTxn, engineVars
<1>9. CASE FindPoison(c) BY <1>9 DEF FindPoison
<1>10. CASE Reject(c) \/ Begin(c) \/ Commit(c) \/ Rollback(c) \/ Insert(c) \/ Select(c)
  BY <1>2, <1>10 DEF Reject, Begin, Commit, Rollback, Insert, Select
<1>11. CASE Panic(c) BY <1>1, <1>11 DEF Panic
<1>12. CASE Send(c) BY <1>3, <1>12 DEF Send
<1>13. CASE CheckRelease(c) BY <1>1, <1>13 DEF CheckRelease, locals
<1>14. CASE Release(c) BY <1>1, <1>14 DEF Release
<1> QED BY <1>4, <1>5, <1>6, <1>7, <1>8, <1>9, <1>10, <1>11, <1>12, <1>13, <1>14 DEF ConnStep, Thread

\* A SELECT sees what its path shows; nothing else reaches "send" with a SELECT
\* at hand and an answer that is not an error.
LEMMA OwnRead ==
  ASSUME SessionTypes, ThreadTypes, SnapsAreCommitted, NEW c \in Conns, ConnStep(c),
         RouteHolds(c), IsIdle(c)
  PROVE  ReadIsRouted(c)'
<1> USE DEF ThreadTypes, Goto, At
<1> DEFINE NotReading == ~ Reads(c)'
<1>0. ASSUME NotReading PROVE ReadIsRouted(c)' BY <1>0 DEF ReadIsRouted
<1> HIDE DEF NotReading
<1>1. ASSUME pc'[c] # "send" PROVE NotReading BY <1>1 DEF NotReading, Reads
<1>2. ASSUME Exit(c) PROVE NotReading
  <2>1. pc'[c] = "gone" BY <1>2 DEF Exit
  <2> QED BY <1>1, <2>1
<1>3. ASSUME NEW what \in {"ERROR", "BEGIN", "COMMIT", "ROLLBACK", "INSERT"}, Executes(c, what),
             NEW r, Answer(c, r)
      PROVE  NotReading
  <2>1. stmt'[c].does # "SELECT" BY <1>3 DEF Executes, Answer, NoStatement
  <2> QED BY <2>1 DEF NotReading, Reads
<1>4. CASE Accept(c)
  <2>1. pc'[c] \in {"read", "gone"} BY <1>4 DEF Accept, Exit
  <2> QED BY <1>0, <1>1, <2>1
<1>5. CASE Hangup(c) BY <1>0, <1>1, <1>5 DEF Hangup
<1>6. CASE Break(c) BY <1>0, <1>2, <1>6 DEF Break
<1>7. CASE \E n \in 0..MaxPacket : Receive(c, n)
  <2>1. stmt'[c].does = "none" BY <1>7 DEF Receive, IsIdle
  <2> QED BY <1>0, <2>1 DEF NotReading, Reads
<1>8. CASE \E st \in Statements : Route(c, st) BY <1>0, <1>1, <1>8 DEF Route
<1>9. CASE FindPoison(c)
  <2>1. ~ reply'[c].ok BY <1>9 DEF FindPoison, Failed
  <2> QED BY <1>0, <2>1 DEF NotReading, Reads
<1>10. CASE Reject(c) BY <1>0, <1>3, <1>10 DEF Reject
<1>11. CASE Begin(c) BY <1>0, <1>3, <1>11 DEF Begin
<1>12. CASE Commit(c) BY <1>0, <1>3, <1>12 DEF Commit
<1>13. CASE Rollback(c) BY <1>0, <1>3, <1>13 DEF Rollback
<1>14. CASE Insert(c) BY <1>0, <1>3, <1>14 DEF Insert
<1>15. CASE Select(c)
  <2>1. UNCHANGED <<active, committed>> BY <1>15 DEF Select, engineVars
  <2>2. reply'[c].rows = Visible(c) BY <1>15 DEF Select, Answer, Done
  <2>3. Own(c)' = Own(c) BY <2>1 DEF Own, InTxn
  <2>4. InTxn(c) => owned[c] BY <1>15 DEF Select, Executes, RouteHolds, InTxn
  <2>5. InTxn(c) => active[c].snap \subseteq committed BY DEF SnapsAreCommitted, InTxn
  <2>6. Own(c) \subseteq Visible(c) /\ Visible(c) \subseteq committed \cup Own(c)
    BY <2>4, <2>5 DEF Own, Visible
  <2> QED BY <2>1, <2>2, <2>3, <2>6 DEF ReadIsRouted
<1>16. CASE Panic(c) BY <1>0, <1>2, <1>16 DEF Panic
<1>17. CASE Send(c)
  <2>1. pc'[c] \in {"read", "route"} BY <1>17 DEF Send
  <2> QED BY <1>0, <1>1, <2>1
<1>18. CASE CheckRelease(c)
  <2>1. pc'[c] \in {"release", "gone"} BY <1>18 DEF CheckRelease, Exit
  <2> QED BY <1>0, <1>1, <2>1
<1>19. CASE Release(c) BY <1>0, <1>2, <1>19 DEF Release
<1> QED BY <1>4, <1>5, <1>6, <1>7, <1>8, <1>9, <1>10, <1>11, <1>12, <1>13, <1>14, <1>15, <1>16,
           <1>17, <1>18, <1>19 DEF ConnStep, Thread

\* Another thread's step leaves what is said of d true.
LEMMA OtherPath ==
  ASSUME NEW c \in Conns, NEW d \in Conns \ {c}, OthersKept(c),
         RouteHolds(d), IsIdle(d), ReadIsRouted(d)
  PROVE  RouteHolds(d)' /\ IsIdle(d)' /\ ReadIsRouted(d)'
<1>1. Own(d)' = Own(d) BY DEF OthersKept, Own, InTxn
<1>2. RouteHolds(d)' /\ IsIdle(d)' BY DEF OthersKept, RouteHolds, IsIdle
<1>3. ReadIsRouted(d)' BY <1>1 DEF OthersKept, ReadIsRouted, Reads
<1> QED BY <1>2, <1>3

LEMMA ThreadInvConn == ASSUME ThreadInv, NEW c \in Conns, ConnStep(c) PROVE ThreadInv'
<1>1. SessionTypes' /\ SnapsAreCommitted' BY SessionStep DEF ThreadInv
<1>2. ThreadTypes' BY ThreadTyped DEF ThreadInv
<1>3. OthersKept(c) BY OthersAreKept DEF ThreadInv
<1>4. ASSUME NEW d \in Conns PROVE RouteHolds(d)' /\ IsIdle(d)' /\ ReadIsRouted(d)'
  <2>1. CASE d = c BY <2>1, OwnPath, OwnRead DEF ThreadInv, PathInv
  <2>2. CASE d # c BY <1>3, <2>2, OtherPath DEF ThreadInv, PathInv
  <2> QED BY <2>1, <2>2
<1>5. PathInv' BY <1>4 DEF PathInv
<1> QED BY <1>1, <1>2, <1>5 DEF ThreadInv

\* A crash ends every thread, and with it every transaction.
LEMMA ThreadInvCrash == ASSUME ThreadInv, Crash PROVE ThreadInv'
<1>1. SessionTypes' /\ SnapsAreCommitted' BY SessionCrash DEF ThreadInv
<1>2. Done({}) \in [ok : BOOLEAN, rows : SUBSET Nat] BY DEF Done
<1>3. pc' \in [Conns -> {"none", "gone"}] BY DEF ThreadInv, ThreadTypes, Crash, Places, Alive
<1>4. ThreadTypes' BY <1>2, <1>3 DEF ThreadTypes, Crash, Places
<1>5. PathInv'
  <2>1. \A c \in Conns : stmt'[c].does = "none" BY DEF Crash, NoStatement
  <2> QED BY <1>3, <2>1 DEF PathInv, RouteHolds, IsIdle, ReadIsRouted, Reads
<1> QED BY <1>1, <1>4, <1>5 DEF ThreadInv

LEMMA ThreadInvStutter == ASSUME ThreadInv, UNCHANGED <<engineVars, connVars>> PROVE ThreadInv'
BY DEF ThreadInv, SessionTypes, ThreadTypes, SnapsAreCommitted, PathInv, RouteHolds, IsIdle,
       ReadIsRouted, Reads, Own, InTxn, engineVars, connVars, locals

LEMMA ThreadInvNext == ASSUME ThreadInv, [Next]_vars PROVE ThreadInv'
<1>1. CASE Crash BY <1>1, ThreadInvCrash
<1>2. CASE \E c \in Conns : ConnStep(c) BY <1>2, ThreadInvConn
<1>3. CASE UNCHANGED <<engineVars, connVars>> BY <1>3, ThreadInvStutter
<1> QED BY <1>1, <1>2, <1>3 DEF Next, ConnStep, vars

\* A SELECT shows what other sessions have committed and what its own
\* transaction has inserted, however its statements were disguised (wire.rs:149-161).
THEOREM ReadsSeeTheirTxn == Spec => []ReadsAreRouted
<1>1. Init => ThreadInv BY ThreadInvInit
<1>2. ThreadInv /\ [Next]_vars => ThreadInv' BY ThreadInvNext
<1>3. ThreadInv => ReadsAreRouted
  BY DEF ThreadInv, PathInv, ReadIsRouted, ReadsAreRouted, Own
<1> QED BY <1>1, <1>2, <1>3, PTL DEF Spec

----------------------------------------------------------------------------
(* Transactions without a thread.                                           *)

LEMMA OrphansConn ==
  ASSUME ThreadInv, OrphansAreBroken, NEW c \in Conns, ConnStep(c) PROVE OrphansAreBroken'
<1> USE DEF ThreadInv, ThreadTypes, Goto
<1> DEFINE Fine(d) == d \in DOMAIN active => pc[d] \in Alive \/ d \in broken
<1>1. OthersKept(c) BY OthersAreKept
<1>2. DOMAIN active \subseteq Conns /\ DOMAIN active' \subseteq Conns
  BY SessionStep DEF SessionTypes
<1>3. ASSUME ~ poisoned', ~ poisoned, NEW d \in Conns \ {c} PROVE Fine(d)'
  BY <1>1, <1>3 DEF OrphansAreBroken, OthersKept
<1>4. poisoned => poisoned' BY DEF ConnStep, Thread, Accept, Hangup, Break, Receive, Route,
        FindPoison, Reject, Begin, Commit, Rollback, Insert, Select, Panic, Send, CheckRelease,
        Release, engineVars
<1>5. ASSUME ~ poisoned', ~ poisoned PROVE Fine(c)'
  <2>1. ~ Fine(c)' => pc'[c] \notin Alive /\ c \in DOMAIN active' /\ c \notin broken' OBVIOUS
  <2>2. Fine(c) BY <1>2, <1>5 DEF OrphansAreBroken
  <2>3. ASSUME pc'[c] \in Alive PROVE Fine(c)' BY <2>3
  <2>4. ASSUME NEW r, Answer(c, r) PROVE Fine(c)' BY <2>3, <2>4 DEF Answer, Alive
  <2>5. CASE Accept(c) BY <2>2, <2>3, <2>5 DEF Accept, At, Alive, engineVars
  <2>6. CASE Hangup(c) BY <2>3, <2>6 DEF Hangup, Alive
  <2>7. CASE Break(c) \/ Panic(c) BY <2>7 DEF Break, Panic
  <2>8. CASE \E n \in 0..MaxPacket : Receive(c, n) BY <2>3, <2>8 DEF Receive, Alive
  <2>9. CASE (\E st \in Statements : Route(c, st)) \/ FindPoison(c) \/ Send(c)
    BY <2>3, <2>9 DEF Route, FindPoison, Send, Alive
  <2>10. CASE Reject(c) \/ Begin(c) \/ Commit(c) \/ Rollback(c) \/ Insert(c) \/ Select(c)
    BY <2>4, <2>10 DEF Reject, Begin, Commit, Rollback, Insert, Select
  <2>11. CASE CheckRelease(c) BY <1>5, <2>3, <2>11 DEF CheckRelease, InTxn, engineVars, Alive
  <2>12. CASE Release(c)
    <3>1. active' = Without(c) BY <1>5, <2>12 DEF Release
    <3> QED BY <3>1 DEF Without
  <2> QED BY <2>5, <2>6, <2>7, <2>8, <2>9, <2>10, <2>11, <2>12 DEF ConnStep, Thread
<1> QED BY <1>2, <1>3, <1>4, <1>5 DEF OrphansAreBroken

LEMMA OrphansNext == ASSUME ThreadInv, OrphansAreBroken, [Next]_vars PROVE OrphansAreBroken'
<1>1. CASE Crash
  <2>1. DOMAIN active' = {} BY <1>1 DEF Crash, NoSessions
  <2> QED BY <2>1 DEF OrphansAreBroken
<1>2. CASE \E c \in Conns : ConnStep(c) BY <1>2, OrphansConn
<1>3. CASE UNCHANGED <<engineVars, connVars>>
  BY <1>3 DEF OrphansAreBroken, engineVars, connVars
<1> QED BY <1>1, <1>2, <1>3 DEF Next, ConnStep, vars

\* A transaction outlives its connection only after a socket error, a panic or
\* a poisoned lock (wire.rs:80-105).
THEOREM LeftBehindOnlyByErrors == Spec => []OrphansAreBroken
<1>1. Init => ThreadInv /\ OrphansAreBroken
  <2>1. Init => OrphansAreBroken BY DEF Init, OrphansAreBroken, NoSessions
  <2> QED BY <2>1, ThreadInvInit
<1>2. ThreadInv /\ OrphansAreBroken /\ [Next]_vars => (ThreadInv /\ OrphansAreBroken)'
  BY ThreadInvNext, OrphansNext
<1> QED BY <1>1, <1>2, PTL DEF Spec

===============================================================================
