------------------------------- MODULE Server -------------------------------
(***************************************************************************)
(* The wire server: crates/qmind-server/src/wire.rs over the session API of *)
(* crates/qmind-sql/src/engine.rs, started on a directory (DbDir).          *)
(*                                                                          *)
(* One thread per connection.  The engine is behind an RwLock.  Its guards   *)
(* are dropped before a result is written to the socket, so a guarded        *)
(* section is one step and between two of them every other thread may run;  *)
(* only "engine poisoned" is written under a guard, that of the PoisonError. *)
(* A connection's number is its session id and is not used again.  Rows are *)
(* numbers; their log and recovery are Database's subject.                  *)
(***************************************************************************)
EXTENDS DbDir, Sequences, FiniteSets

CONSTANTS
  Conns,     \* connections that clients may open
  MaxPacket, \* bound: statements in one Query packet
  MaxRows,   \* bound: rows inserted
  NetFails,  \* socket reads and writes may fail
  LogFails,  \* a COMMIT may fail at the log
  Panics     \* statements may panic, as SUM(*) does (engine.rs:2437)

ASSUME SwitchesAssumption == NetFails \in BOOLEAN /\ LogFails \in BOOLEAN /\ Panics \in BOOLEAN
ASSUME BoundsAssumption == MaxPacket \in Nat /\ MaxRows \in Nat

VARIABLES
  active,    \* Engine.active: session -> [rows, snap]
  committed, \* the rows of committed transactions
  nextRow,   \* the next row number
  poisoned,  \* a thread panicked while it held the write guard
  pc,        \* connection -> where its thread is
  left,      \* how many statements of the packet are left, the present one included
  stmt,      \* the present one, once the thread has looked at it
  flag,      \* handle_conn.session_has_txn
  owned,     \* run_query.owned
  reply,     \* the result to be sent: [ok, rows]
  broken     \* history: connections whose thread an error or a panic ended

engineVars == <<active, committed, nextRow, poisoned>>
locals == <<left, stmt, flag, owned, reply>>
connVars == <<pc, locals, broken>>
vars == <<dirVars, engineVars, connVars>>

\* Where a thread is: reading a packet, taking the guard to look for its
\* transaction, executing, sending, sending "engine poisoned", and leaving.
Alive == {"read", "route", "execute", "send", "refuse", "closing", "release"}
Places == Alive \cup {"none", "gone"}

\* Statements by what execute_session makes of them, and by the first word that
\* run_query sees: a comment hides it, and COMMIT x is refused by the parser.
Statements ==
  {[does |-> d, word |-> d] : d \in {"BEGIN", "COMMIT", "ROLLBACK", "INSERT", "SELECT"}} \cup
  {[does |-> d, word |-> "other"] : d \in {"BEGIN", "COMMIT"}} \cup
  {[does |-> "ERROR", word |-> "COMMIT"]} \cup
  {[does |-> "PANIC", word |-> "SELECT"] : x \in {p \in {TRUE} : Panics}}

NoStatement == [does |-> "none", word |-> "none"]

NoSessions == [c \in {} |-> 0]
Done(rows) == [ok |-> TRUE, rows |-> rows]
Failed == [ok |-> FALSE, rows |-> {}]

InTxn(c) == c \in DOMAIN active
Without(c) == [d \in DOMAIN active \ {c} |-> active[d]]

At(c, place) == stage = "serving" /\ pc[c] = place
Goto(c, place) == pc' = [pc EXCEPT ![c] = place]

\* A SELECT without a transaction is run under the shared guard.
FastPath(c) == ~ owned[c] /\ stmt[c].word = "SELECT"

\* Who waits for the guard that a thread at "refuse" has: everyone for the write
\* guard of the write path, writers for the read guard of the other two places.
Refusing == {d \in Conns : pc[d] = "refuse"}
Alone(d) == stmt[d] # NoStatement /\ ~ FastPath(d)
Readable(c) == \A d \in Refusing \ {c} : ~ Alone(d)
Writable(c) == Refusing \subseteq {c}

\* The thread ends, and its variables with it.
Exit(c) ==
  /\ Goto(c, "gone")
  /\ left' = [left EXCEPT ![c] = 0] /\ stmt' = [stmt EXCEPT ![c] = NoStatement]
  /\ flag' = [flag EXCEPT ![c] = FALSE] /\ owned' = [owned EXCEPT ![c] = FALSE]
  /\ reply' = [reply EXCEPT ![c] = Done({})]

----------------------------------------------------------------------------
(* Connections.                                                             *)

\* serve starts a thread with a session id of its own; handle_conn up to its
\* loop, where nothing is shared.  An SSLRequest is declined and read again.
Accept(c) ==
  /\ At(c, "none")
  /\ (Goto(c, "read") /\ UNCHANGED locals) \/ Exit(c)
  /\ UNCHANGED <<dirVars, engineVars, broken>>

\* A Query packet of n statements.
Receive(c, n) ==
  /\ At(c, "read")
  /\ Goto(c, IF n = 0 THEN "send" ELSE "route")
  /\ left' = [left EXCEPT ![c] = n]
  /\ UNCHANGED <<dirVars, engineVars, stmt, flag, owned, reply, broken>>

\* Terminate, or the end of the stream in front of a packet.
Hangup(c) ==
  /\ At(c, "read") /\ Goto(c, "closing")
  /\ UNCHANGED <<dirVars, engineVars, locals, broken>>

\* `?' on a socket error: handle_conn returns from where it is.
Break(c) ==
  /\ NetFails
  /\ At(c, "read") \/ At(c, "send") \/ At(c, "refuse")
  /\ Exit(c)
  /\ broken' = broken \cup {c}
  /\ UNCHANGED <<dirVars, engineVars>>

MutantFlagOnly(c) == flag[c]

\* What decides between the write path and the read path.
OwnsTxn(c) == flag[c] \/ InTxn(c)

\* The first guarded section of a statement.
Route(c, st) ==
  /\ At(c, "route") /\ ~ poisoned
  /\ Goto(c, "execute")
  /\ stmt' = [stmt EXCEPT ![c] = st]
  /\ owned' = [owned EXCEPT ![c] = OwnsTxn(c)]
  /\ UNCHANGED <<dirVars, engineVars, left, flag, reply, broken>>

MutantPoisonRetried(c) ==
  /\ At(c, "route") \/ At(c, "execute")
  /\ poisoned
  /\ Goto(c, "route")
  /\ UNCHANGED <<dirVars, engineVars, locals, broken>>

\* "engine poisoned", in either guarded section.  The Err still holds the guard
\* that was asked for, until the message is written; the rest of the packet is dropped.
FindPoison(c) ==
  /\ \/ At(c, "route") /\ Readable(c)
     \/ At(c, "execute") /\ (IF FastPath(c) THEN Readable(c) ELSE Writable(c))
  /\ poisoned
  /\ Goto(c, "refuse")
  /\ reply' = [reply EXCEPT ![c] = Failed]
  /\ UNCHANGED <<dirVars, engineVars, left, stmt, flag, owned, broken>>

----------------------------------------------------------------------------
(* The second guarded section: execute_session, or execute_read.            *)

\* The thread's own part: the flag follows the first word, not the engine.
FlagAfter(c, ok) ==
  LET word == stmt[c].word IN
  IF word = "BEGIN" /\ ok THEN TRUE ELSE IF word \in {"COMMIT", "ROLLBACK"} THEN FALSE ELSE flag[c]

\* What is sent depends on no local but the result; stmt says if it is a SELECT's.
Answer(c, r) ==
  /\ Goto(c, "send")
  /\ reply' = [reply EXCEPT ![c] = r]
  /\ flag' = [flag EXCEPT ![c] = FlagAfter(c, r.ok)]
  /\ stmt' = [stmt EXCEPT ![c] = IF @.does = "SELECT" THEN @ ELSE NoStatement]
  /\ owned' = [owned EXCEPT ![c] = FALSE]
  /\ UNCHANGED <<dirVars, left, broken>>

Executes(c, what) == At(c, "execute") /\ ~ poisoned /\ stmt[c].does = what

\* Refused by the parser or by the engine's first test; nothing has changed.
Reject(c) ==
  /\ \/ Executes(c, "ERROR")
     \/ Executes(c, "BEGIN") /\ InTxn(c)
     \/ (Executes(c, "COMMIT") \/ Executes(c, "ROLLBACK")) /\ ~ InTxn(c)
     \/ Executes(c, "INSERT") /\ nextRow = MaxRows
  /\ Answer(c, Failed)
  /\ UNCHANGED engineVars

Begin(c) ==
  /\ Executes(c, "BEGIN") /\ ~ InTxn(c)
  /\ active' = [d \in DOMAIN active \cup {c} |->
                  IF d = c THEN [rows |-> {}, snap |-> committed] ELSE active[d]]
  /\ Answer(c, Done({}))
  /\ UNCHANGED <<committed, nextRow, poisoned>>

\* A commit that fails has ended the transaction all the same.
Commit(c) ==
  /\ Executes(c, "COMMIT") /\ InTxn(c)
  /\ active' = Without(c)
  /\ \/ committed' = committed \cup active[c].rows /\ Answer(c, Done({}))
     \/ LogFails /\ committed' = committed /\ Answer(c, Failed)
  /\ UNCHANGED <<nextRow, poisoned>>

Rollback(c) ==
  /\ Executes(c, "ROLLBACK") /\ InTxn(c)
  /\ active' = Without(c)
  /\ Answer(c, Done({}))
  /\ UNCHANGED <<committed, nextRow, poisoned>>

\* Outside a transaction the statement commits its row itself.
Insert(c) ==
  /\ Executes(c, "INSERT") /\ nextRow < MaxRows
  /\ \/ /\ InTxn(c)
        /\ active' = [active EXCEPT ![c].rows = @ \cup {nextRow}]
        /\ UNCHANGED committed /\ Answer(c, Done({}))
     \/ /\ ~ InTxn(c)
        /\ \/ committed' = committed \cup {nextRow} /\ Answer(c, Done({}))
           \/ LogFails /\ committed' = committed /\ Answer(c, Failed)
        /\ UNCHANGED active
  /\ nextRow' = nextRow + 1
  /\ UNCHANGED poisoned

\* execute_session reads for the session's transaction, execute_read for none.
Visible(c) == IF owned[c] /\ InTxn(c) THEN active[c].snap \cup active[c].rows ELSE committed

Select(c) ==
  /\ Executes(c, "SELECT")
  /\ Answer(c, Done(Visible(c)))
  /\ UNCHANGED engineVars

\* Where panics unwind, only the write guard is poisoned; the thread is gone
\* either way.  Where they abort (the release profile), a panic is a Crash.
Panic(c) ==
  /\ Executes(c, "PANIC")
  /\ poisoned' = (poisoned \/ owned[c])
  /\ broken' = broken \cup {c}
  /\ Exit(c)
  /\ UNCHANGED <<dirVars, active, committed, nextRow>>

\* The result, or the refusal; after an error the rest of the packet is dropped.
\* ReadyForQuery follows the last one.
Send(c) ==
  LET rest == IF reply[c].ok /\ left[c] > 0 THEN left[c] - 1 ELSE 0 IN
  /\ At(c, "send") \/ At(c, "refuse")
  /\ Goto(c, IF rest = 0 THEN "read" ELSE "route")
  /\ left' = [left EXCEPT ![c] = rest]
  /\ stmt' = [stmt EXCEPT ![c] = NoStatement]
  /\ reply' = [reply EXCEPT ![c] = Done({})]
  /\ owned' = [owned EXCEPT ![c] = FALSE]
  /\ UNCHANGED <<dirVars, engineVars, flag, broken>>

----------------------------------------------------------------------------
(* The end of a connection: release_session_txn.                            *)

\* A poisoned read guard falls through to the write guard, which does nothing then.
CheckRelease(c) ==
  /\ At(c, "closing") /\ Readable(c)
  /\ IF poisoned \/ InTxn(c) THEN Goto(c, "release") /\ UNCHANGED locals ELSE Exit(c)
  /\ UNCHANGED <<dirVars, engineVars, broken>>

MutantReleaseSkipped(c) ==
  /\ At(c, "release")
  /\ Exit(c)
  /\ UNCHANGED <<dirVars, engineVars, broken>>

Release(c) ==
  /\ At(c, "release") /\ Writable(c)
  /\ Exit(c)
  /\ active' = IF poisoned THEN active ELSE Without(c)
  /\ UNCHANGED <<dirVars, committed, nextRow, poisoned, broken>>

----------------------------------------------------------------------------

Init ==
  /\ DirInit
  /\ active = NoSessions /\ committed = {} /\ nextRow = 0 /\ poisoned = FALSE
  /\ pc = [c \in Conns |-> "none"]
  /\ left = [c \in Conns |-> 0] /\ stmt = [c \in Conns |-> NoStatement]
  /\ flag = [c \in Conns |-> FALSE] /\ owned = [c \in Conns |-> FALSE]
  /\ reply = [c \in Conns |-> Done({})]
  /\ broken = {}

\* The process ends; committed rows are recovered by the next start.
Crash ==
  /\ Die
  /\ active' = NoSessions /\ poisoned' = FALSE
  /\ pc' = [c \in Conns |-> IF pc[c] \in Alive THEN "gone" ELSE pc[c]]
  /\ left' = [c \in Conns |-> 0] /\ stmt' = [c \in Conns |-> NoStatement]
  /\ flag' = [c \in Conns |-> FALSE] /\ owned' = [c \in Conns |-> FALSE]
  /\ reply' = [c \in Conns |-> Done({})]
  /\ UNCHANGED <<committed, nextRow, broken>>

\* What a thread does on its own; it needs no client.
Thread(c) ==
  \/ (\E st \in Statements : Route(c, st)) \/ FindPoison(c)
  \/ Reject(c) \/ Begin(c) \/ Commit(c) \/ Rollback(c) \/ Insert(c) \/ Select(c) \/ Panic(c)
  \/ CheckRelease(c) \/ Release(c)

Next ==
  \/ (Start \/ DirStep) /\ UNCHANGED <<engineVars, connVars>>
  \/ Crash
  \/ \E c \in Conns :
       \/ Accept(c) \/ Hangup(c) \/ Break(c)
       \/ \E n \in 0..MaxPacket : Receive(c, n)
       \/ Thread(c) \/ Send(c)

Spec == Init /\ [][Next]_vars

\* A thread that can take a step is scheduled, and so is the start of the server.
\* Nothing is assumed of clients: reading a packet and writing a result or an
\* error wait for the other end, without a timeout (wire.rs:232-238).
FairSpec ==
  /\ Spec
  /\ WF_vars(DirStep /\ UNCHANGED <<engineVars, connVars>>)
  /\ \A c \in Conns : WF_vars(Thread(c))
----------------------------------------------------------------------------
(* Properties.                                                              *)

Reads(c) == pc[c] = "send" /\ stmt[c].does = "SELECT" /\ reply[c].ok

\* A SELECT shows no row that another session has not committed, and in a
\* transaction all rows the transaction inserted, whatever the first words of its
\* statements made run_query believe (wire.rs:149-161).
ReadsAreRouted ==
  \A c \in Conns : Reads(c) =>
    LET own == IF InTxn(c) THEN active[c].rows ELSE {} IN
    /\ own \subseteq reply[c].rows
    /\ reply[c].rows \subseteq committed \cup own

\* While the lock is not poisoned, a transaction without a connection was left by
\* a thread that a socket error or a panic ended (wire.rs:80-105).  Once it is
\* poisoned every transaction is left: no statement and no release gets through.
OrphansAreBroken ==
  poisoned \/ \A c \in DOMAIN active : pc[c] \in Alive \/ c \in broken

\* wire.rs:98-103: a session that disconnects must have its transaction rolled
\* back, so that its row locks are released.
DisconnectRollsBack == \A c \in DOMAIN active : pc[c] \in Alive

\* A thread that has a packet, or that is leaving, comes to its socket or is gone,
\* whatever clients do: between sockets it waits for nothing but the guard, and
\* for that only while another thread writes "engine poisoned" (wire.rs:107-177).
ThreadsComeBack ==
  \A c \in Conns :
    pc[c] \in {"route", "execute", "closing", "release"}
      ~> pc[c] \in {"read", "send", "refuse", "gone"} \/ Refusing \ {c} # {}
============================================================================
