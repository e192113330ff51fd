------------------------- MODULE SnapshotIsolation -------------------------
(***************************************************************************)
(* What the versioned store promises: snapshot isolation.  The database is *)
(* the history of its committed states.  A transaction works on the state  *)
(* that was the last one when it began, keeps its writes to itself, and    *)
(* commits only if no later state changed a key it wrote.  There are no    *)
(* locks, versions or timestamps here: those are MvccStore's means.        *)
(***************************************************************************)
EXTENDS Integers, Sequences

CONSTANTS
  Txns,    \* transaction ids
  Keys,    \* row keys
  NoTxn    \* the writer of a key nobody has written

VARIABLES
  history,  \* the committed states so far; a state gives each key's writer
  start,    \* the place in history a transaction reads from
  buffer,   \* the keys a transaction has written
  phase     \* "idle", "running" or "done"

vars == <<history, start, buffer, phase>>

Current == history[Len(history)]

Init ==
  /\ history = << [k \in Keys |-> NoTxn] >>
  /\ start = [t \in Txns |-> 1]
  /\ buffer = [t \in Txns |-> {}]
  /\ phase = [t \in Txns |-> "idle"]

Begin(t) ==
  /\ phase[t] = "idle"
  /\ phase' = [phase EXCEPT ![t] = "running"]
  /\ start' = [start EXCEPT ![t] = Len(history)]
  /\ UNCHANGED <<history, buffer>>

Write(t, k) ==
  /\ phase[t] = "running"
  /\ buffer' = [buffer EXCEPT ![t] = @ \cup {k}]
  /\ UNCHANGED <<history, start, phase>>

\* A write in the name of a transaction that is done starts it anew, on the
\* state before all commits.
WriteAgain(t, k) ==
  /\ phase[t] = "done"
  /\ phase' = [phase EXCEPT ![t] = "running"]
  /\ start' = [start EXCEPT ![t] = 1]
  /\ buffer' = [buffer EXCEPT ![t] = {k}]
  /\ UNCHANGED history

\* First committer wins: no state since the one it reads has changed what it
\* writes.
Commit(t) ==
  /\ phase[t] = "running"
  /\ \A k \in buffer[t] : \A i \in start[t]..Len(history) :
        history[i][k] = history[start[t]][k]
  /\ history' = Append(history, [k \in Keys |-> IF k \in buffer[t] THEN t ELSE Current[k]])
  /\ phase' = [phase EXCEPT ![t] = "done"]
  /\ UNCHANGED <<start, buffer>>

Abort(t) ==
  /\ phase[t] = "running"
  /\ phase' = [phase EXCEPT ![t] = "done"]
  /\ UNCHANGED <<history, start, buffer>>

Next ==
  \E t \in Txns :
     \/ Begin(t) \/ Commit(t) \/ Abort(t)
     \/ \E k \in Keys : Write(t, k) \/ WriteAgain(t, k)

Spec == Init /\ [][Next]_vars
============================================================================
