---------------------------- MODULE DurableTable ----------------------------
(***************************************************************************)
(* What the database promises about a table across crashes: a commit that  *)
(* was answered Ok is there from then on, a transaction that was refused   *)
(* or rolled back never is, and a commit that a crash interrupted is there *)
(* as a whole or not at all.  No log, versions or locks here.              *)
(***************************************************************************)
EXTENDS Integers

CONSTANTS
  Txns,   \* transaction ids
  Keys    \* row ids

VARIABLES
  rows,    \* the committed rows: pairs of a row id and its writer
  answer   \* what the client was told of each transaction

vars == <<rows, answer>>

Written == {r[1] : r \in rows}

Init ==
  /\ rows = {}
  /\ answer = [t \in Txns |-> "none"]

\* An id that no committed row carries may be given out (again).
Begin(t) ==
  /\ \A r \in rows : r[2] # t
  /\ answer' = [answer EXCEPT ![t] = "none"]
  /\ UNCHANGED rows

Commit(t) ==
  /\ answer[t] = "none"
  /\ answer' = [answer EXCEPT ![t] = "ok"]
  /\ \E ks \in SUBSET (Keys \ Written) : rows' = rows \cup (ks \X {t})

Refuse(t) ==
  /\ answer[t] = "none"
  /\ \E a \in {"failed", "aborted"} : answer' = [answer EXCEPT ![t] = a]
  /\ UNCHANGED rows

\* A crash during t's commit: nobody was told how it ended.
Interrupt(t) ==
  /\ answer[t] = "none"
  /\ answer' = [answer EXCEPT ![t] = "unknown"]
  /\ \/ UNCHANGED rows
     \/ \E ks \in SUBSET (Keys \ Written) : rows' = rows \cup (ks \X {t})

Next == \E t \in Txns : Begin(t) \/ Commit(t) \/ Refuse(t) \/ Interrupt(t)

Spec == Init /\ [][Next]_vars
============================================================================
