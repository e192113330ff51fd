------------------------------ MODULE Recovery ------------------------------
(***************************************************************************)
(* The kernel's recovery analysis (crates/qmind-kernel/src/recovery.rs),   *)
(* which classifies the transactions of a log, redoes the puts of those    *)
(* that committed and reports those it undid.  The engine recovers with    *)
(* MvccStore.redo_from_records instead; Database compares the two.         *)
(*                                                                         *)
(* Checkpoint and catalogue records name no put and are left out.          *)
(***************************************************************************)
EXTENDS Wal, FiniteSetsExt

Marks(log, t) ==
  {i \in DOMAIN log : log[i].txn = t /\ log[i].kind \in {"begin", "commit", "abort"}}

\* recover, analysis: the status of t is what its last mark says.
StatusOf(log, t) ==
  IF Marks(log, t) = {} THEN "unseen"
  ELSE CASE log[Max(Marks(log, t))].kind = "begin" -> "in flight"
         [] log[Max(Marks(log, t))].kind = "commit" -> "committed"
         [] log[Max(Marks(log, t))].kind = "abort" -> "aborted"

Puts(log) == {i \in DOMAIN log : log[i].kind = "put"}

MutantNoUndo(log, i) == StatusOf(log, log[i].txn) # "aborted"

Redoes(log, i) == StatusOf(log, log[i].txn) = "committed"

\* recover, redo: who wrote the value it finds for key k, or nobody: the last
\* put wins.
RecoveredWriter(log, k) ==
  LET puts == {i \in Puts(log) : log[i].key = k /\ Redoes(log, i)} IN
  IF puts = {} THEN -1 ELSE log[Max(puts)].txn

\* recover, undo: the transactions in flight at the crash that had written.
Undone(log) == {log[i].txn : i \in {j \in Puts(log) : StatusOf(log, log[j].txn) = "in flight"}}
============================================================================
