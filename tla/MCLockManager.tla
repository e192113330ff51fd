--------------------------- MODULE MCLockManager ---------------------------
(* Finite instances of the lock manager.  Transactions and resources are    *)
(* interchangeable, so both are symmetry sets in the runs without liveness. *)
EXTENDS LockManager, TLC

Symmetry == Permutations(Txns) \cup Permutations(Resources)

AllCalls == {"acquire", "try_lock", "release"}
StrictCalls == {"acquire", "try_lock"}
BothModes == {"S", "X"}
============================================================================
