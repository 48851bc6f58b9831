---------------------------- MODULE MCSessionLock ----------------------------
(* SessionLock with the sets the runs use.                                  *)
EXTENDS SessionLock, TLC

Symmetric == Permutations(Locks) \cup Permutations(Outputs)
=============================================================================
