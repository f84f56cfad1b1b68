--------------------------- MODULE MCLockStepSwarm ---------------------------
(* LockStepSwarm for TLC.                                                  *)
EXTENDS LockStepSwarm, TLC

Symmetry == Permutations(Loopers) \cup Permutations(Spinners)

=============================================================================
