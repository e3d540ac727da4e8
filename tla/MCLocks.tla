------------------------------ MODULE MCLocks ------------------------------
(* Model-checking instances of Locks.                                      *)
EXTENDS Locks, TLC

\* Processes are only compared with each other.
PidSymmetry == Permutations(Pids)
=============================================================================
