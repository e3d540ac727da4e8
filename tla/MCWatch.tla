------------------------------ MODULE MCWatch ------------------------------
(* Model-checking instances of Watch.                                      *)
EXTENDS Watch, TLC

\* Names are only compared with each other.
NameSymmetry == Permutations(Names)
=============================================================================
