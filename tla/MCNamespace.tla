---------------------------- MODULE MCNamespace ----------------------------
(* Model-checking instance of Namespace and Fsck.                          *)
EXTENDS Fsck, TLC

\* No operation tells two names apart.
NameSymmetry == Permutations(Names)
=============================================================================
