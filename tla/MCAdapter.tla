----------------------------- MODULE MCAdapter -----------------------------
(* Model-checking instance of Adapter.                                     *)
EXTENDS Adapter

CONSTANTS a, b

MCNames == {a, b}
MCOrder == <<a, b>>
=============================================================================
