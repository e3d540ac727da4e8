--------------------------- MODULE MCDurability ---------------------------
(* The model that TLC checks: Durability with the constants of a cfg.       *)
EXTENDS Durability
=============================================================================
