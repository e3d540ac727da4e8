------------------------------ MODULE MCBlobs ------------------------------
(* Model-checking instance of Blobs.                                       *)
EXTENDS Blobs
=============================================================================
