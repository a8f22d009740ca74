--------------------------- MODULE MCAllScanRing ---------------------------
(* The forward ring; every constant is a number given in the cfg. *)
EXTENDS AllScanRing
=============================================================================
