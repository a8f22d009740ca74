------------------------- MODULE MCAllScanBackward -------------------------
(* The reverse ring; every constant is a number given in the cfg. *)
EXTENDS AllScanBackward
=============================================================================
