---------------------------- MODULE MCSimplerZeCo ----------------------------
(* Sequences of public calls of the simpler backend, chosen in each cfg. *)
EXTENDS SimplerZeCo
=============================================================================
