------------------------- MODULE MCStatusSyncer -------------------------
(* Model-checking instance of StatusSyncer: one CR, both loops.         *)
EXTENDS StatusSyncer
=============================================================================
