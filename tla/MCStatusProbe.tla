------------------------- MODULE MCStatusProbe -------------------------
(* Model-checking instance of StatusProbe: two CRs sharing one etcd.    *)
EXTENDS StatusProbe
=============================================================================
