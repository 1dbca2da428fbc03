------------------------- MODULE MCEndpointProbe -------------------------
(* Model-checking instance of EndpointProbe: two CRs' status routines     *)
(* sharing the etcd endpoints, plus a rocksmq kind needing no probe.      *)
EXTENDS EndpointProbe

CONSTANTS c1, c2, etcd, rocksmq

MCCallers  == {c1, c2}
MCKeys     == {etcd, rocksmq}
MCUnprobed == {rocksmq}
=============================================================================
