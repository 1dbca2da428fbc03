------------------------- MODULE MCRollingUpdate -------------------------
(* Model-checking instance of RollingUpdate: a mix-coordinator cluster.   *)
EXTENDS RollingUpdate

CONSTANTS IndexNode, MixCoord, QueryNode, Proxy

\* c upgrades only after d.  The updater tests pin these edges: MixCoord
\* upgrades after IndexNode, and downgrades only after QueryNode and Proxy
\* (and DataNode, which behaves as QueryNode here) have regressed.
MCUpgradeEdges ==
    {<<MixCoord, IndexNode>>, <<QueryNode, MixCoord>>, <<Proxy, MixCoord>>}

MCComponents == {IndexNode, MixCoord, QueryNode, Proxy}

\* MixCoord after IndexNode alone, for the run where every component may
\* roll at once (mode All).
MCPairComponents == {IndexNode, MixCoord}
MCPairEdges == {<<MixCoord, IndexNode>>}
=============================================================================
