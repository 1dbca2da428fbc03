CONSTANTS
    IndexNode = IndexNode
    MixCoord = MixCoord
    QueryNode = QueryNode
    Proxy = Proxy
    Components <- MCComponents
    UpgradeEdges <- MCUpgradeEdges
    Images = {1, 2, 3}
    UpdateModes = {"Rolling"}
    MaxCRGen = 3
SPECIFICATION Spec
INVARIANT
    CompatiblePeers
