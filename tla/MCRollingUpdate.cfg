CONSTANTS
    IndexNode = IndexNode
    MixCoord = MixCoord
    QueryNode = QueryNode
    Proxy = Proxy
    Components <- MCComponents
    UpgradeEdges <- MCUpgradeEdges
    Images = {1, 2}
    UpdateModes = {"Rolling"}
    MaxCRGen = 3
SPECIFICATION Spec
INVARIANTS
    TypeOK
    CompatiblePeers
    UpdatedMeansRolledOut
PROPERTIES
    RolloutCompletes
    RefinesRollingOrder
