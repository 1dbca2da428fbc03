CONSTANTS
    IndexNode = IndexNode
    MixCoord = MixCoord
    QueryNode = QueryNode
    Proxy = Proxy
    Components <- MCPairComponents
    UpgradeEdges <- MCPairEdges
    Images = {1, 2}
    UpdateModes = {"Rolling", "All"}
    MaxCRGen = 3
SPECIFICATION Spec
PROPERTIES
    RolloutCompletes
    RefinesRollingOrder
