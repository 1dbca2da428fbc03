CONSTANTS
    Images = {i1, i2}
    OperatorImages = {o1, o2}
    MaxReplicas = 2
    MaxEdits = 2
    MaxExternal = 2
SPECIFICATION Spec
INVARIANTS
    TypeOK
PROPERTIES
    NoNeedlessRestart
    DeploymentConverges
