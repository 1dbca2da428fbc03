CONSTANTS
    CRs = {m1}
    MaxEnv = 3
    MaxFaults = 1
    InformerLag = TRUE
SPECIFICATION Spec
INVARIANTS
    TypeOK
    HealthyOnlyWhenReady
PROPERTIES
    NoRegressionToPending
    StatusSettles
