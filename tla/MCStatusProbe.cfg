CONSTANTS
    CRs = {m1, m2}
    Etcd = etcd
    MaxSyncEnv = 1
    MaxFaults = 1
    MaxHealthChanges = 1
    MaxTimeouts = 1
SPECIFICATION Spec
PROPERTIES
    DepsReflectHealth
