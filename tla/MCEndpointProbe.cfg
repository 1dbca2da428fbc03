CONSTANTS
    c1 = c1
    c2 = c2
    etcd = etcd
    rocksmq = rocksmq
    Callers <- MCCallers
    Keys <- MCKeys
    Unprobed <- MCUnprobed
    MaxEnv = 2
    MaxTimeouts = 1
SPECIFICATION Spec
INVARIANTS
    TypeOK
PROPERTIES
    
    CacheConverges
