CONSTANTS
    Etcd = Etcd
    Minio = Minio
    Pulsar = Pulsar
    Kafka = Kafka
    Tei = Tei
    Kinds <- MCPulsarKinds
    MsgStreamTypes = {"pulsar", "kafka", "rocksmq"}
    Values = {v1, v2}
    MaxFaults = 1
    MaxEdits = 0
SPECIFICATION Spec
INVARIANT PulsarInitialized
