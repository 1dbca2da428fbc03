CONSTANTS
    Etcd = Etcd
    Minio = Minio
    Pulsar = Pulsar
    Kafka = Kafka
    Tei = Tei
    Kinds <- MCKinds
    MsgStreamTypes = {"pulsar", "kafka", "rocksmq"}
    Values = {v1, v2}
    MaxFaults = 2
    MaxEdits = 1
SPECIFICATION Spec
INVARIANT TypeOK
PROPERTIES
    NoSpuriousUpgrade
    ReleasesConverge
