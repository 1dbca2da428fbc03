------------------------ MODULE MCHelmDependency ------------------------
(* Model-checking instance of HelmDependency.  Etcd stands for the       *)
(* kinds with a plain external flag (Minio, Tei: same code path, no      *)
(* "initialize" key); Pulsar and Kafka exercise ReconcileMsgStream.      *)
EXTENDS HelmDependency

MCKinds == {Etcd, Pulsar, Kafka}

\* The Pulsar release alone, for the retry of a failed first install.
MCPulsarKinds == {Pulsar}
=============================================================================
