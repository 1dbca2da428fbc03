--------------------------- MODULE HelmDependency ---------------------------
(***************************************************************************)
(* The in-cluster dependency releases of one Milvus CR                    *)
(* (src/pkg/controllers/dependencies.go).  ReconcileEtcd, ReconcileMinio, *)
(* ReconcileMsgStream (Kafka or Pulsar) and ReconcileTei decide whether a  *)
(* release is managed; LocalHelmReconciler.Reconcile installs it, or       *)
(* compares its stored values and status with the request and upgrades.  *)
(* Chart values are abstracted to a small set; the operator-owned Pulsar  *)
(* "initialize" key is kept apart from them because Reconcile treats it   *)
(* apart.  Helm calls that fail without writing (ReleaseExist, GetValues, *)
(* GetStatus errors) return before any state change and are stutter steps.*)
(***************************************************************************)
EXTENDS Naturals

CONSTANTS
    Kinds,        \* dependency kinds: Etcd, Minio, Pulsar, Kafka, Tei
    Etcd, Minio, Pulsar, Kafka, Tei,
    MsgStreamTypes, \* spec.dependencies.msgStreamType values
    Values,       \* abstract chart values a ChartRequest can carry
    MaxFaults,    \* bound on failed helm writes and external status drift
    MaxEdits      \* bound on the user's edits of dependency values

ASSUME Kinds \subseteq {Etcd, Minio, Pulsar, Kafka, Tei}
ASSUME {"pulsar", "kafka"} \subseteq MsgStreamTypes

NoRelease == [none |-> TRUE]
NoCall    == <<"none", "none">>
\* The "initialize" key of a release's values: absent, true or false.
Unset     == "unset"
InitTrue  == "true"
InitFalse == "false"

VARIABLES
    dep,       \* spec.dependencies: external flags, msgStreamType, tei.enabled
    want,      \* values of the ChartRequest built for each kind
    rel,       \* the Helm release per kind: stored values, "initialize", status
    call,      \* the Helm write made by the latest step, if any
    initRan,   \* history: a write carrying initialize=true has succeeded
    faults,
    edits

vars == <<dep, want, rel, call, initRan, faults, edits>>

Release ==
    [values: Values, initialize: {Unset, InitTrue, InitFalse},
     status: {"deployed", "failed"}]

-----------------------------------------------------------------------------
\* ReconcileEtcd / ReconcileMinio / ReconcileMsgStream / ReconcileTei:
\* the kinds for which a ChartRequest reaches the Helm reconciler.
Managed(k) ==
    CASE k = Etcd   -> ~dep.external[Etcd]
      [] k = Minio  -> ~dep.external[Minio]
      [] k = Pulsar -> dep.msgStreamType = "pulsar" /\ ~dep.external[Pulsar]
      [] k = Kafka  -> dep.msgStreamType = "kafka" /\ ~dep.external[Kafka]
      [] k = Tei    -> dep.teiEnabled

\* request.Chart == helm.GetChartPathByName(Pulsar)
IsPulsarChart(k) == k = Pulsar

\* helm.NeedUpdate(status): a release not in the deployed state is redone.
NeedUpdate(s) == s # "deployed"

\* The comparison without delete(vals, "initialize"): the key the operator
\* wrote itself counts as a difference.
DeepEqualKeepingInitialize(k) ==
    /\ rel[k].values = want[k]
    /\ rel[k].initialize = Unset

\* reflect.DeepEqual(vals, request.Values), after delete(vals, "initialize")
\* for the Pulsar chart.  request.Values never carries "initialize" here.
DeepEqual(k) ==
    /\ rel[k].values = want[k]
    /\ IsPulsarChart(k) \/ rel[k].initialize = Unset

\* The early return on equal values alone, without !needUpdate.
UpToDateIgnoringStatus(k) == DeepEqual(k)

\* Reconcile returns nil without a Helm write.
UpToDate(k) == DeepEqual(k) /\ ~NeedUpdate(rel[k].status)

\* The "initialize" value the request carries on install and on upgrade.
InstallInitialize(k) == IF IsPulsarChart(k) THEN InitTrue ELSE Unset
UpgradeInitialize(k) == IF IsPulsarChart(k) THEN InitFalse ELSE Unset

-----------------------------------------------------------------------------
(* LocalHelmReconciler.Reconcile, one action per outcome.                  *)

\* External, disabled or built-in/custom message stream: return nil.
SkipRelease(k) ==
    /\ ~Managed(k)
    /\ call' = NoCall
    /\ UNCHANGED <<dep, want, rel, initRan, faults, edits>>

\* An install whose request carries no values: the release stores the
\* chart defaults instead of the CR's dependency values.
ChartDefaults == "chart-defaults"

InstallWithoutValues(k) ==
    /\ Managed(k)
    /\ rel[k] = NoRelease
    /\ rel' = [rel EXCEPT ![k] = [values |-> ChartDefaults,
                                  initialize |-> InstallInitialize(k),
                                  status |-> "deployed"]]
    /\ call' = <<k, "install">>
    /\ initRan' = [initRan EXCEPT ![k] = (InstallInitialize(k) = InitTrue)]
    /\ UNCHANGED <<dep, want, faults, edits>>

\* !exist: helm.Install with the request's values.
Install(k) ==
    /\ Managed(k)
    /\ rel[k] = NoRelease
    /\ rel' = [rel EXCEPT ![k] = [values |-> want[k],
                                  initialize |-> InstallInitialize(k),
                                  status |-> "deployed"]]
    /\ call' = <<k, "install">>
    /\ initRan' = [initRan EXCEPT ![k] = (InstallInitialize(k) = InitTrue)]
    /\ UNCHANGED <<dep, want, faults, edits>>

\* helm.Install fails: either nothing was recorded, or a failed release
\* with the request's values was.
InstallFails(k) ==
    /\ Managed(k)
    /\ rel[k] = NoRelease
    /\ faults < MaxFaults
    /\ rel' \in {rel, [rel EXCEPT ![k] = [values |-> want[k],
                                          initialize |-> InstallInitialize(k),
                                          status |-> "failed"]]}
    /\ call' = <<k, "install">>
    /\ faults' = faults + 1
    /\ UNCHANGED <<dep, want, initRan, edits>>

\* exist, deepEqual && !needUpdate: return nil.
KeepRelease(k) ==
    /\ Managed(k)
    /\ rel[k] # NoRelease
    /\ UpToDate(k)
    /\ call' = NoCall
    /\ UNCHANGED <<dep, want, rel, initRan, faults, edits>>

\* exist, values differ or status needs it: helm.Update.
Upgrade(k) ==
    /\ Managed(k)
    /\ rel[k] # NoRelease
    /\ ~UpToDate(k)
    /\ rel' = [rel EXCEPT ![k] = [values |-> want[k],
                                  initialize |-> UpgradeInitialize(k),
                                  status |-> "deployed"]]
    /\ call' = <<k, "upgrade">>
    /\ UNCHANGED <<dep, want, initRan, faults, edits>>

\* helm.Update fails: nothing recorded, or a failed revision with the
\* request's values.
UpgradeFails(k) ==
    /\ Managed(k)
    /\ rel[k] # NoRelease
    /\ ~UpToDate(k)
    /\ faults < MaxFaults
    /\ rel' \in {rel, [rel EXCEPT ![k] = [values |-> want[k],
                                          initialize |-> UpgradeInitialize(k),
                                          status |-> "failed"]]}
    /\ call' = <<k, "upgrade">>
    /\ faults' = faults + 1
    /\ UNCHANGED <<dep, want, initRan, edits>>

-----------------------------------------------------------------------------
(* Environment.                                                            *)

\* The user edits the dependency's in-cluster values.
EditValues(k, v) ==
    /\ edits < MaxEdits
    /\ v # want[k]
    /\ want' = [want EXCEPT ![k] = v]
    /\ call' = NoCall
    /\ edits' = edits + 1
    /\ UNCHANGED <<dep, rel, initRan, faults>>

\* A release leaves the deployed state behind the operator's back.
StatusDrift(k) ==
    /\ rel[k] # NoRelease
    /\ rel[k].status = "deployed"
    /\ faults < MaxFaults
    /\ rel' = [rel EXCEPT ![k].status = "failed"]
    /\ faults' = faults + 1
    /\ call' = NoCall
    /\ UNCHANGED <<dep, want, initRan, edits>>

-----------------------------------------------------------------------------
Init ==
    /\ dep \in [external: [Kinds -> BOOLEAN],
                msgStreamType: MsgStreamTypes,
                teiEnabled: BOOLEAN]
    /\ want \in [Kinds -> Values]
    /\ rel = [k \in Kinds |-> NoRelease]
    /\ call = NoCall
    /\ initRan = [k \in Kinds |-> FALSE]
    /\ faults = 0
    /\ edits = 0

Reconcile(k) ==
    \/ SkipRelease(k)
    \/ Install(k)
    \/ InstallFails(k)
    \/ KeepRelease(k)
    \/ Upgrade(k)
    \/ UpgradeFails(k)

Next ==
    \E k \in Kinds :
        \/ Reconcile(k)
        \/ \E v \in Values : EditValues(k, v)
        \/ StatusDrift(k)

\* The CR is requeued after every error and periodically, and a Helm call
\* eventually succeeds: the successful outcomes are weakly fair.
Fairness ==
    \A k \in Kinds :
        WF_vars(Install(k) \/ KeepRelease(k) \/ Upgrade(k))

Spec == Init /\ [][Next]_vars /\ Fairness

-----------------------------------------------------------------------------
TypeOK ==
    /\ dep \in [external: [Kinds -> BOOLEAN],
                msgStreamType: MsgStreamTypes, teiEnabled: BOOLEAN]
    /\ want \in [Kinds -> Values]
    /\ rel \in [Kinds -> Release \cup {NoRelease}]
    /\ call \in {NoCall} \cup (Kinds \X {"install", "upgrade"})
    /\ initRan \in [Kinds -> BOOLEAN]
    /\ faults \in 0..MaxFaults
    /\ edits \in 0..MaxEdits

\* Reconcile upgrades a release only when its user values differ from the
\* request or it is not deployed: the "initialize" key the operator itself
\* wrote into the Pulsar release never makes an up-to-date release look
\* changed, so a reconcile loop does not upgrade Pulsar on every pass.
NoSpuriousUpgrade ==
    [][\A k \in Kinds :
         call' = <<k, "upgrade">>
            => (rel[k].values # want[k] \/ rel[k].status # "deployed")]_vars

\* Once the user stops editing and faults stop, every managed release is
\* eventually deployed with the requested values and stays so.
ReleasesConverge ==
    <>[](\A k \in Kinds :
           Managed(k) => /\ rel[k] # NoRelease
                         /\ rel[k].status = "deployed"
                         /\ rel[k].values = want[k])

\* Reconcile writes initialize=true only on the install path (line 152) and
\* forces initialize=false on every upgrade (line 179).  A Pulsar release
\* that is deployed has therefore had a successful install carrying
\* initialize=true, so the chart's cluster-metadata initialization ran.
PulsarInitialized ==
    \A k \in Kinds :
        (IsPulsarChart(k) /\ rel[k] # NoRelease /\ rel[k].status = "deployed")
            => initRan[k]

=============================================================================
