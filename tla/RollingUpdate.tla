--------------------------- MODULE RollingUpdate ---------------------------
(***************************************************************************)
(* Rolling image upgrade/downgrade of a Milvus cluster.                   *)
(*                                                                         *)
(* Actors and the state each one owns:                                     *)
(*  - the user edits the Milvus CR spec (image, imageUpdateMode); every    *)
(*    spec edit bumps the CR's metadata.generation;                        *)
(*  - the deployment updater (updateDeployment, one component per pass)   *)
(*    sets a Deployment's template image, gated by                         *)
(*    RollingUpdateImageDependencyReady;                                   *)
(*  - the Kubernetes deployment controller observes a new template         *)
(*    generation and rolls the pods over;                                  *)
(*  - the status syncer lists the Deployments into                         *)
(*    status.componentsDeployStatus (ComponentsDeployStatusUpdater.Update) *)
(*    and later persists that status through the status sub-resource.      *)
(* The updater only ever sees the persisted status, which may lag the      *)
(* Deployments: that lag is what the gating has to survive.               *)
(***************************************************************************)
EXTENDS Naturals, FiniteSets, Graphs

CONSTANTS
    Components,     \* component identities (model values)
    UpgradeEdges,   \* <<c, d>>: c adopts a new image only after d has it
    Images,         \* image versions, ordered by <
    UpdateModes,    \* what the user may declare: Rolling (the direction
                    \* of the change) and/or All
    MaxCRGen        \* bound on spec edits (CR metadata.generation)

ASSUME Images \subseteq Nat /\ Cardinality(Images) >= 2
ASSUME UpgradeEdges \subseteq Components \X Components
ASSUME MaxCRGen \in Nat \ {0}

\* The static dependency graph of component identities.
DepGraph == [node |-> Components, edge |-> UpgradeEdges]
ASSUME IsDag(DepGraph)

Upgrade   == "RollingUpgrade"
Downgrade == "RollingDowngrade"
All       == "All"
Rolling   == "Rolling"

ASSUME UpdateModes \subseteq {Rolling, All}

\* Sentinel for a component with no entry in status.componentsDeployStatus.
NoStatus == [missing |-> TRUE]

VARIABLES
    spec,      \* [image, mode]: spec.components.image / imageUpdateMode
    crGen,     \* CR metadata.generation
    deploy,    \* per component Deployment: template image, generation,
               \* status.observedGeneration, Progressing=NewReplicaSetAvailable
    pods,      \* per component: the set of images its running pods run
    status,    \* persisted CR status: [observedGeneration, ds, updated]
    pending    \* status computed by the syncer, not yet persisted

vars == <<spec, crGen, deploy, pods, status, pending>>

DeployStatus ==
    [image: Images, generation: Nat, observedGeneration: Nat,
     complete: BOOLEAN]

CRStatus ==
    [observedGeneration: Nat, ds: [Components -> DeployStatus \cup {NoStatus}],
     updated: BOOLEAN]

-----------------------------------------------------------------------------
(* The deployment updater's image rule.                                    *)

\* The components whose deploy status gates an image change of c: the
\* components c depends on when upgrading, its dependents when downgrading.
Dependencies(c) ==
    IF spec.mode = Upgrade
    THEN Successors(DepGraph, c)
    ELSE Successors(Transpose(DepGraph), c)

\* A check that trusts the recorded rollout state without comparing the
\* Deployment's generation with the generation its controller observed.
IsImageUpdatedIgnoringGeneration(s) ==
    /\ s # NoStatus
    /\ s.image = spec.image
    /\ s.complete

\* A check with the generation comparison turned the wrong way round.
IsImageUpdatedInvertedGeneration(s) ==
    /\ s # NoStatus
    /\ s.image = spec.image
    /\ s.generation < s.observedGeneration
    /\ s.complete

\* The recorded status of d shows the desired image fully rolled out for
\* the Deployment generation it was recorded at.  A missing record is
\* not updated (fail closed).
IsImageUpdated(s) ==
    /\ s # NoStatus
    /\ s.image = spec.image
    /\ s.generation = s.observedGeneration
    /\ s.complete

\* A gate that trusts a status computed before the latest spec edit.
RollingUpdateImageDependencyReadyAnyGeneration(c) ==
    \A d \in Dependencies(c) : IsImageUpdated(status.ds[d])

\* The status must have been computed for the current CR generation, and
\* every dependency must be recorded as updated.
RollingUpdateImageDependencyReady(c) ==
    /\ status.observedGeneration >= crGen
    /\ \A d \in Dependencies(c) : IsImageUpdated(status.ds[d])

\* A mode switch that only knows the rolling modes: in mode All no
\* component ever takes the image.
ImageGateUnknownAll(c) ==
    /\ spec.mode # All
    /\ RollingUpdateImageDependencyReady(c)

\* The image mode switch of updateDeployment: mode All takes the desired
\* image at once, the rolling modes only through the dependency gate.
ImageGate(c) ==
    \/ spec.mode = All
    \/ RollingUpdateImageDependencyReady(c)

\* One updater pass over component c.  When the gate is closed the
\* template keeps the image it already has; a changed template bumps the
\* Deployment's generation (done by the API server on update).
UpdateDeployment(c) ==
    /\ deploy[c].image # spec.image
    /\ ImageGate(c)
    /\ deploy' = [deploy EXCEPT ![c].image = spec.image,
                                ![c].generation = @ + 1]
    /\ UNCHANGED <<spec, crGen, pods, status, pending>>

-----------------------------------------------------------------------------
(* The status syncer's deploy-status aggregation and status write.         *)

\* A blocking-component search that stops at the first updated component.
MilvusUpdatedAnyComponent(ds) == \E c \in Components : IsImageUpdated(ds[c])

\* GetMilvusUpdatedCondition: True when every component's deploy status
\* shows the desired image rolled out; otherwise False, with the rolling
\* direction as reason and a blocking component in the message (reason
\* and message are not modelled).
MilvusUpdated(ds) == \A c \in Components : IsImageUpdated(ds[c])

\* One status cycle: ComponentsDeployStatusUpdater.Update lists the owned
\* Deployments and records image, generation and rollout state per
\* component, for the CR generation read at the start of the cycle; the
\* Updated condition is then computed from that fresh record.
ListDeployStatus ==
    LET ds == [c \in Components |->
                 [image |-> deploy[c].image,
                  generation |-> deploy[c].generation,
                  observedGeneration |-> deploy[c].observedGeneration,
                  complete |-> deploy[c].complete]] IN
    /\ pending = NoStatus
    /\ pending' = [observedGeneration |-> crGen, ds |-> ds,
                   updated |-> MilvusUpdated(ds)]
    /\ UNCHANGED <<spec, crGen, deploy, pods, status>>

\* A status write issued whether or not a status was computed this cycle.
PersistStatusUnguarded ==
    /\ status' = pending
    /\ pending' = NoStatus
    /\ UNCHANGED <<spec, crGen, deploy, pods>>

\* Status().Update: the whole computed status replaces the persisted one.
PersistStatus ==
    /\ pending # NoStatus
    /\ status' = pending
    /\ pending' = NoStatus
    /\ UNCHANGED <<spec, crGen, deploy, pods>>

-----------------------------------------------------------------------------
(* Environment: the user and the Kubernetes deployment controller.         *)

\* The user sets a new image and declares either All or the rolling mode
\* matching the direction of the change.
EditImage(i, m) ==
    /\ crGen < MaxCRGen
    /\ i # spec.image
    /\ spec' = [image |-> i,
                mode |-> CASE m = All          -> All
                           [] i > spec.image   -> Upgrade
                           [] OTHER            -> Downgrade]
    /\ crGen' = crGen + 1
    /\ UNCHANGED <<deploy, pods, status, pending>>

\* The controller observes a new template generation; the rollout is
\* complete at once only if the pods already all run that image.
ObserveGeneration(c) ==
    /\ deploy[c].observedGeneration < deploy[c].generation
    /\ deploy' = [deploy EXCEPT ![c].observedGeneration = deploy[c].generation,
                                ![c].complete = (pods[c] = {deploy[c].image})]
    /\ UNCHANGED <<spec, crGen, pods, status, pending>>

\* New-ReplicaSet pods come up beside the old ones.
StartPods(c) ==
    /\ deploy[c].observedGeneration = deploy[c].generation
    /\ deploy[c].image \notin pods[c]
    /\ pods' = [pods EXCEPT ![c] = @ \cup {deploy[c].image}]
    /\ UNCHANGED <<spec, crGen, deploy, status, pending>>

\* Old pods are scaled down and the rollout is reported complete.
FinishRollout(c) ==
    /\ deploy[c].observedGeneration = deploy[c].generation
    /\ deploy[c].image \in pods[c]
    /\ ~deploy[c].complete
    /\ pods' = [pods EXCEPT ![c] = {deploy[c].image}]
    /\ deploy' = [deploy EXCEPT ![c].complete = TRUE]
    /\ UNCHANGED <<spec, crGen, status, pending>>

-----------------------------------------------------------------------------
InitImage == CHOOSE i \in Images : \A j \in Images : i <= j

\* A cluster fully rolled out at the oldest image, its status up to date.
Init ==
    /\ spec = [image |-> InitImage, mode |-> Upgrade]
    /\ crGen = 1
    /\ deploy = [c \in Components |->
                   [image |-> InitImage, generation |-> 1,
                    observedGeneration |-> 1, complete |-> TRUE]]
    /\ pods = [c \in Components |-> {InitImage}]
    /\ status = [observedGeneration |-> 1,
                 ds |-> [c \in Components |-> deploy[c]],
                 updated |-> TRUE]
    /\ pending = NoStatus

Controllers ==
    \/ \E c \in Components :
          \/ UpdateDeployment(c)
          \/ ObserveGeneration(c)
          \/ StartPods(c)
          \/ FinishRollout(c)
    \/ ListDeployStatus
    \/ PersistStatus

Next ==
    \/ \E i \in Images, m \in UpdateModes : EditImage(i, m)
    \/ Controllers

\* The updater is requeued, the syncer runs on a timer and the deployment
\* controller always resyncs: none of them stops while it has work.  The
\* user is not fair.
Fairness ==
    /\ \A c \in Components :
          /\ WF_vars(UpdateDeployment(c))
          /\ WF_vars(ObserveGeneration(c))
          /\ WF_vars(StartPods(c))
          /\ WF_vars(FinishRollout(c))
    /\ WF_vars(ListDeployStatus)
    /\ WF_vars(PersistStatus)

Spec == Init /\ [][Next]_vars /\ Fairness

-----------------------------------------------------------------------------
TypeOK ==
    /\ spec \in [image: Images, mode: {Upgrade, Downgrade, All}]
    /\ crGen \in 1..MaxCRGen
    /\ deploy \in [Components -> DeployStatus]
    /\ pods \in [Components -> (SUBSET Images) \ {{}}]
    /\ status \in CRStatus
    /\ pending \in CRStatus \cup {NoStatus}

\* No component ever runs a pod of a newer image than a pod of a component
\* it depends on: an upgrade never strands a dependent on a new protocol
\* against an old dependency, and a downgrade never takes a dependency
\* back under a dependent that still runs the newer image.  This is what
\* RollingUpdateImageDependencyReady must guarantee from a status that
\* lags the Deployments.
CompatiblePeers ==
    \A e \in UpgradeEdges :
        \A i \in pods[e[1]], j \in pods[e[2]] : i <= j

Abstract == INSTANCE RollingOrder
    WITH target <- spec,
         tmpl <- [c \in Components |-> deploy[c].image],
         run <- pods

\* The updater, the syncer and the Deployment controller together implement
\* the rolling order: a template takes the new image only while everyone
\* it waits for already runs nothing but that image (not merely while the
\* persisted status says so), and nothing that may proceed waits forever.
RefinesRollingOrder == Abstract!Spec

\* The persisted Updated condition, when True for the CR generation in
\* force, means every component already runs nothing but the desired
\* image: a Deployment whose controller has not yet observed the new
\* template never lets the syncer report a rollout as finished (and move
\* the CR to the slow loop) while old pods still serve.
UpdatedMeansRolledOut ==
    (status.updated /\ status.observedGeneration = crGen)
        => \A c \in Components : pods[c] = {spec.image}

\* Once the user stops editing, every component eventually runs only the
\* desired image and the persisted status says Updated: the gating never
\* blocks a rollout for good.
RolloutCompletes ==
    <>[](/\ \A c \in Components : pods[c] = {spec.image}
         /\ status.updated)

=============================================================================
