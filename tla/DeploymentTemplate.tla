------------------------- MODULE DeploymentTemplate -------------------------
(***************************************************************************)
(* The non-image-gate fields one updateDeployment pass writes into a       *)
(* component's Deployment (TestMilvus_UpdateDeployment): the replica      *)
(* count, the rocksmq persistence volume, and the config init container   *)
(* whose image is the operator's own tool image.  The pass runs on every  *)
(* reconcile, so it must be idempotent: a pass over an unchanged CR must  *)
(* not touch the pod template, or every reconcile restarts the pods.      *)
(* The Deployment's replica count is also written by an autoscaler or by  *)
(* hand, and the operator itself can be upgraded to a new tool image.     *)
(***************************************************************************)
EXTENDS Naturals, Integers, Sequences

CONSTANTS
    Images,          \* component images
    OperatorImages,  \* operator (config tool) images
    MaxReplicas,     \* largest replica count anyone sets
    MaxEdits,        \* bound on CR edits
    MaxExternal      \* bound on scaling by the autoscaler or by hand

\* The replica values a CR can carry: -1 means managed outside the CR.
ReplicaValues == {-1} \cup (0..MaxReplicas)

\* The volumes of a freshly built Deployment, and rocksmq's data volume.
BaseVolumes == <<"config", "tools">>
DataVolume  == "data"

\* No config init container in the template.
NoImage == "none"

VARIABLES
    cr,        \* [image, replicas, persistence, updateToolImage]
    opImage,   \* the running operator's tool image
    deploy,    \* [replicas, image, volumes, initImage]
    settled,   \* a pass ran and nothing it reads changed since
    edits,
    ext

vars == <<cr, opImage, deploy, settled, edits, ext>>

-----------------------------------------------------------------------------
\* A replicas rule without the externally-managed case.
ReplicasRuleIgnoringExternal(desired, current) == desired

\* A replicas rule that keeps an externally managed count even at zero.
ReplicasRuleNoResume(desired, current) ==
    IF desired = -1 THEN current ELSE desired

\* The replicas case table: -1 keeps the Deployment's count, except that a
\* Deployment at 0 is restarted with 1; any other value is written as is.
ReplicasRule(desired, current) ==
    CASE desired = -1 /\ current = 0 -> 1
      [] desired = -1               -> current
      [] OTHER                      -> desired

\* GetVolumeIndex: the index of a volume by name, or 0 when absent.
VolumeIndex(vols, v) ==
    IF \E i \in 1..Len(vols) : vols[i] = v
    THEN CHOOSE i \in 1..Len(vols) : vols[i] = v
    ELSE 0

\* A volume update that appends without looking for the volume first.
AddDataVolumeAppending(vols) ==
    IF cr.persistence THEN Append(vols, DataVolume) ELSE vols

\* Persistence enabled: the data volume is added once; an existing one
\* (existing claim or not) is updated in place.
AddDataVolume(vols) ==
    IF cr.persistence /\ VolumeIndex(vols, DataVolume) = 0
    THEN Append(vols, DataVolume)
    ELSE vols

\* The config init container: added when missing, and its image refreshed
\* to the operator's only when the rest of the pod template changed or
\* UpdateToolImage forces it; otherwise left as it is.
ConfigInitImage(templateChanged) ==
    IF \/ deploy.initImage = NoImage
       \/ templateChanged
       \/ cr.updateToolImage
    THEN opImage
    ELSE deploy.initImage

\* One updateDeployment pass (image in mode All; the rolling gate is
\* RollingUpdate's).
UpdateDeployment ==
    LET vols    == AddDataVolume(deploy.volumes)
        changed == vols # deploy.volumes \/ cr.image # deploy.image IN
    /\ deploy' = [replicas  |-> ReplicasRule(cr.replicas, deploy.replicas),
                  image     |-> cr.image,
                  volumes   |-> vols,
                  initImage |-> ConfigInitImage(changed)]
    /\ settled' = TRUE
    /\ UNCHANGED <<cr, opImage, edits, ext>>

-----------------------------------------------------------------------------
(* Environment.                                                            *)

\* The user edits one field of the CR.
EditCR(f) ==
    /\ edits < MaxEdits
    /\ f \in [image: Images, replicas: ReplicaValues, persistence: BOOLEAN,
              updateToolImage: BOOLEAN]
    /\ f # cr
    /\ cr' = f
    /\ settled' = FALSE
    /\ edits' = edits + 1
    /\ UNCHANGED <<opImage, deploy, ext>>

\* An autoscaler or a user scales the Deployment directly.
ExternalScale(n) ==
    /\ ext < MaxExternal
    /\ n # deploy.replicas
    /\ deploy' = [deploy EXCEPT !.replicas = n]
    /\ ext' = ext + 1
    /\ UNCHANGED <<cr, opImage, settled, edits>>

\* The operator is upgraded; with UpdateToolImage the next pass must roll
\* the new tool image out, so the Deployment is no longer settled.
OperatorUpgrade(o) ==
    /\ edits < MaxEdits
    /\ o # opImage
    /\ opImage' = o
    /\ settled' = (settled /\ ~cr.updateToolImage)
    /\ edits' = edits + 1
    /\ UNCHANGED <<cr, deploy, ext>>

Init ==
    /\ cr \in [image: Images, replicas: ReplicaValues, persistence: BOOLEAN,
               updateToolImage: BOOLEAN]
    /\ opImage \in OperatorImages
    /\ deploy \in [replicas: 0..MaxReplicas, image: Images,
                   volumes: {BaseVolumes}, initImage: {NoImage}]
    /\ settled = FALSE
    /\ edits = 0
    /\ ext = 0

Next ==
    \/ UpdateDeployment
    \/ \E f \in [image: Images, replicas: ReplicaValues, persistence: BOOLEAN,
                 updateToolImage: BOOLEAN] : EditCR(f)
    \/ \E n \in 0..MaxReplicas : ExternalScale(n)
    \/ \E o \in OperatorImages : OperatorUpgrade(o)

\* The CR is reconciled periodically for ever.
Spec == Init /\ [][Next]_vars /\ WF_vars(UpdateDeployment)

-----------------------------------------------------------------------------
\* The pod template: what a change of restarts the pods.
PodTemplate == <<deploy.image, deploy.volumes, deploy.initImage>>

TypeOK ==
    /\ cr \in [image: Images, replicas: ReplicaValues, persistence: BOOLEAN,
               updateToolImage: BOOLEAN]
    /\ opImage \in OperatorImages
    /\ deploy.replicas \in 0..MaxReplicas
    /\ deploy.image \in Images
    /\ deploy.volumes \in Seq({"config", "tools", DataVolume})
    /\ deploy.initImage \in OperatorImages \cup {NoImage}
    /\ settled \in BOOLEAN
    /\ edits \in 0..MaxEdits
    /\ ext \in 0..MaxExternal

\* A pass over a CR that has not changed since the last pass leaves the pod
\* template alone, whatever the autoscaler did to the replica count and
\* whichever operator image now runs (unless UpdateToolImage asks for it):
\* reconciling never restarts the pods by itself.
NoNeedlessRestart ==
    [][settled /\ UpdateDeployment => PodTemplate' = PodTemplate]_vars

\* Once edits and outside scaling stop, the Deployment ends up with the
\* CR's image and replica count for good, and a cluster whose replicas are
\* managed outside the CR is never left scaled to zero.
DeploymentConverges ==
    <>[](/\ deploy.image = cr.image
         /\ cr.replicas >= 0 => deploy.replicas = cr.replicas
         /\ cr.replicas = -1 => deploy.replicas >= 1
         /\ cr.persistence => VolumeIndex(deploy.volumes, DataVolume) > 0)

=============================================================================
