--------------------------- MODULE StatusSyncer ---------------------------
(***************************************************************************)
(* MilvusStatusSyncer: two periodic loops re-list the Milvus CRs and run  *)
(* UpdateStatusRoutine on each CR of their bucket.                         *)
(*  - syncUnealthyOrUpdating (fast loop): every other CR with a status;   *)
(*  - syncHealthyUpdated (slow loop): Healthy CRs whose Updated condition *)
(*    is True.                                                             *)
(* UpdateStatusRoutine works on the CR object its loop listed: it computes *)
(* the dependency conditions (first error aborts), the deploy status, the  *)
(* MilvusReady and Updated conditions, then the health from the listed     *)
(* status.status and persists through Status().Update, which the API       *)
(* server rejects when the object's resourceVersion changed since it was   *)
(* listed.  The two loops run concurrently against the same store, and   *)
(* List reads the manager's informer cache, which catches up with the     *)
(* store only when the watch event of a write arrives.                    *)
(* The cluster facts the routine reads (dependency probes, pod readiness,  *)
(* stopping, components updated) are the environment, `world`.            *)
(***************************************************************************)
EXTENDS Naturals

CONSTANTS
    CRs,          \* Milvus CRs (model values)
    MaxEnv,       \* bound on changes of the cluster facts
    MaxFaults,    \* bound on aborted routines (store or runner errors)
    InformerLag   \* whether List's informer cache can lag the store

Unset     == ""
Pending   == "Pending"
Healthy   == "Healthy"
Unhealthy == "Unhealthy"
Stopped   == "Stopped"
States    == {Unset, Pending, Healthy, Unhealthy, Stopped}

Fast == "fast"
Slow == "slow"
Loops == {Fast, Slow}

\* A CR the loop's current pass does not (or no longer) hold.
NotListed == [none |-> TRUE]

VARIABLES
    world,    \* per CR: depsOk, podsReady, stopping, updated
    st,       \* per CR persisted status: status.status and its conditions
    queue,    \* per loop, per CR: the CR status as listed, or NotListed
    fresh,    \* per loop, per CR: the listed resourceVersion is still current
    informer, \* per CR: the status in the informer cache List reads
    synced,   \* per CR: the cache holds the store's latest resourceVersion
    env,
    faults

vars == <<world, st, queue, fresh, informer, synced, env, faults>>

Facts  == [depsOk: BOOLEAN, podsReady: BOOLEAN, stopping: BOOLEAN,
           updated: BOOLEAN]
Status == [state: States, depsReady: BOOLEAN, ready: BOOLEAN,
           updated: BOOLEAN]

-----------------------------------------------------------------------------
\* MilvusHealthStatusInfo.GetMilvusHealthStatus: stopping wins, then
\* healthy; a CR that never became ready (or resumes from Stopped) stays
\* Pending, any other unhealthy CR is Unhealthy.
GetMilvusHealthStatus(lastState, isHealthy, isStopping) ==
    CASE isStopping -> Stopped
      [] isHealthy  -> Healthy
      [] lastState \in {Unset, Pending, Stopped} -> Pending
      [] OTHER -> Unhealthy

\* syncHealthyUpdated's filter.
InSlowBucket(s) ==
    /\ s.state = Healthy
    /\ s.updated

\* The fast filter as its name reads: Unhealthy, or Updated not True.
InFastBucketUnhealthyOrUpdating(s) ==
    /\ s.state # Unset
    /\ s.state = Unhealthy \/ ~s.updated

\* syncUnealthyOrUpdating's filter: every CR with a status that the slow
\* loop does not take.
InFastBucket(s) ==
    /\ s.state # Unset
    /\ ~InSlowBucket(s)

InBucket(l, s) == IF l = Fast THEN InFastBucket(s) ELSE InSlowBucket(s)

\* The status UpdateStatusRoutine computes for the listed status `last`:
\* the dependency conditions, MilvusReady (which requires them), Updated,
\* and the health from the listed status.status.
ComputedStatus(last, w) ==
    LET ready == w.depsOk /\ w.podsReady /\ ~w.stopping IN
    [state     |-> GetMilvusHealthStatus(last.state, ready, w.stopping),
     depsReady |-> w.depsOk,
     ready     |-> ready,
     updated   |-> w.updated]

\* Status().Update succeeds only on the object version that was listed.
NoConflict(l, cr) == fresh[l][cr]

\* Every write of a CR moves its resourceVersion past what the loops listed.
Bump(cr) == [l \in Loops |-> [fresh[l] EXCEPT ![cr] = FALSE]]

\* ... and leaves the informer cache behind until its watch event arrives.
Lag(cr) == IF InformerLag THEN [synced EXCEPT ![cr] = FALSE] ELSE synced

\* What List returns, and whether each object is at the latest version.
Cached   == IF InformerLag THEN informer ELSE st
Current  == IF InformerLag THEN synced ELSE [cr \in CRs |-> TRUE]

-----------------------------------------------------------------------------
(* The loops.                                                              *)

\* A List that takes the cached objects as the store's latest.
ListCRsTrustingCache(l) ==
    /\ \A cr \in CRs : queue[l][cr] = NotListed
    /\ queue' = [queue EXCEPT ![l] = [cr \in CRs |->
                    IF InBucket(l, informer[cr]) THEN informer[cr] ELSE NotListed]]
    /\ fresh' = [fresh EXCEPT ![l] = [cr \in CRs |-> TRUE]]
    /\ UNCHANGED <<world, st, informer, synced, env, faults>>

\* A loop's timer fires once its previous pass is done: it lists the CRs
\* from the informer cache and keeps those of its bucket, as cached; an
\* object the cache has not caught up with carries an old resourceVersion.
ListCRs(l) ==
    /\ \A cr \in CRs : queue[l][cr] = NotListed
    /\ queue' = [queue EXCEPT ![l] = [cr \in CRs |->
                    IF InBucket(l, Cached[cr]) THEN Cached[cr] ELSE NotListed]]
    /\ fresh' = [fresh EXCEPT ![l] = Current]
    /\ UNCHANGED <<world, st, informer, synced, env, faults>>

\* UpdateStatusRoutine on a listed CR, persisted.
UpdateStatusRoutine(l, cr) ==
    /\ queue[l][cr] # NotListed
    /\ NoConflict(l, cr)
    /\ st' = [st EXCEPT ![cr] = ComputedStatus(queue[l][cr], world[cr])]
    /\ queue' = [queue EXCEPT ![l][cr] = NotListed]
    /\ fresh' = Bump(cr)
    /\ synced' = Lag(cr)
    /\ UNCHANGED <<informer, world, env, faults>>

\* The status write is rejected: the CR changed since the list.
StatusConflict(l, cr) ==
    /\ queue[l][cr] # NotListed
    /\ ~NoConflict(l, cr)
    /\ queue' = [queue EXCEPT ![l][cr] = NotListed]
    /\ UNCHANGED <<world, st, fresh, env, faults, informer, synced>>

\* An aborted routine that has already written the conditions it computed
\* into the CR it persists, keeping the old health.
RoutineAbortedPersistingConditions(l, cr) ==
    /\ queue[l][cr] # NotListed
    /\ faults < MaxFaults
    /\ st' = [st EXCEPT ![cr] = [ComputedStatus(queue[l][cr], world[cr])
                                    EXCEPT !.state = st[cr].state]]
    /\ queue' = [queue EXCEPT ![l][cr] = NotListed]
    /\ fresh' = Bump(cr)
    /\ synced' = Lag(cr)
    /\ faults' = faults + 1
    /\ UNCHANGED <<informer, world, env>>

\* A condition task, the deploy-status list or the ingress get fails: the
\* routine returns the error and nothing is persisted.
RoutineAborted(l, cr) ==
    /\ queue[l][cr] # NotListed
    /\ faults < MaxFaults
    /\ queue' = [queue EXCEPT ![l][cr] = NotListed]
    /\ faults' = faults + 1
    /\ UNCHANGED <<world, st, fresh, env, informer, synced>>

\* A default that replaces the whole status rather than setting its state.
SetDefaultStatusReplacing(cr) ==
    /\ st[cr].state = Unset
    /\ st' = [st EXCEPT ![cr] = [state |-> Pending]]
    /\ fresh' = Bump(cr)
    /\ synced' = Lag(cr)
    /\ UNCHANGED <<informer, world, queue, env, faults>>

\* The reconciler gives a new CR its default status.
SetDefaultStatus(cr) ==
    /\ st[cr].state = Unset
    /\ st' = [st EXCEPT ![cr].state = Pending]
    /\ fresh' = Bump(cr)
    /\ synced' = Lag(cr)
    /\ UNCHANGED <<informer, world, queue, env, faults>>

-----------------------------------------------------------------------------
\* The cluster changes: a dependency or pod readiness flips, the user
\* stops or resumes the cluster, a rollout starts or ends.
WorldChange(cr, f) ==
    /\ env < MaxEnv
    /\ f \in Facts
    /\ f # world[cr]
    /\ world' = [world EXCEPT ![cr] = f]
    /\ env' = env + 1
    /\ UNCHANGED <<st, queue, fresh, faults, informer, synced>>

\* The watch event of the CR's latest write reaches the informer cache.
CacheSync(cr) ==
    /\ InformerLag
    /\ ~synced[cr]
    /\ informer' = [informer EXCEPT ![cr] = st[cr]]
    /\ synced' = [synced EXCEPT ![cr] = TRUE]
    /\ UNCHANGED <<world, st, queue, fresh, env, faults>>

\* The user edits the CR's spec: its resourceVersion moves on.
EditCR(cr) ==
    /\ env < MaxEnv
    /\ fresh' = Bump(cr)
    /\ synced' = Lag(cr)
    /\ env' = env + 1
    /\ UNCHANGED <<informer, world, st, queue, faults>>

Init ==
    /\ world \in [CRs -> Facts]
    /\ st = [cr \in CRs |-> [state |-> Unset, depsReady |-> FALSE,
                             ready |-> FALSE, updated |-> FALSE]]
    /\ queue = [l \in Loops |-> [cr \in CRs |-> NotListed]]
    /\ fresh = [l \in Loops |-> [cr \in CRs |-> FALSE]]
    /\ informer = st
    /\ synced = [cr \in CRs |-> TRUE]
    /\ env = 0
    /\ faults = 0

Next ==
    \/ \E l \in Loops :
          \/ ListCRs(l)
          \/ \E cr \in CRs :
                \/ UpdateStatusRoutine(l, cr)
                \/ StatusConflict(l, cr)
                \/ RoutineAborted(l, cr)
    \/ \E cr \in CRs :
          \/ SetDefaultStatus(cr)
          \/ \E f \in Facts : WorldChange(cr, f)
          \/ EditCR(cr)
          \/ CacheSync(cr)

\* Both loops run on timers for the life of the process and every routine
\* they start returns; the reconciler handles every new CR; the watch
\* delivers every write to the informer cache.
Fairness ==
    /\ \A l \in Loops :
          /\ WF_vars(ListCRs(l))
          /\ \A cr \in CRs :
                WF_vars(UpdateStatusRoutine(l, cr) \/ StatusConflict(l, cr))
    /\ \A cr \in CRs : WF_vars(SetDefaultStatus(cr)) /\ WF_vars(CacheSync(cr))

Spec == Init /\ [][Next]_vars /\ Fairness

-----------------------------------------------------------------------------
TypeOK ==
    /\ world \in [CRs -> Facts]
    /\ st \in [CRs -> Status]
    /\ queue \in [Loops -> [CRs -> Status \cup {NotListed}]]
    /\ fresh \in [Loops -> [CRs -> BOOLEAN]]
    /\ informer \in [CRs -> Status]
    /\ synced \in [CRs -> BOOLEAN]
    /\ env \in 0..MaxEnv
    /\ faults \in 0..MaxFaults

\* A cluster that has been Healthy or Unhealthy never goes back to Pending,
\* even when a loop lists it from an informer cache that still holds its
\* Pending status and the cluster is not ready: the routine would compute
\* Pending from that stale object, and only the resourceVersion check of
\* Status().Update keeps it out of the store.
NoRegressionToPending ==
    [][\A cr \in CRs :
         st'[cr].state = Pending => st[cr].state \in {Unset, Pending, Stopped}]_vars

\* The persisted status never says Healthy while a persisted dependency
\* condition or MilvusReady is False.
HealthyOnlyWhenReady ==
    \A cr \in CRs :
        st[cr].state = Healthy => st[cr].depsReady /\ st[cr].ready

\* Once the cluster stops changing, every CR's persisted status eventually
\* matches it for good: no CR falls out of both loops' buckets.
StatusSettles ==
    <>[](\A cr \in CRs :
           LET w == world[cr]
               ready == w.depsOk /\ w.podsReady /\ ~w.stopping IN
           /\ st[cr].depsReady = w.depsOk
           /\ st[cr].updated = w.updated
           /\ st[cr].ready = ready
           /\ w.stopping => st[cr].state = Stopped
           /\ ready => st[cr].state = Healthy
           /\ ~ready /\ ~w.stopping => st[cr].state \in {Pending, Unhealthy})

=============================================================================
