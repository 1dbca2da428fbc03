---------------------------- MODULE StatusProbe ----------------------------
(***************************************************************************)
(* The status syncer composed with the shared endpoint cache.  In          *)
(* UpdateStatusRoutine the dependency conditions are tasks of the fan-out  *)
(* runner (RunWithResult); each task asks the endpoint cache (Get, then    *)
(* TryStartProbeFor) and returns at once with the cached condition.  Here  *)
(* every CR's routine is a caller of EndpointProbe for the etcd endpoints  *)
(* all CRs share, and the depsOk fact StatusSyncer's routine reads is the  *)
(* condition that CR's own call returned.  The other cluster facts are     *)
(* fixed: pods ready, not stopping, components updated, so that the etcd  *)
(* condition alone decides the CR's health.  The informer cache is taken  *)
(* as current (InformerLag FALSE): StatusSyncer checks the lag on its own, *)
(* and without it the two loops never hold one CR, so one caller per CR   *)
(* is one caller per running routine.                                     *)
(***************************************************************************)
EXTENDS Naturals

CONSTANTS
    CRs,               \* Milvus CRs, one status routine (caller) each
    Etcd,              \* the endpoint set every CR depends on
    MaxSyncEnv,        \* bound on the users' spec edits
    MaxFaults,         \* bound on aborted routines
    MaxHealthChanges,  \* bound on etcd going down or coming back
    MaxTimeouts        \* bound on probes that hit their deadline

VARIABLES
    st, queue, fresh, informer, synced, senv, faults,        \* StatusSyncer
    health, cache, marker, probes, pc, returned, penv, timeouts, \* EndpointProbe
    phase    \* per CR: whether this routine's condition tasks returned

syncVars  == <<st, queue, fresh, informer, synced, senv, faults>>
probeVars == <<health, cache, marker, probes, pc, returned, penv, timeouts>>
vars == <<syncVars, probeVars, phase>>

Probe == INSTANCE EndpointProbe
    WITH Callers <- CRs, Keys <- {Etcd}, Unprobed <- {},
         env <- penv, MaxEnv <- MaxHealthChanges

\* What the routine of a CR sees: its own call's etcd condition, and the
\* fixed facts.
World == [cr \in CRs |-> [depsOk |-> returned[cr] = Probe!CondTrue,
                          podsReady |-> TRUE, stopping |-> FALSE,
                          updated |-> TRUE]]

Syncer == INSTANCE StatusSyncer
    WITH world <- World, InformerLag <- FALSE, env <- senv,
         MaxEnv <- MaxSyncEnv

Asking == "asking"
Asked  == "asked"

Listed(cr) == \E l \in Syncer!Loops : queue[l][cr] # Syncer!NotListed

-----------------------------------------------------------------------------
ListCRs(l) ==
    /\ UNCHANGED <<probeVars, phase>>
    /\ Syncer!ListCRs(l)

\* RunWithResult starts the condition task of a listed CR: Get.
GetDeps(cr) ==
    /\ Listed(cr)
    /\ phase[cr] = Asking
    /\ Probe!Get(cr, Etcd)
    /\ UNCHANGED <<syncVars, phase>>

\* The task tries to start a probe and returns the cached condition.
AskDeps(cr) ==
    /\ Probe!TryStartProbeFor(cr)
    /\ phase' = [phase EXCEPT ![cr] = Asked]
    /\ UNCHANGED <<syncVars>>

\* A routine that keeps the conditions its tasks returned for the next
\* cycle instead of asking again.
RoutineReusingConditions(l, cr) ==
    /\ phase[cr] = Asked
    /\ UNCHANGED <<probeVars, phase>>
    /\ Syncer!UpdateStatusRoutine(l, cr)

\* The rest of UpdateStatusRoutine with the returned conditions, persisted;
\* the next cycle asks again.
Routine(l, cr) ==
    /\ phase[cr] = Asked
    /\ phase' = [phase EXCEPT ![cr] = Asking]
    /\ UNCHANGED <<probeVars>>
    /\ Syncer!UpdateStatusRoutine(l, cr)

Conflict(l, cr) ==
    /\ phase[cr] = Asked
    /\ phase' = [phase EXCEPT ![cr] = Asking]
    /\ UNCHANGED <<probeVars>>
    /\ Syncer!StatusConflict(l, cr)

\* A task, the deploy-status list or the ingress get fails once the fan-out
\* has returned.
Aborted(l, cr) ==
    /\ pc[cr] = Probe!Idle
    /\ phase' = [phase EXCEPT ![cr] = Asking]
    /\ UNCHANGED <<probeVars>>
    /\ Syncer!RoutineAborted(l, cr)

SetDefaultStatus(cr) ==
    /\ UNCHANGED <<probeVars, phase>>
    /\ Syncer!SetDefaultStatus(cr)

EditCR(cr) ==
    /\ UNCHANGED <<probeVars, phase>>
    /\ Syncer!EditCR(cr)

ProbeStep ==
    /\ \/ Probe!ProbeReturns(Etcd)
       \/ Probe!ProbeTimesOut(Etcd)
       \/ Probe!HealthChange(Etcd)
    /\ UNCHANGED <<syncVars, phase>>

-----------------------------------------------------------------------------
Init ==
    /\ Probe!Init
    /\ phase = [cr \in CRs |-> Asking]
    /\ Syncer!Init

Next ==
    \/ \E l \in Syncer!Loops :
          \/ ListCRs(l)
          \/ \E cr \in CRs : Routine(l, cr) \/ Conflict(l, cr) \/ Aborted(l, cr)
    \/ \E cr \in CRs :
          GetDeps(cr) \/ AskDeps(cr) \/ SetDefaultStatus(cr) \/ EditCR(cr)
    \/ ProbeStep

\* The loops' timers, the runner's tasks, the reconciler and a started
\* probe all make progress; users, etcd and deadlines are not fair.
Fairness ==
    /\ \A l \in Syncer!Loops :
          /\ WF_vars(ListCRs(l))
          /\ \A cr \in CRs : WF_vars(Routine(l, cr) \/ Conflict(l, cr))
    /\ \A cr \in CRs :
          /\ WF_vars(GetDeps(cr))
          /\ WF_vars(AskDeps(cr))
          /\ WF_vars(SetDefaultStatus(cr))
    /\ WF_vars(Probe!ProbeReturns(Etcd) /\ UNCHANGED <<syncVars, phase>>)

Spec == Init /\ [][Next]_vars /\ Fairness

-----------------------------------------------------------------------------
\* Once etcd stops going up and down, every CR's persisted etcd condition
\* eventually matches etcd's real health for good: stale-while-revalidate
\* never freezes a cached answer into the CR status, however the CRs'
\* routines race for the probe marker and whatever a timed-out probe left.
DepsReflectHealth ==
    <>[](\A cr \in CRs : st[cr].depsReady = health[Etcd])

=============================================================================
