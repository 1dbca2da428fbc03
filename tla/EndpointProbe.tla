--------------------------- MODULE EndpointProbe ---------------------------
(***************************************************************************)
(* The endpoint condition cache and prober behind the dependency           *)
(* conditions (spec.md 4.1, 4.2; the cache interface is the one            *)
(* mockEndpointCheckCache implements in the controller tests).             *)
(*                                                                         *)
(* Status routines of many CRs ask for the condition of a shared endpoint  *)
(* set.  A caller reads the cache (Get), then tries to take the key's      *)
(* in-flight marker (TryStartProbeFor): the winner starts a probe, and    *)
(* every caller returns at once with the cached condition, except the one *)
(* that starts the first probe of a cold key: as the controller tests     *)
(* show (a fresh syncer's first etcd, Pulsar and Kafka conditions are     *)
(* False, not Unknown), it waits for that probe, bounded by the deadline.  *)
(* A caller that loses that race returns Unknown.  A probe ends by        *)
(* answering or by hitting its deadline (False); either way it Sets the   *)
(* cache, releases the marker (EndProbeFor) and answers its waiter.       *)
(* Kinds that need no external check are True at once.                    *)
(***************************************************************************)
EXTENDS Naturals, FiniteSets

CONSTANTS
    Callers,      \* concurrent status routines asking for conditions
    Keys,         \* endpoint sets (one per dependency kind)
    Unprobed,     \* kinds needing no external check (external, rocksmq, custom)
    MaxEnv,       \* bound on changes of the endpoints' real health
    MaxTimeouts   \* bound on probes that hit their deadline

ASSUME Unprobed \subseteq Keys

CondTrue    == "True"
CondFalse   == "False"
CondUnknown == "Unknown"
Conds == {CondTrue, CondFalse, CondUnknown}

\* A caller between its two cache calls holds the key it asked for and the
\* entry Get returned; `wait` marks one waiting for the probe it started.
Idle == [idle |-> TRUE]

\* No probe is in flight for the key.
Free == [free |-> TRUE]

VARIABLES
    health,    \* per key: whether the endpoints really answer
    cache,     \* per key EndpointCacheEntry: [cond, initialized]
    marker,    \* per key: the caller holding the in-flight marker, or Free
    probes,    \* per key: number of probes running
    pc,        \* per caller: Idle, or [key, seen, wait] after Get
    returned,  \* per caller: the condition its last call returned
    env,
    timeouts

vars == <<health, cache, marker, probes, pc, returned, env, timeouts>>

-----------------------------------------------------------------------------
\* GetDependencyCondition for a kind needing no check, else the condition
\* a caller returns from what Get gave it: Unknown while cold.
GetDependencyCondition(k, entry) ==
    CASE k \in Unprobed   -> CondTrue
      [] entry.initialized -> entry.cond
      [] OTHER             -> CondUnknown

\* Get(endpoints) -> (condition, initialized).
Get(c, k) ==
    /\ pc[c] = Idle
    /\ pc' = [pc EXCEPT ![c] = [key |-> k, seen |-> cache[k], wait |-> FALSE]]
    /\ UNCHANGED <<health, cache, marker, probes, returned, env, timeouts>>

\* The caller returns the condition it read, except the one that started
\* the first probe of a cold key: it waits for that probe's result.
Return(c, k, started) ==
    IF started /\ ~pc[c].seen.initialized
    THEN /\ pc' = [pc EXCEPT ![c].wait = TRUE]
         /\ UNCHANGED returned
    ELSE /\ returned' = [returned EXCEPT ![c] = GetDependencyCondition(k, pc[c].seen)]
         /\ pc' = [pc EXCEPT ![c] = Idle]

\* c takes the key's marker and starts a probe, when `started`.
StartProbe(c, k, started) ==
    IF started THEN /\ marker' = [marker EXCEPT ![k] = c]
                    /\ probes' = [probes EXCEPT ![k] = @ + 1]
               ELSE UNCHANGED <<marker, probes>>

Asked(c) == pc[c] # Idle /\ ~pc[c].wait

\* A probe started with the marker already held.
TryStartProbeForUnguarded(c) ==
    /\ Asked(c)
    /\ StartProbe(c, pc[c].key, TRUE)
    /\ Return(c, pc[c].key, TRUE)
    /\ UNCHANGED <<health, cache, env, timeouts>>

\* A prober that only starts a probe for a cold entry: once initialized,
\* an entry is never revalidated.
TryStartProbeForColdOnly(c) ==
    /\ Asked(c)
    /\ LET k == pc[c].key
           started == marker[k] = Free /\ k \notin Unprobed /\ ~pc[c].seen.initialized IN
       /\ StartProbe(c, k, started)
       /\ Return(c, k, started)
    /\ UNCHANGED <<health, cache, env, timeouts>>

\* TryStartProbeFor: the caller that takes the free marker starts a
\* probe; a caller that finds it held does not and returns what it read.
TryStartProbeFor(c) ==
    /\ Asked(c)
    /\ LET k == pc[c].key
           started == marker[k] = Free /\ k \notin Unprobed IN
       /\ StartProbe(c, k, started)
       /\ Return(c, k, started)
    /\ UNCHANGED <<health, cache, env, timeouts>>

\* A probe's end answers the caller that started it, if it waits.
Waits(c, k) == marker[k] = c /\ pc[c] # Idle /\ pc[c].wait

Answer(k, cond) ==
    /\ returned' = [c \in Callers |-> IF Waits(c, k) THEN cond ELSE returned[c]]
    /\ pc' = [c \in Callers |-> IF Waits(c, k) THEN Idle ELSE pc[c]]

\* The probe answers before its deadline: Set the observed health, then
\* EndProbeFor.
ProbeReturns(k) ==
    /\ probes[k] > 0
    /\ cache' = [cache EXCEPT ![k] = [cond |-> IF health[k] THEN CondTrue
                                                            ELSE CondFalse,
                                      initialized |-> TRUE]]
    /\ probes' = [probes EXCEPT ![k] = @ - 1]
    /\ marker' = [marker EXCEPT ![k] = Free]
    /\ Answer(k, IF health[k] THEN CondTrue ELSE CondFalse)
    /\ UNCHANGED <<health, env, timeouts>>

ProbeTimesOut(k) ==
    /\ probes[k] > 0
    /\ timeouts < MaxTimeouts
    /\ cache' = [cache EXCEPT ![k] = [cond |-> CondFalse, initialized |-> TRUE]]
    /\ probes' = [probes EXCEPT ![k] = @ - 1]
    /\ marker' = [marker EXCEPT ![k] = Free]
    /\ timeouts' = timeouts + 1
    /\ Answer(k, CondFalse)
    /\ UNCHANGED <<health, env>>

\* An endpoint goes down or comes back.
HealthChange(k) ==
    /\ env < MaxEnv
    /\ health' = [health EXCEPT ![k] = ~@]
    /\ env' = env + 1
    /\ UNCHANGED <<cache, marker, probes, pc, returned, timeouts>>

-----------------------------------------------------------------------------
Init ==
    /\ health \in [Keys -> BOOLEAN]
    /\ cache = [k \in Keys |-> [cond |-> CondUnknown, initialized |-> FALSE]]
    /\ marker = [k \in Keys |-> Free]
    /\ probes = [k \in Keys |-> 0]
    /\ pc = [c \in Callers |-> Idle]
    /\ returned = [c \in Callers |-> CondUnknown]
    /\ env = 0
    /\ timeouts = 0

Next ==
    \/ \E c \in Callers :
          \/ \E k \in Keys : Get(c, k)
          \/ TryStartProbeFor(c)
    \/ \E k \in Keys :
          \/ ProbeReturns(k)
          \/ ProbeTimesOut(k)
          \/ HealthChange(k)

\* Every status cycle asks for the condition of every dependency kind, and
\* the cycles run on timers: a caller that is idle again and again asks for
\* each key again and again (strong fairness, as it alternates between
\* keys).  A probe ends (by answer or deadline) once started.
Fairness ==
    /\ \A c \in Callers :
          /\ \A k \in Keys : SF_vars(Get(c, k))
          /\ WF_vars(TryStartProbeFor(c))
    /\ \A k \in Keys : WF_vars(ProbeReturns(k))

Spec == Init /\ [][Next]_vars /\ Fairness

-----------------------------------------------------------------------------
TypeOK ==
    /\ health \in [Keys -> BOOLEAN]
    /\ cache \in [Keys -> [cond: Conds, initialized: BOOLEAN]]
    /\ marker \in [Keys -> Callers \cup {Free}]
    /\ probes \in [Keys -> 0..Cardinality(Callers)]
    /\ \A c \in Callers :
          pc[c] = Idle \/ (/\ pc[c].key \in Keys
                            /\ pc[c].seen \in [cond: Conds, initialized: BOOLEAN]
                            /\ pc[c].wait \in BOOLEAN)
    /\ returned \in [Callers -> Conds]
    /\ env \in 0..MaxEnv
    /\ timeouts \in 0..MaxTimeouts

CacheConverges ==
    <>[](\A k \in Keys \ Unprobed :
           /\ cache[k].initialized
           /\ cache[k].cond = IF health[k] THEN CondTrue ELSE CondFalse)

=============================================================================
