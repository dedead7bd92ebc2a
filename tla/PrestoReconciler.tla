--------------------------- MODULE PrestoReconciler ---------------------------
(***************************************************************************)
(* The reconciliation loop of the Presto operator                         *)
(* (src/pkg/controller/presto/presto_controller.go) against the           *)
(* Kubernetes object store, as seen through the controller-runtime split  *)
(* client: reads come from informer caches that lag the store, writes go  *)
(* to the store.  One Presto record is modelled.                          *)
(*                                                                         *)
(* Actors:                                                                 *)
(*  - the single reconcile worker (MaxConcurrentReconciles: 1), whose     *)
(*    Reconcile is split at its convergence steps, one action per step;   *)
(*  - the informers, one per watched kind, each syncing its cache;        *)
(*  - the periodic ticker goroutine that enqueues registered records;     *)
(*  - the environment: the user editing the spec, the coordinator pod     *)
(*    changing phase, the HPA controller rescaling the worker ReplicaSet, *)
(*    transient store errors and operator restarts.                       *)
(*                                                                         *)
(* Data is abstracted to what the properties distinguish: a spec is a     *)
(* worker count, an autoscaling record and the set of steps whose builder *)
(* raises a ConfigurationError for it; resource contents are left out.    *)
(***************************************************************************)
EXTENDS Integers, Sequences, FiniteSets, FiniteSetsExt

CONSTANTS
    Uuids,         \* values uuid.New() can return
    Specs,         \* PrestoSpec values the user can submit (see SpecT)
    Phases,        \* coordinator pod phases the kubelet can report
    RSIds,         \* names GenerateName can yield; bounds duplicate ReplicaSets
    MaxEnv,        \* number of environment events (edits, pod phase, HPA scaling)
    MaxFaults,     \* number of transient store errors
    MaxRestarts,   \* number of operator process restarts
    None           \* absent value

(* The resources created once under a fixed name (Services, ConfigMaps).  *)
FixedKinds == {"headless", "external", "coordCM", "workerCM", "catalogCM"}

(* The resources whose name the status records.                           *)
NamedKinds == FixedKinds \cup {"coordRS", "workerRS", "hpa"}

(* The steps whose builder can fail with an OperatorError for a spec:     *)
(* ExternalName service type, TLS/JVM/property errors, quantity parsing.  *)
BadSteps == {"external", "coordCM", "workerCM", "coordRS", "workerRS"}

ClusterStates == {"Pending", "Ready", "Failed", "Unknown"}

(* The convergence steps in the order Reconcile runs them.                *)
Steps == <<"headless", "external", "coordCM", "workerCM", "catalogCM",
           "coordRS", "workerRS", "hpa", "observe">>

AsT == [enabled: BOOLEAN, min: Int \cup {None}, max: Int \cup {None},
        target: Int \cup {None}]
SpecT == [count: Int, as: AsT, bad: SUBSET BadSteps]

ASSUME Specs \subseteq SpecT /\ Specs # {}
ASSUME Phases \subseteq {"Pending", "Running", "Failed", "Succeeded", "Unknown"}
ASSUME None \notin Int \cup Uuids \cup RSIds
ASSUME /\ RSIds \subseteq Nat \ {0}
       /\ MaxEnv \in Nat /\ MaxFaults \in Nat /\ MaxRestarts \in Nat

ReplicaVals == {s.count : s \in Specs} \cup
               UNION {s.as.min .. s.as.max :
                        s \in {t \in Specs : t.as.min \in Int /\ t.as.max \in Int}}

(* The status fields the properties read; errorReason, the worker counts *)
(* and the CPU figures are left out.                                      *)
StatusT == [uuid: Uuids \cup {None}, names: SUBSET NamedKinds, addr: BOOLEAN,
            state: ClusterStates \cup {None}]
PrestoT == [spec: Specs, status: StatusT, gen: 1 .. MaxEnv + 1]
HpaT == [min: Int, max: Int, target: Int, ref: RSIds]

VARIABLES
    presto,     \* the Presto record in the store: spec, status, generation
    objs,       \* the fixed-name dependents present in the store
    crs,        \* number of coordinator ReplicaSets in the store
    wrs,        \* wrs[i]: spec.replicas of worker ReplicaSet i, or None
    hpa,        \* the HorizontalPodAutoscaler in the store, or None
    phase,      \* phase of the coordinator pod
    pcache,     \* cached Presto: what is read of it, and whether it has the
                \* store's resourceVersion (fresh)
    cobjs,      \* cached fixed-name dependents
    ccrs,       \* cached number of coordinator ReplicaSets
    cwrs,       \* cached worker ReplicaSets
    chpa,       \* cached HPA
    pc,         \* the step the reconcile worker is at, "idle" between calls
    snap,       \* what the steps read of the Presto Reconcile got at its
                \* start: the spec and whether CoordinatorAddress is set
    ws,         \* the worker ReplicaSet handed to the hpa and observe steps
    queued,     \* the record's key is in the work queue
    registered, \* the key is in registeredPrestos (sync.Map)
    env, faults, restarts,  \* remaining environment, error, restart budgets
    panicked    \* a reconcile has panicked (history)

storeVars == <<presto, objs, crs, wrs, hpa, phase>>
cacheVars == <<pcache, cobjs, ccrs, cwrs, chpa>>
opVars == <<pc, snap, ws, queued, registered>>
vars == <<storeVars, cacheVars, opVars, env, faults, restarts, panicked>>

-----------------------------------------------------------------------------
(* Helpers translated from the controller's utility functions.            *)

(* checkAutoscalingEnabled: a nil Enabled counts as disabled.             *)
checkAutoscalingEnabled(s) == s.as.enabled

(* The step after k in Reconcile's fixed order.                           *)
NextStep(k) == Steps[(CHOOSE i \in 1 .. Len(Steps) - 1 : Steps[i] = k) + 1]

(* What a read of the record finds in the cache.  When the copy is stale  *)
(* only these fields are used: any status write from it fails.            *)
CacheOf(p) == [spec |-> p.spec, gen |-> p.gen, uuid |-> p.status.uuid,
               addr |-> p.status.addr, fresh |-> TRUE]

(* The status as updateStatus finds it: getPresto re-reads the cache,     *)
(* which equals the store whenever the write can succeed.                 *)
CachedStatus == presto.status

updateStatus(new) ==
    IF pcache.fresh
    THEN /\ presto' = [presto EXCEPT !.status = new]
         /\ pcache' = [pcache EXCEPT !.fresh = FALSE]
    ELSE UNCHANGED <<presto, pcache>>

NoStatusWrite == UNCHANGED <<presto, pcache>>

(* The status a step writes after creating resource k.                    *)
CreatedStatus(k) ==
    [CachedStatus EXCEPT !.names = @ \cup {k}, !.state = "Pending"]

(* Reconcile returns: the worker goes back to the queue.                  *)
Exit == pc' = "idle" /\ snap' = None /\ ws' = None

(* A step changed something: return reconcile.Result{}, nil (no requeue). *)
Changed == Exit /\ UNCHANGED queued

(* A step found nothing to do and goes on to the next one.                *)
Proceed(k) == pc' = NextStep(k) /\ UNCHANGED <<snap, ws, queued>>

Fail ==
    /\ updateStatus([CachedStatus EXCEPT !.state = "Failed"])
    /\ Exit
    /\ queued' = TRUE

(* Any List, Create, Update or Delete of the step returns an error.       *)
StoreFault == faults > 0 /\ faults' = faults - 1 /\ Fail /\ UNCHANGED objs

-----------------------------------------------------------------------------
(* Reconcile, up to the first convergence step: Get from the cache,       *)
(* register for periodic events, assign the cluster uuid.  After the uuid *)
(* write it returns Result{RequeueAfter: 0}, which does not requeue.      *)
Reconcile ==
    /\ pc = "idle"
    /\ queued
    /\ \/ /\ faults > 0
          /\ faults' = faults - 1
          /\ UNCHANGED <<presto, pcache, pc, snap, queued, registered>>
       \/ /\ registered' = TRUE
          /\ pcache.uuid # None
          /\ pc' = "headless"
          /\ snap' = [spec |-> pcache.spec, addr |-> pcache.addr]
          /\ queued' = FALSE
          /\ UNCHANGED <<presto, pcache, faults>>
       \/ /\ registered' = TRUE
          /\ pcache.uuid = None
          /\ \E u \in Uuids : updateStatus([CachedStatus EXCEPT !.uuid = u])
          \* a Conflict is returned as an error: rate-limited requeue
          /\ queued' = ~pcache.fresh
          /\ UNCHANGED <<pc, snap, faults>>
    /\ UNCHANGED <<objs, crs, wrs, hpa, phase, cobjs, ccrs, cwrs, chpa, ws,
                   env, restarts, panicked>>

(* headlessServiceConfig / createHeadLessPodDiscoverySvc, and the         *)
(* ConfigMap steps coordinatorConfig, workerConfig, catalogConfig with    *)
(* createConfigMap: the builder runs first, so its ConfigurationError     *)
(* fails the step even when the object exists; then a cached List and a  *)
(* Create, which returns AlreadyExists when the cache was stale.          *)
CreateOnce(k) ==
    /\ pc = k
    /\ \/ StoreFault
       \/ /\ k \in snap.spec.bad
          /\ Fail /\ UNCHANGED <<objs, faults>>
       \/ /\ k \notin snap.spec.bad
          /\ k \in cobjs
          /\ Proceed(k) /\ NoStatusWrite /\ UNCHANGED <<objs, faults>>
       \/ /\ k \notin snap.spec.bad
          /\ k \notin cobjs
          /\ k \in objs
          /\ Fail /\ UNCHANGED <<objs, faults>>
       \/ /\ k \notin snap.spec.bad
          /\ k \notin cobjs
          /\ k \notin objs
          /\ objs' = objs \cup {k}
          /\ updateStatus(CreatedStatus(k))
          /\ Changed /\ UNCHANGED faults
    /\ UNCHANGED <<crs, wrs, hpa, phase, cobjs, ccrs, cwrs, chpa, registered,
                   env, restarts, panicked>>

(* The steps that run CreateOnce, each with its own error and created     *)
(* status write.                                                          *)
headlessServiceConfig == CreateOnce("headless")
coordinatorConfig == CreateOnce("coordCM")
workerConfig == CreateOnce("workerCM")
catalogConfig == CreateOnce("catalogCM")

(* serviceConfig / createOrGetService.  An ExternalName type is rejected  *)
(* before the lookup.  After a Create the Service is re-listed from the   *)
(* cache; when the cache does not hold it yet, the status gets only the   *)
(* Pending state, without the Service name and CoordinatorAddress.  When  *)
(* the Service exists but the snapshot has no CoordinatorAddress, the     *)
(* address is written and the loop goes on in the same Reconcile.         *)
serviceConfig ==
    /\ pc = "external"
    /\ \/ StoreFault
       \/ /\ "external" \in snap.spec.bad
          /\ Fail /\ UNCHANGED <<objs, faults>>
       \/ /\ "external" \notin snap.spec.bad
          /\ "external" \notin cobjs
          /\ "external" \in objs
          /\ Fail /\ UNCHANGED <<objs, faults>>
       \/ /\ "external" \notin snap.spec.bad
          /\ "external" \notin cobjs
          /\ "external" \notin objs
          /\ objs' = objs \cup {"external"}
          /\ \E seen \in BOOLEAN :
                updateStatus(IF seen
                             THEN [CreatedStatus("external") EXCEPT !.addr = TRUE]
                             ELSE [CachedStatus EXCEPT !.state = "Pending"])
          /\ Changed /\ UNCHANGED faults
       \/ /\ "external" \notin snap.spec.bad
          /\ "external" \in cobjs
          /\ IF snap.addr
             THEN NoStatusWrite
             ELSE updateStatus([CreatedStatus("external") EXCEPT !.addr = TRUE])
          /\ Proceed("external") /\ UNCHANGED <<objs, faults>>
    /\ UNCHANGED <<crs, wrs, hpa, phase, cobjs, ccrs, cwrs, chpa, registered,
                   env, restarts, panicked>>

(* coordinatorReplicaset / createUpdateReplicaSetForCoordinator: a        *)
(* ReplicaSet of one coordinator, looked up by label in the cache and     *)
(* created under a GenerateName, so a stale cache yields a second one.    *)
(* The pod spec (quantity parsing) is built only on the create path.      *)
coordinatorReplicaset ==
    /\ pc = "coordRS"
    /\ \/ StoreFault /\ UNCHANGED crs
       \/ /\ ccrs > 0
          /\ Proceed("coordRS") /\ NoStatusWrite /\ UNCHANGED <<crs, faults>>
       \/ /\ ccrs = 0
          /\ "coordRS" \in snap.spec.bad
          /\ Fail /\ UNCHANGED <<crs, faults>>
       \/ /\ ccrs = 0
          /\ "coordRS" \notin snap.spec.bad
          /\ crs < Cardinality(RSIds)
          /\ crs' = crs + 1
          /\ updateStatus(CreatedStatus("coordRS"))
          /\ Changed /\ UNCHANGED faults
    /\ UNCHANGED <<objs, wrs, hpa, phase, cobjs, ccrs, cwrs, chpa, registered,
                   env, restarts, panicked>>

(* createUpdateReplicaSetForWorker: the worker count is written back only *)
(* when autoscaling is disabled and it differs from the cached replicas.  *)
(* Variant: the autoscaling test inverted.                               *)
ResizeNeededInverted(s, replicas) ==
    checkAutoscalingEnabled(s) /\ s.count # replicas

ResizeNeeded(s, replicas) ==
    ~checkAutoscalingEnabled(s) /\ s.count # replicas

(* getReplicaSet returns Items[0] of the cached List; the lowest name.    *)
FirstReplicaSet(rs) == Min({i \in RSIds : rs[i] # None})

(* workerReplicaset / createUpdateReplicaSetForWorker.  The Update sends  *)
(* the cached copy, so a copy older than the store gets a Conflict.       *)
workerReplicaset ==
    /\ pc = "workerRS"
    /\ LET cached == {i \in RSIds : cwrs[i] # None} IN
       \/ StoreFault /\ UNCHANGED <<wrs, ws>>
       \/ /\ cached = {}
          /\ "workerRS" \in snap.spec.bad
          /\ Fail /\ UNCHANGED <<wrs, faults>>
       \/ /\ cached = {}
          /\ "workerRS" \notin snap.spec.bad
          /\ \E i \in RSIds :
                /\ wrs[i] = None
                /\ wrs' = [wrs EXCEPT ![i] = snap.spec.count]
          /\ updateStatus(CreatedStatus("workerRS"))
          /\ Changed /\ UNCHANGED faults
       \/ /\ cached # {}
          /\ LET i == FirstReplicaSet(cwrs) IN
             \/ /\ ResizeNeeded(snap.spec, cwrs[i])
                /\ wrs[i] # cwrs[i]
                /\ Fail /\ UNCHANGED <<wrs, faults>>
             \/ /\ ResizeNeeded(snap.spec, cwrs[i])
                /\ wrs[i] = cwrs[i]
                /\ wrs' = [wrs EXCEPT ![i] = snap.spec.count]
                /\ updateStatus(CreatedStatus("workerRS"))
                /\ Changed /\ UNCHANGED faults
             \/ /\ ~ResizeNeeded(snap.spec, cwrs[i])
                /\ pc' = "hpa"
                /\ ws' = [id |-> i, replicas |-> cwrs[i]]
                /\ NoStatusWrite
                /\ UNCHANGED <<wrs, snap, queued, faults>>
    /\ UNCHANGED <<objs, crs, hpa, phase, cobjs, ccrs, cwrs, chpa, registered,
                   env, restarts, panicked>>

(* autoscaleSpecChanged compares MaxReplicas, MinReplicas and             *)
(* TargetCPUUtilizationPercentage of the HPA with the spec's pointers.    *)
(* Variant: the target utilisation left out of the comparison.          *)
autoscaleSpecChangedNoTarget(h, as) == h.max # as.max \/ h.min # as.min

autoscaleSpecChanged(h, as) ==
    h.max # as.max \/ h.min # as.min \/ h.target # as.target

(* It dereferences the spec's pointers left to right and stops at the     *)
(* first field that differs: a nil pointer reached this way panics.       *)
autoscaleSpecChangedPanics(h, as) ==
    \/ as.max = None
    \/ h.max = as.max /\ as.min = None
    \/ h.max = as.max /\ h.min = as.min /\ as.target = None

(* createHPASpec returns an OperatorError when a field is nil.            *)
createHPASpecFails(as) == None \in {as.min, as.max, as.target}

(* The HPA createHPASpec builds, scaling the given worker ReplicaSet.     *)
createHPASpec(as, ref) ==
    [min |-> as.min, max |-> as.max, target |-> as.target, ref |-> ref]

(* The in-memory state of the operator process is lost: the worker stops, *)
(* registeredPrestos is empty, the informers relist (fresh caches) and    *)
(* the initial list of Prestos enqueues the record.                       *)
ResetProcess ==
    /\ pc' = "idle" /\ snap' = None /\ ws' = None
    /\ queued' = TRUE /\ registered' = FALSE
    /\ pcache' = CacheOf(presto)
    /\ cobjs' = objs /\ ccrs' = crs /\ cwrs' = wrs /\ chpa' = hpa

(* hpaReplicaset / handleReplicaSet, the four-way decision on the cached  *)
(* HPA.  Update carries the cached resourceVersion; Delete carries none   *)
(* and gets NotFound when the HPA is already gone.  AlreadyExists on      *)
(* Create is ignored and counted as created.  An update writes no status. *)
hpaHandle ==
    /\ LET as == snap.spec.as
           en == checkAutoscalingEnabled(snap.spec)
       IN
       \/ StoreFault /\ UNCHANGED hpa
       \/ /\ chpa # None /\ en
          /\ ~autoscaleSpecChangedPanics(chpa, as)
          /\ autoscaleSpecChanged(chpa, as)
          /\ \/ /\ createHPASpecFails(as)
                /\ Fail /\ UNCHANGED <<hpa, faults>>
             \/ /\ ~createHPASpecFails(as)
                /\ hpa # chpa
                /\ Fail /\ UNCHANGED <<hpa, faults>>
             \/ /\ ~createHPASpecFails(as)
                /\ hpa = chpa
                /\ hpa' = createHPASpec(as, ws.id)
                /\ NoStatusWrite /\ Changed /\ UNCHANGED faults
       \/ /\ chpa # None /\ en
          /\ ~autoscaleSpecChangedPanics(chpa, as)
          /\ ~autoscaleSpecChanged(chpa, as)
          /\ Proceed("hpa") /\ NoStatusWrite /\ UNCHANGED <<hpa, faults>>
       \/ /\ chpa # None /\ ~en
          /\ \/ /\ hpa = None
                /\ Fail /\ UNCHANGED <<hpa, faults>>
             \/ /\ hpa # None
                /\ hpa' = None
                /\ updateStatus([CachedStatus EXCEPT !.names = @ \ {"hpa"},
                                                     !.state = "Pending"])
                /\ Changed /\ UNCHANGED faults
       \/ /\ chpa = None /\ en
          /\ createHPASpecFails(as)
          /\ Fail /\ UNCHANGED <<hpa, faults>>
       \/ /\ chpa = None /\ en
          /\ ~createHPASpecFails(as)
          /\ hpa' = IF hpa = None THEN createHPASpec(as, ws.id) ELSE hpa
          /\ updateStatus(CreatedStatus("hpa"))
          /\ Changed /\ UNCHANGED faults
       \/ /\ chpa = None /\ ~en
          /\ Proceed("hpa") /\ NoStatusWrite /\ UNCHANGED <<hpa, faults>>
    /\ UNCHANGED <<objs, crs, wrs, phase, cobjs, ccrs, cwrs, chpa, registered,
                   env, restarts, panicked>>

(* The panic in autoscaleSpecChanged is not recovered: the process dies.  *)
hpaPanic ==
    /\ chpa # None /\ checkAutoscalingEnabled(snap.spec)
    /\ autoscaleSpecChangedPanics(chpa, snap.spec.as)
    /\ ResetProcess
    /\ panicked' = TRUE
    /\ UNCHANGED <<storeVars, env, faults, restarts>>

hpaReplicaset == pc = "hpa" /\ (hpaHandle \/ hpaPanic)

(* The cluster state Reconcile derives from the coordinator pod phase.    *)
(* Variant: a running pod reported under the pod's own phase name.        *)
ClusterStateOfRaw(ph) ==
    CASE ph = "Pending" -> "Pending"
      [] ph = "Failed"  -> "Failed"
      [] ph = "Running" -> "Running"
      [] OTHER          -> "Unknown"

ClusterStateOf(ph) ==
    CASE ph = "Pending" -> "Pending"
      [] ph = "Failed"  -> "Failed"
      [] ph = "Running" -> "Ready"
      [] OTHER          -> "Unknown"

(* getCoordinatorPodPhase: a List error, or no coordinator pod, gives     *)
(* PodUnknown; otherwise the phase of the first pod.                      *)
getCoordinatorPodPhase(listFails) ==
    IF listFails \/ crs = 0 THEN "Unknown" ELSE phase

(* The tail of Reconcile: the coordinator pod phase and one updateStatus  *)
(* with the cluster state and the worker ReplicaSet; CPU usage is left    *)
(* out here.                                                              *)
observe ==
    /\ pc = "observe"
    /\ \E listFails \in IF faults > 0 THEN BOOLEAN ELSE {FALSE} :
          LET ph == getCoordinatorPodPhase(listFails) IN
          /\ faults' = IF listFails THEN faults - 1 ELSE faults
          /\ updateStatus([CachedStatus EXCEPT
                              !.state = ClusterStateOf(ph),
                              !.names = @ \cup {"workerRS"}])
    /\ Exit /\ UNCHANGED queued
    /\ UNCHANGED <<objs, crs, wrs, hpa, phase, cobjs, ccrs, cwrs, chpa,
                   registered, env, restarts, panicked>>

ReconcileStep ==
    \/ Reconcile
    \/ headlessServiceConfig
    \/ serviceConfig
    \/ coordinatorConfig
    \/ workerConfig
    \/ catalogConfig
    \/ coordinatorReplicaset
    \/ workerReplicaset
    \/ hpaReplicaset
    \/ observe

-----------------------------------------------------------------------------
(* Informers.  A cache sync of a Service, ConfigMap or ReplicaSet owned   *)
(* by the record enqueues it (EnqueueRequestForOwner); a Presto sync      *)
(* enqueues only on a generation change (GenerationChangedPredicate); HPA *)
(* and Pod caches exist (the client lists them) but are not watched.      *)
(* Variant: the generation filter applied to the cache update itself, so  *)
(* a status-only change never reaches the cached copy.                     *)
SyncPrestoOnGeneration ==
    /\ ~pcache.fresh /\ presto.gen # pcache.gen
    /\ pcache' = CacheOf(presto)
    /\ queued' = TRUE
    /\ UNCHANGED <<storeVars, cobjs, ccrs, cwrs, chpa, pc, snap, ws,
                   registered, env, faults, restarts, panicked>>

SyncPresto ==
    /\ ~pcache.fresh
    /\ pcache' = CacheOf(presto)
    /\ queued' = (queued \/ presto.gen # pcache.gen)
    /\ UNCHANGED <<storeVars, cobjs, ccrs, cwrs, chpa, pc, snap, ws,
                   registered, env, faults, restarts, panicked>>

(* The Service informer holds both Services, the ConfigMap informer the   *)
(* three ConfigMaps; a sync delivers the pending events of one informer.   *)
ServiceKinds == {"headless", "external"}
ConfigMapKinds == {"coordCM", "workerCM", "catalogCM"}

SyncObjs(K) ==
    /\ objs \cap K # cobjs \cap K
    /\ cobjs' = (cobjs \ K) \cup (objs \cap K)
    /\ queued' = TRUE
    /\ UNCHANGED <<storeVars, pcache, ccrs, cwrs, chpa, pc, snap, ws,
                   registered, env, faults, restarts, panicked>>

(* One informer holds the coordinator and the worker ReplicaSets.         *)
SyncReplicaSets ==
    /\ <<ccrs, cwrs>> # <<crs, wrs>>
    /\ ccrs' = crs /\ cwrs' = wrs
    /\ queued' = TRUE
    /\ UNCHANGED <<storeVars, pcache, cobjs, chpa, pc, snap, ws,
                   registered, env, faults, restarts, panicked>>

SyncHpa ==
    /\ chpa # hpa
    /\ chpa' = hpa
    /\ UNCHANGED <<storeVars, pcache, cobjs, ccrs, cwrs, queued, pc, snap,
                   ws, registered, env, faults, restarts, panicked>>

(* The ticker goroutine of newReconciler: every StatusUpdateInterval it   *)
(* sends a GenericEvent for each registered record, which is enqueued.    *)
Tick ==
    /\ registered /\ ~queued
    /\ queued' = TRUE
    /\ UNCHANGED <<storeVars, cacheVars, pc, snap, ws, registered, env,
                   faults, restarts, panicked>>

-----------------------------------------------------------------------------
(* Environment.                                                           *)

(* The user submits a new spec; the generation is bumped.                 *)
UserEdit ==
    /\ env > 0
    /\ env' = env - 1
    /\ \E s \in Specs \ {presto.spec} :
          presto' = [presto EXCEPT !.spec = s, !.gen = @ + 1]
    /\ pcache' = [pcache EXCEPT !.fresh = FALSE]
    /\ UNCHANGED <<objs, crs, wrs, hpa, phase, cobjs, ccrs, cwrs, chpa,
                   opVars, faults, restarts, panicked>>

(* The coordinator pod changes phase (pods are not watched).              *)
PodPhaseChange ==
    /\ env > 0 /\ crs > 0
    /\ env' = env - 1
    /\ \E p \in Phases \ {phase} : phase' = p
    /\ UNCHANGED <<presto, objs, crs, wrs, hpa, cacheVars, opVars, faults,
                   restarts, panicked>>

(* The HPA controller sets the target ReplicaSet's replicas in [min,max]. *)
HpaScale ==
    /\ env > 0 /\ hpa # None /\ wrs[hpa.ref] # None
    /\ env' = env - 1
    /\ \E v \in (hpa.min .. hpa.max) \ {wrs[hpa.ref]} :
          wrs' = [wrs EXCEPT ![hpa.ref] = v]
    /\ UNCHANGED <<presto, objs, crs, hpa, phase, cacheVars, opVars, faults,
                   restarts, panicked>>

(* The operator process is killed and restarted.                          *)
Restart ==
    /\ restarts > 0
    /\ restarts' = restarts - 1
    /\ ResetProcess
    /\ UNCHANGED <<storeVars, env, faults, panicked>>

Informers ==
    \/ SyncPresto
    \/ SyncObjs(ServiceKinds)
    \/ SyncObjs(ConfigMapKinds)
    \/ SyncReplicaSets
    \/ SyncHpa

Environment == UserEdit \/ PodPhaseChange \/ HpaScale \/ Restart

EmptyStatus == [uuid |-> None, names |-> {}, addr |-> FALSE, state |-> None]

Init ==
    /\ presto \in [spec: Specs, status: {EmptyStatus}, gen: {1}]
    /\ objs = {} /\ crs = 0 /\ wrs = [i \in RSIds |-> None] /\ hpa = None
    /\ phase = "Pending"
    /\ pcache = CacheOf(presto)
    /\ cobjs = {} /\ ccrs = 0 /\ cwrs = wrs /\ chpa = None
    /\ pc = "idle" /\ snap = None /\ ws = None
    /\ queued = TRUE /\ registered = FALSE
    /\ env = MaxEnv /\ faults = MaxFaults /\ restarts = MaxRestarts
    /\ panicked = FALSE

Next == ReconcileStep \/ Informers \/ Tick \/ Environment

(* The single worker runs whenever it has work; informers and the ticker  *)
(* keep running; the user, the kubelet and the HPA controller need not.   *)
Fairness ==
    /\ WF_vars(ReconcileStep)
    /\ WF_vars(SyncPresto)
    /\ WF_vars(SyncObjs(ServiceKinds)) /\ WF_vars(SyncObjs(ConfigMapKinds))
    /\ WF_vars(SyncReplicaSets) /\ WF_vars(SyncHpa)
    /\ WF_vars(Tick)

Spec == Init /\ [][Next]_vars /\ Fairness

-----------------------------------------------------------------------------
(* Properties.                                                            *)

TypeOK ==
    /\ presto \in PrestoT
    /\ objs \subseteq FixedKinds /\ cobjs \subseteq objs
    /\ crs \in 0 .. Cardinality(RSIds) /\ ccrs \in 0 .. crs
    /\ wrs \in [RSIds -> ReplicaVals \cup {None}]
    /\ cwrs \in [RSIds -> ReplicaVals \cup {None}]
    /\ hpa \in HpaT \cup {None} /\ chpa \in HpaT \cup {None}
    /\ phase \in Phases
    /\ pcache \in [spec: Specs, gen: 1 .. MaxEnv + 1, uuid: Uuids \cup {None},
                   addr: BOOLEAN, fresh: BOOLEAN]
    /\ pc \in {"idle"} \cup {Steps[i] : i \in 1 .. Len(Steps)}
    /\ snap \in [spec: Specs, addr: BOOLEAN] \cup {None}
    /\ ws \in [id: RSIds, replicas: ReplicaVals] \cup {None}
    /\ queued \in BOOLEAN /\ registered \in BOOLEAN /\ panicked \in BOOLEAN
    /\ env \in 0 .. MaxEnv /\ faults \in 0 .. MaxFaults
    /\ restarts \in 0 .. MaxRestarts

(* Whether the store holds the dependent resource a step manages.         *)
Present(k) ==
    CASE k \in FixedKinds -> k \in objs
      [] k = "coordRS"    -> crs > 0
      [] k = "workerRS"   -> \E i \in RSIds : wrs[i] # None
      [] k = "hpa"        -> hpa # None
      [] OTHER            -> TRUE

(* The loop implements PrestoLifecycle: the status uuid is the abstract  *)
(* uuid, and the dependents present in the store are the abstract ones.   *)
Lifecycle == INSTANCE PrestoLifecycle
    WITH Order <- SubSeq(Steps, 1, Len(Steps) - 1),
         uuid <- presto.status.uuid,
         made <- {k \in NamedKinds : Present(k)}

ConfigErrorPending(s) ==
    \/ s.bad \cap {"external", "coordCM", "workerCM"} # {}
    \/ "coordRS" \in s.bad /\ crs = 0
    \/ "workerRS" \in s.bad /\ ~Present("workerRS")
    \/ checkAutoscalingEnabled(s) /\ createHPASpecFails(s.as) /\ hpa = None

(* The store matches the current spec and the status reports it.          *)
Converged ==
    LET s == presto.spec IN
    IF ConfigErrorPending(s)
    THEN presto.status.state = "Failed"
    ELSE /\ objs = FixedKinds /\ crs > 0
         /\ Present("workerRS")
         /\ ~checkAutoscalingEnabled(s) =>
               /\ wrs[FirstReplicaSet(wrs)] = s.count
               /\ hpa = None
         /\ checkAutoscalingEnabled(s) =>
               /\ hpa # None
               /\ <<hpa.min, hpa.max, hpa.target>> = <<s.as.min, s.as.max, s.as.target>>
         /\ presto.status.state = ClusterStateOf(phase)

(* Once the user, the kubelet and the autoscaler stop, the loop driven by *)
(* owner events, error requeues and the periodic ticker converges: every  *)
(* dependent exists, the worker count or the HPA matches the last spec,   *)
(* and the status carries the state of the coordinator pod (or Failed for *)
(* a configuration error).                                                *)
EventuallyConverged == <>[]Converged

(* Every dependent is created at most once (spec, Data Model/Lifecycle):  *)
(* at most one coordinator and one worker ReplicaSet ever exist.          *)
AtMostOneReplicaSetEach ==
    /\ crs <= 1
    /\ Cardinality({i \in RSIds : wrs[i] # None}) <= 1

(* The status names every dependent the store holds (spec, Cluster        *)
(* Status), eventually and from then on: updateStatus funnels the writes  *)
(* of the steps so that none is lost.                                     *)
StatusNamesResources ==
    <>[](\A k \in NamedKinds : Present(k) => k \in presto.status.names)

(* Missing HPA fields are a ConfigurationError raised before any call     *)
(* (spec, Error Handling); no Reconcile ever panics.                      *)
NoPanic == ~panicked

=============================================================================
