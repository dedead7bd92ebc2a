---------------------------- MODULE PrestoObserve ----------------------------
(***************************************************************************)
(* CPU observation (getCPUUsage, presto_controller.go) and the admission   *)
(* webhook (presto_webhook.go), beside the one thing they depend on: the   *)
(* pods run with the CPU limit their ReplicaSet was created with, and the  *)
(* ReplicaSet is never rebuilt (createUpdateReplicaSetFor...).             *)
(*                                                                         *)
(* A CPU quantity is its MilliValue; a usage sample is the "cpu" entry of  *)
(* a container's Usage map in the pod metrics, or None when the container  *)
(* reports none.  The status strings "%d%%" are kept as their integers.    *)
(***************************************************************************)
EXTENDS Integers, Sequences, FiniteSets, FiniteSetsExt, PrestoNames

CONSTANTS
    Limits,             \* CPU limits (millicores) a spec may carry
    Requests,           \* CPU requests; None means unset
    Usages,             \* CPU usage samples (millicores)
    WorkerPods,         \* the worker pods the metrics list can return
    Sidecar,            \* the name of a container the operator did not add
    MaxEdits,           \* bound on user edits of the spec
    WebhookRegistered,  \* SetupWebhookWithManager is called (main.go)
    Unparseable,        \* a quantity string resource.ParseQuantity rejects
    None,
    Uuid

VARIABLES
    spec,      \* role -> [cpuLimit, cpuRequest] of the Presto spec
    tmpl,      \* role -> the CPU limit in the ReplicaSet's pod template, or None
    usage,     \* container -> its CPU usage sample, or None
    cpu,       \* role -> the CPU percentage last written to the status
    fetched,   \* role -> the metrics List of the last observation succeeded
    edits      \* user edits so far

vars == <<spec, tmpl, usage, cpu, fetched, edits>>

Roles == {"coordinator", "worker"}

\* The container name createPrestoPodSpec gives each role, which
\* getCPUUsage looks for.
ContainerName(r) ==
    IF r = "coordinator" THEN getCoordinatorContainerName(Uuid)
    ELSE getWorkerContainerPrefix(Uuid)

\* The containers of the pods the metrics list returns for each role: the
\* operator's container in every pod, and a sidecar in one worker pod.
Pods(r) == IF r = "coordinator" THEN {"coordinatorpod"} ELSE WorkerPods
Containers ==
    UNION {{[role |-> r, pod |-> p, name |-> ContainerName(r)] : p \in Pods(r)} : r \in Roles}
    \cup {[role |-> "worker", pod |-> CHOOSE p \in WorkerPods : TRUE, name |-> Sidecar]}

\* Mutant: every container of the selected pods is counted, sidecars too.
getCPUUsageAnyContainer(r) ==
    LET allotted == IF spec[r].cpuLimit = Unparseable THEN 0 ELSE spec[r].cpuLimit
        counted == {c \in Containers : c.role = r /\ usage[c] # None}
        totalAllotted == Cardinality(counted) * allotted
        totalUsed == MapThenSumSet(LAMBDA c : usage[c], counted)
    IN  IF totalAllotted = 0 THEN 0 ELSE (totalUsed * 100) \div totalAllotted

\* resource.ParseQuantity's error is dropped at line 683: an unparseable
\* string yields the zero Quantity.
MilliValue(q) == IF q = Unparseable THEN 0 ELSE q

getCPUUsage(r) ==
    LET allotted == MilliValue(spec[r].cpuLimit)
        counted == {c \in Containers : c.role = r /\ c.name = ContainerName(r)
                                       /\ usage[c] # None}
        totalAllotted == Cardinality(counted) * allotted
        totalUsed == MapThenSumSet(LAMBDA c : usage[c], counted)
    IN  IF totalAllotted = 0 THEN 0 ELSE (totalUsed * 100) \div totalAllotted

\* validatePrestoSpec: an update may not change Coordinator.CpuRequest.
validatePrestoSpec(old, new) ==
    IF old.coordinator.cpuRequest # new.coordinator.cpuRequest
    THEN {"Spec.Coordinator.CpuRequest"} ELSE {}

\* The API server admits an update when no webhook is registered, or when
\* ValidateUpdate returns no error.
Admitted(old, new) == WebhookRegistered => validatePrestoSpec(old, new) = {}

(***************************************************************************)
(* Actions                                                                 *)
(***************************************************************************)

\* Mutant: the CPU limit is not parsed before the create.
createReplicaSetUnchecked(r) ==
    /\ tmpl[r] = None
    /\ spec[r].cpuRequest # Unparseable
    /\ tmpl' = [tmpl EXCEPT ![r] = spec[r].cpuLimit]
    /\ UNCHANGED <<spec, usage, cpu, fetched, edits>>

\* createReplicaSetFor...: the pod spec parses the CPU limit and request
\* (an empty request takes the limit); a parse error fails the step.  The
\* ReplicaSet is built once, on create.
createReplicaSet(r) ==
    /\ tmpl[r] = None
    /\ spec[r].cpuLimit # Unparseable
    /\ spec[r].cpuRequest # Unparseable
    /\ tmpl' = [tmpl EXCEPT ![r] = spec[r].cpuLimit]
    /\ UNCHANGED <<spec, usage, cpu, fetched, edits>>

\* The user updates the limit or the request of one role.
UserEdit ==
    /\ edits < MaxEdits
    /\ \E r \in Roles, l \in Limits, q \in Requests :
         LET new == [spec EXCEPT ![r] = [cpuLimit |-> l, cpuRequest |-> q]]
         IN  /\ new # spec
             /\ Admitted(spec, new)
             /\ spec' = new
    /\ edits' = edits + 1
    /\ UNCHANGED <<tmpl, usage, cpu, fetched>>

\* metrics-server samples one container of a pod that exists.
MetricsSample ==
    /\ \E c \in Containers, u \in Usages \cup {None} :
         /\ tmpl[c.role] # None
         /\ usage[c] # u
         /\ usage' = [usage EXCEPT ![c] = u]
    /\ UNCHANGED <<spec, tmpl, cpu, fetched, edits>>

\* The PodRunning branch of Reconcile's tail: both percentages are
\* computed and written with the Ready state.  A failed PodMetricses List
\* makes getCPUUsage return 0.
observe ==
    /\ fetched' \in [Roles -> BOOLEAN]
    /\ cpu' = [r \in Roles |-> IF fetched'[r] THEN getCPUUsage(r) ELSE 0]
    /\ UNCHANGED <<spec, tmpl, usage, edits>>

Init ==
    /\ spec \in [Roles -> [cpuLimit : Limits, cpuRequest : Requests]]
    /\ tmpl = [r \in Roles |-> None]
    /\ usage = [c \in Containers |-> None]
    /\ cpu = [r \in Roles |-> 0]
    /\ fetched = [r \in Roles |-> TRUE]
    /\ edits = 0

Next ==
    \/ \E r \in Roles : createReplicaSet(r)
    \/ UserEdit
    \/ MetricsSample
    \/ observe

Spec == Init /\ [][Next]_vars

(***************************************************************************)
(* Properties                                                              *)
(***************************************************************************)
TypeOK ==
    /\ spec \in [Roles -> [cpuLimit : Limits, cpuRequest : Requests]]
    /\ tmpl \in [Roles -> (Limits \ {Unparseable}) \cup {None}]
    /\ usage \in [Containers -> Usages \cup {None}]
    /\ cpu \in [Roles -> Nat]
    /\ fetched \in [Roles -> BOOLEAN]
    /\ edits \in 0..MaxEdits

\* Spec section 4.6: the percentage is the CPU used by the operator's
\* containers times 100 over the configured limits of those containers,
\* truncated, and 0 when none of them reports a sample.
ReferenceCpu(r) ==
    LET own == {c \in Containers : c.role = r /\ c.name = ContainerName(r)
                                   /\ usage[c] # None}
        limits == Cardinality(own) * (IF tmpl[r] = None THEN 0 ELSE tmpl[r])
    IN  IF limits = 0 THEN 0
        ELSE (100 * MapThenSumSet(LAMBDA c : usage[c], own)) \div limits

\* getCPUUsage: while the spec's CPU limit is the one the pods run with,
\* the percentage written by the PodRunning branch after a successful
\* metrics List is the reference one, sidecars excluded, and 0 without
\* samples.
CpuUsageMatchesReference ==
    [][observe =>
        \A r \in Roles :
          /\ fetched'[r]
          /\ tmpl[r] = None \/ spec[r].cpuLimit = tmpl[r]
          => cpu'[r] = ReferenceCpu(r)]_vars

\* getCPUUsage, whatever the spec says now: the percentage is taken over
\* the limits the containers were created with (spec section 4.6).
CpuAgainstContainerLimit ==
    [][observe => \A r \in Roles : fetched'[r] => cpu'[r] = ReferenceCpu(r)]_vars

=============================================================================
