---------------------------- MODULE PrestoRender ----------------------------
(***************************************************************************)
(* The configuration renderer of the Presto operator                       *)
(* (presto_properties.go, catalog.go) and the names it writes into the     *)
(* rendered files (common_util.go).  The renderer is pure: each operator   *)
(* below is one Go function from the spec record to the file contents.     *)
(*                                                                         *)
(* The harness around it is the part of a reconcile pass that builds and   *)
(* creates the two Services, the three ConfigMaps and the two ReplicaSets, *)
(* in step order, for one spec: a builder error stops the pass, and every  *)
(* later pass hits the same error.  Reconcile's baseLabels map is passed   *)
(* to every step, and the Service steps write their labels into it.        *)
(*                                                                         *)
(* A properties file is the set of its "key=value" lines: the Go code      *)
(* writes them by ranging over a map, so their order is arbitrary.  A      *)
(* jvm.config is the sequence of its lines, whose order matters (the       *)
(* rightmost flag wins).  Numbers are rendered with ToString, as "%d".     *)
(***************************************************************************)
EXTENDS Integers, Sequences, FiniteSets, TLC, SequencesExt, PrestoNames

CONSTANTS
    Specs,          \* the spec records a run starts from
    None,           \* an absent object or a nil pointer
    Unparseable,    \* a quantity string resource.ParseQuantity rejects
    OperatorError   \* the result of a builder that returns an OperatorError

VARIABLES
    spec,     \* the Presto spec the pass renders
    objs,     \* step kind -> the ConfigMap's Data or the ReplicaSet's pod
              \* template, or None before it is created
    failed,   \* the kind whose builder failed, or None
    lbls      \* Reconcile's baseLabels map as the steps so far left it

vars == <<spec, objs, failed, lbls>>

\* constants.go
prestoPort == 8080
mountPath == "/etc/presto"
httpsVolPath == "/etc/httpssecret"
nodePropertiesKey == "node.properties"
configPropertiesKey == "config.properties"
jvmConfigKey == "jvm.config"
prestoShutdownScript == "presto_shutdown.sh"
catalogFileSuffix == ".properties"

(***************************************************************************)
(* The spec record (presto_types.go), with the fields the renderer and the *)
(* builders read.  A quantity string is its byte count or Unparseable, a   *)
(* nil pointer is None, and a Go map[string]string a function to strings.  *)
(* A catalog secret is its key, which also names the Secret.               *)
(***************************************************************************)
IsStringMap(m) == m \in [DOMAIN m -> STRING]

\* CoordinatorSpec: memory, JVM flags, properties and the HTTPS fields.
CoordinatorSpecOK(s) ==
    /\ s.coordinator.mem \in Nat \cup {Unparseable}
    /\ s.coordinator.jvm \in STRING
    /\ IsStringMap(s.coordinator.props)
    /\ s.https \in BOOLEAN
    /\ s.tls \in [name : STRING, key : STRING, password : STRING]

\* WorkerSpec: the same resource fields.
WorkerSpecOK(s) ==
    /\ s.worker.mem \in Nat \cup {Unparseable}
    /\ s.worker.jvm \in STRING
    /\ IsStringMap(s.worker.props)

\* CatalogList: inline catalogs with a name and a content map, and secrets.
CatalogListOK(s) ==
    /\ \A i \in DOMAIN s.catalogs :
         s.catalogs[i].name \in STRING /\ IsStringMap(s.catalogs[i].content)
    /\ s.secrets \in Seq(STRING)

\* ServiceSpec: the two port pointers and the type.
ServiceSpecOK(s) ==
    /\ s.port \in Nat \cup {None}
    /\ s.nodePort \in Nat \cup {None}
    /\ s.svcType \in STRING

\* ImageSpec and PrestoVolumeSpec.
ImageSpecOK(s) == s.prestoPath \in STRING
PrestoVolumeSpecOK(s) == s.volumes \in Seq([name : STRING, path : STRING])

\* PrestoSpec, with the record's name and uuid.
PrestoSpecOK(s) ==
    /\ s.name \in STRING /\ s.uuid \in STRING
    /\ CoordinatorSpecOK(s) /\ WorkerSpecOK(s) /\ CatalogListOK(s)
    /\ ServiceSpecOK(s) /\ ImageSpecOK(s) /\ PrestoVolumeSpecOK(s)
    /\ IsStringMap(s.files)

\* The three ConfigMaps, in the order of their steps in Reconcile.
BundleKinds == <<"coordinatorconfig", "workerconfig", "catalogconfig">>
RoleKinds == {"coordinatorconfig", "workerconfig"}

getPrestoPath(s) == IF s.prestoPath = "" THEN mountPath ELSE s.prestoPath

\* A Go map[string]string rendered as "key=value" lines.
Lines(m) == {<<k, m[k]>> : k \in DOMAIN m}
Keys(lines) == {l[1] : l \in lines}

\* node.properties, the same for both roles.
NodeProps == Lines("node.environment" :> "prestoproduction"
                   @@ "node.data-dir" :> "/data/presto")

\* <<http port, https port>>: the plain port is moved off the Service port
\* when HTTPS takes it.
\* Mutant: the plain port stays on the Service port when that is not 8080.
getHTTPPortSamePort(s) ==
    LET port == IF s.port = None THEN prestoPort ELSE s.port
    IN  IF s.https
        THEN <<IF port = prestoPort THEN prestoPort + 1 ELSE port, port>>
        ELSE <<port, -1>>

getHTTPPort(s) ==
    LET port == IF s.port = None THEN prestoPort ELSE s.port
    IN  IF s.https
        THEN <<IF port = prestoPort THEN prestoPort + 1 ELSE prestoPort, port>>
        ELSE <<port, -1>>

getSystemProps(s, name) ==
    LET hp == getHTTPPort(s)
        uri == "http://" \o name \o ":" \o ToString(hp[1]) \o "\n"
    IN
    CASE s.https /\ s.tls.password = "" -> OperatorError
      [] s.https /\ s.tls.key = "" -> OperatorError
      [] s.https /\ s.tls.name = "" -> OperatorError
      [] s.https ->
              "coordinator" :> "true"
           @@ "node.internal-address" :> name
           @@ "discovery.uri" :> uri
           @@ "node-scheduler.include-coordinator" :> "false"
           @@ "discovery-server.enabled" :> "true"
           @@ "http-server.http.enabled" :> "true"
           @@ "http-server.https.enabled" :> "true"
           @@ "http-server.https.port" :> ToString(hp[2])
           @@ "http-server.http.port" :> ToString(hp[1])
           @@ "http-server.https.keystore.path" :> httpsVolPath \o "/" \o s.tls.key
           @@ "http-server.https.keystore.key" :> s.tls.password
      [] OTHER ->
              "coordinator" :> "true"
           @@ "http-server.http.port" :> ToString(hp[1])
           @@ "node.internal-address" :> name
           @@ "discovery.uri" :> uri
           @@ "node-scheduler.include-coordinator" :> "false"
           @@ "discovery-server.enabled" :> "true"
           @@ "http-server.https.enabled" :> "false"

\* The system properties of a worker.
WorkerSystemProps(s) ==
       "coordinator" :> "false"
    @@ "http-server.http.port" :> ToString(prestoPort)
    @@ "discovery.uri" :> "http://" \o getCoordinatorInternalName(s.uuid)
                            \o ":" \o ToString(getHTTPPort(s)[1])

\* The lines of config.properties: the system properties, then the
\* additional properties, which may not reuse a system key.
\* Mutant: additional properties are appended without the collision check.
RenderPropsUnchecked(sys, extra) == Lines(sys) \cup Lines(extra)

RenderProps(sys, extra) ==
    IF \E k \in DOMAIN extra : k \in DOMAIN sys THEN OperatorError
    ELSE Lines(sys) \cup Lines(extra)

coordinatorConfigPropsMap(s) ==
    LET sys == getSystemProps(s, getCoordinatorInternalName(s.uuid))
    IN  IF sys = OperatorError THEN OperatorError
        ELSE RenderProps(sys, s.coordinator.props)

workerConfigPropsMap(s) == RenderProps(WorkerSystemProps(s), s.worker.props)

\* jvm.config: the fixed baseline flags, the heap, then the extra flags.
\* A quantity is modelled by its Value() in bytes.
addDefaultJVMProps ==
    <<"-server", "-XX:-UseBiasedLocking", "-XX:+UseG1GC",
      "-XX:G1HeapRegionSize=32M", "-XX:+ExplicitGCInvokesConcurrent",
      "-XX:+ExitOnOutOfMemoryError", "-XX:+UseGCOverheadLimit",
      "-XX:+HeapDumpOnOutOfMemoryError", "-XX:ReservedCodeCacheSize=512M",
      "-Djdk.attach.allowAttachSelf=true", "-Djdk.nio.maxCachedBufferSize=2000000">>
\* Mutant: the heap is computed in SI megabytes.
JVMConfigSI(group) ==
    IF group.mem = Unparseable THEN OperatorError
    ELSE addDefaultJVMProps
           \o <<"-Xmx" \o ToString((group.mem \div 1000) \div 1000) \o "m">>
           \o (IF group.jvm = "" THEN <<>> ELSE <<group.jvm>>)

JVMConfig(group) ==
    IF group.mem = Unparseable THEN OperatorError
    ELSE addDefaultJVMProps
           \o <<"-Xmx" \o ToString((group.mem \div 1024) \div 1024) \o "m">>
           \o (IF group.jvm = "" THEN <<>> ELSE <<group.jvm>>)

coordinatorJVMConfigMap(s) == JVMConfig(s.coordinator)
workerJVMConfigMap(s) == JVMConfig(s.worker)

\* The Data of a role's ConfigMap: the fixed files, then the additional
\* files, which overwrite a fixed file of the same name.
\* Mutant: the error of the JVM config is ignored.
buildConfigMapIgnoresJvmError(s, isCoordinator) ==
    LET props == IF isCoordinator THEN coordinatorConfigPropsMap(s)
                                  ELSE workerConfigPropsMap(s)
        jvm == IF isCoordinator THEN coordinatorJVMConfigMap(s)
                                ELSE workerJVMConfigMap(s)
    IN  IF props = OperatorError THEN OperatorError
        ELSE [f \in {nodePropertiesKey, configPropertiesKey, jvmConfigKey,
                      prestoShutdownScript} \cup DOMAIN s.files |->
                CASE f \in DOMAIN s.files -> s.files[f]
                  [] f = configPropertiesKey -> props
                  [] f = jvmConfigKey -> jvm
                  [] f = nodePropertiesKey -> NodeProps
                  [] OTHER -> <<"shutdown", getPrestoPath(s)>>]

buildConfigMap(s, isCoordinator) ==
    LET props == IF isCoordinator THEN coordinatorConfigPropsMap(s)
                                  ELSE workerConfigPropsMap(s)
        jvm == IF isCoordinator THEN coordinatorJVMConfigMap(s)
                                ELSE workerJVMConfigMap(s)
        fixed == [f \in {nodePropertiesKey, configPropertiesKey, jvmConfigKey,
                         prestoShutdownScript} |->
                    CASE f = nodePropertiesKey -> NodeProps
                      [] f = configPropertiesKey -> props
                      [] f = jvmConfigKey -> jvm
                      [] OTHER -> <<"shutdown", getPrestoPath(s)>>]
    IN  IF props = OperatorError \/ jvm = OperatorError THEN OperatorError
        ELSE [f \in DOMAIN fixed \cup DOMAIN s.files |->
                IF f \in DOMAIN s.files THEN s.files[f] ELSE fixed[f]]

\* The external Service's port (services.go getServicePort): the target port
\* is the Service port, and a node port is set for every type but the
\* literal "ClusterIP".
getServicePort(s) ==
    LET port == IF s.port = None THEN prestoPort ELSE s.port
    IN  [port |-> port, targetPort |-> port,
         nodePort |-> IF s.svcType # "ClusterIP" THEN s.nodePort ELSE None]

\* The headless Service (createHeadLessPodDiscoverySvc) and the DNS entry
\* of the coordinator pod (createPrestoPodSpec): the pod is
\* <hostname>.<subdomain> when the subdomain names a headless Service.
HeadlessServiceName(s) == getPodDiscoveryServiceName(s.uuid)
CoordinatorPodDns(s) ==
    [hostname |-> getCoordinatorContainerName(s.uuid),
     subdomain |-> getPodDiscoveryServiceName(s.uuid)]

\* The baseLabels Reconcile starts every pass with.
BaseLabels(s) == "clusterUUID" :> s.uuid @@ "clusterName" :> s.name

\* createHeadLessPodDiscoverySvc: the discovery label is added to the
\* caller's map, which the headless Service takes as labels and selector.
createHeadLessPodDiscoverySvc(s, l) ==
    LET sl == SetLabel(l, getPodDiscoveryServiceLabel(s.uuid))
    IN  [name |-> getPodDiscoveryServiceName(s.uuid), clusterIP |-> "None",
         labels |-> sl, selector |-> sl]

\* createOrGetService: the Service label is added to the caller's map
\* before the ExternalName check; the Service selects the coordinator label.
createOrGetService(s, l) ==
    IF s.svcType = "ExternalName" THEN OperatorError
    ELSE [name |-> getExternalServiceName(s.uuid),
          labels |-> SetLabel(l, getExternalServiceLabel(s.uuid)),
          selector |-> Label(getCoordinatorPodLabel(s.uuid)),
          type |-> s.svcType, ports |-> getServicePort(s)]

\* The baseLabels map after step k: the two Service steps write their label
\* into the map they are passed (services.go lines 20 and 58), and the
\* later steps see it.
\* Mutant: the headless Service step works on a copy of the map.
StepLabelsCopied(k, l) ==
    CASE k = "service" -> SetLabel(l, getExternalServiceLabel(spec.uuid))
      [] OTHER -> l

StepLabels(k, l) ==
    CASE k = "headlessservice" -> SetLabel(l, getPodDiscoveryServiceLabel(spec.uuid))
      [] k = "service" -> SetLabel(l, getExternalServiceLabel(spec.uuid))
      [] OTHER -> l

createCoordinatorConfig(s) == buildConfigMap(s, TRUE)
createWorkerConfig(s) == buildConfigMap(s, FALSE)

(***************************************************************************)
(* Catalogs (catalog.go).  An inline catalog is a name and a content map;  *)
(* a secret catalog is the secret key its file is projected from.          *)
(***************************************************************************)
DefaultCatalogs ==
       "jmx" :> Lines("connector.name" :> "jmx")
    @@ "tpch" :> Lines("connector.name" :> "tpch")
    @@ "tpcds" :> Lines("connector.name" :> "tpcds")

\* A default catalog is kept unless an inline catalog or a secret key has
\* its name.
\* Mutant: only the inline catalogs are looked at.
getDefaultCatalogsNoSecrets(s) ==
    [d \in {d \in DOMAIN DefaultCatalogs :
              ~\E i \in DOMAIN s.catalogs : s.catalogs[i].name = d} |-> DefaultCatalogs[d]]

getDefaultCatalogs(s) ==
    LET claimed(d) == \/ \E i \in DOMAIN s.catalogs : s.catalogs[i].name = d
                      \/ \E i \in DOMAIN s.secrets : s.secrets[i] = d
    IN  [d \in {d \in DOMAIN DefaultCatalogs : ~claimed(d)} |-> DefaultCatalogs[d]]

\* Put one file into a ConfigMap's Data, overwriting a file of that name.
PutFile(data, f, content) ==
    [g \in DOMAIN data \cup {f} |-> IF g = f THEN content ELSE data[g]]

\* The inline catalogs in list order (a later one of the same name
\* overwrites), then the remaining defaults.
buildCatalogConfigMap(s) ==
    LET addCatalog(data, c) == PutFile(data, c.name \o catalogFileSuffix, Lines(c.content))
        inline == FoldLeft(addCatalog, [f \in {} |-> {}], s.catalogs)
        defaults == getDefaultCatalogs(s)
        file(d) == d \o catalogFileSuffix
    IN  [f \in DOMAIN inline \cup {file(d) : d \in DOMAIN defaults} |->
            IF \E d \in DOMAIN defaults : f = file(d)
            THEN defaults[CHOOSE d \in DOMAIN defaults : f = file(d)]
            ELSE inline[f]]

createCatalogConfig(s) == buildCatalogConfigMap(s)

(***************************************************************************)
(* Pod specs (presto_pods.go, catalog.go, presto_properties.go).  A volume *)
(* is its name and the sources it projects; a source is a ConfigMap or a   *)
(* Secret with the items it projects (None: every key under its own name), *)
(* or a volume source of the user's.  A mount is a volume name and a path. *)
(***************************************************************************)
catalogMountPath == "/catalog/"

ConfigMapSource(cm) == [kind |-> "configMap", ref |-> cm, items |-> None]
SecretSource(sec, items) == [kind |-> "secret", ref |-> sec, items |-> items]
UserSource == [kind |-> "user", ref |-> "", items |-> {}]

\* Mutant: the catalog volume is mounted under the default mountPath.
getCatalogVolumeMountFixedPath(s) ==
    [volume |-> [name |-> getCatalogVolName(s.uuid),
                 sources |-> <<ConfigMapSource(getCatalogConfigMapName(s.uuid))>>
                    \o [i \in DOMAIN s.secrets |->
                          SecretSource(s.secrets[i],
                                       {<<s.secrets[i], s.secrets[i] \o catalogFileSuffix>>})]],
     mount |-> [name |-> getCatalogVolName(s.uuid),
                path |-> mountPath \o catalogMountPath]]

\* getCatalogVolumeMount: the catalog ConfigMap, then one item per secret
\* catalog, in one projected volume under the config directory.
getCatalogVolumeMount(s) ==
    [volume |-> [name |-> getCatalogVolName(s.uuid),
                 sources |-> <<ConfigMapSource(getCatalogConfigMapName(s.uuid))>>
                    \o [i \in DOMAIN s.secrets |->
                          SecretSource(s.secrets[i],
                                       {<<s.secrets[i], s.secrets[i] \o catalogFileSuffix>>})]],
     mount |-> [name |-> getCatalogVolName(s.uuid),
                path |-> getPrestoPath(s) \o catalogMountPath]]

\* getPropsVolumeMount: the role's ConfigMap at the Presto path.
getPropsVolumeMount(s, isCoordinator) ==
    LET cm == IF isCoordinator THEN getCoordinatorConfigMapName(s.uuid)
                               ELSE getWorkerConfigMapName(s.uuid)
        vol == IF isCoordinator THEN getCoordinatorConfigVolumeName(s.uuid)
                                ELSE getWorkerConfigVolumeName(s.uuid)
    IN  [volume |-> [name |-> vol, sources |-> <<ConfigMapSource(cm)>>],
         mount |-> [name |-> vol, path |-> getPrestoPath(s)]]

\* getHTTPSVolumeMount: the key-pair secret at httpsVolPath.
getHTTPSVolumeMount(s) ==
    [volume |-> [name |-> getHTTPSSecretVolName(s.uuid),
                 sources |-> <<SecretSource(s.tls.name, None)>>],
     mount |-> [name |-> getHTTPSSecretVolName(s.uuid), path |-> httpsVolPath]]

\* appendAdditionalVolumes and appendAdditionalVolumeMounts.
AdditionalVolumes(s) ==
    [i \in DOMAIN s.volumes |-> [name |-> s.volumes[i].name, sources |-> <<UserSource>>]]
AdditionalVolumeMounts(s) ==
    [i \in DOMAIN s.volumes |-> [name |-> s.volumes[i].name, path |-> s.volumes[i].path]]

\* createPrestoPodSpec: the volumes in the order the helpers append them,
\* the mounts in the order the container gets them; a worker stops through
\* the shutdown script of its ConfigMap; the coordinator is named in DNS.
\* Only the memory limit of the resources is kept (CPU is PrestoObserve's).
createPrestoPodSpec(s, isCoordinator, memLimit) ==
    LET cat == getCatalogVolumeMount(s)
        props == getPropsVolumeMount(s, isCoordinator)
        https == isCoordinator /\ s.https
    IN  [container |-> IF isCoordinator THEN getCoordinatorContainerName(s.uuid)
                                        ELSE getWorkerContainerPrefix(s.uuid),
         memLimit |-> memLimit,
         preStop |-> IF isCoordinator THEN None
                     ELSE getPrestoPath(s) \o "/" \o prestoShutdownScript,
         dns |-> IF isCoordinator THEN CoordinatorPodDns(s) ELSE None,
         volumes |-> <<cat.volume, props.volume>> \o AdditionalVolumes(s)
                       \o (IF https THEN <<getHTTPSVolumeMount(s).volume>> ELSE <<>>),
         mounts |-> <<props.mount, cat.mount>>
                       \o (IF https THEN <<getHTTPSVolumeMount(s).mount>> ELSE <<>>)
                       \o AdditionalVolumeMounts(s)]

\* getPrestoCoordinatorPodSpec and getPrestoWorkerPod: the memory limit is
\* parsed first, and the coordinator's is Worker.MemoryLimit (line 214).
getPrestoCoordinatorPodSpec(s) ==
    IF s.worker.mem = Unparseable THEN OperatorError
    ELSE createPrestoPodSpec(s, TRUE, s.worker.mem)
getPrestoWorkerPod(s) ==
    IF s.worker.mem = Unparseable THEN OperatorError
    ELSE createPrestoPodSpec(s, FALSE, s.worker.mem)

\* createReplicaSetForCoordinator and createReplicaSetForWorker: the
\* ReplicaSet, its selector and its pod template all carry the labels
\* passed in; the template's spec is the pod spec.
createReplicaSetForCoordinator(s, l) ==
    LET pod == getPrestoCoordinatorPodSpec(s)
    IN  IF pod = OperatorError THEN OperatorError ELSE [labels |-> l] @@ pod
createReplicaSetForWorker(s, l) ==
    LET pod == getPrestoWorkerPod(s)
    IN  IF pod = OperatorError THEN OperatorError ELSE [labels |-> l] @@ pod

\* The selectors of the label lookups: getReplicaSet (presto_pods.go) and
\* getCPUUsage list by the role's label alone, getCoordinatorPodPhase by the
\* coordinator's copy of baseLabels, and createOrGetService re-lists after
\* its Create by the map it was passed (services.go line 100).
getReplicaSetSelector(isCoordinator, u) ==
    Label(IF isCoordinator THEN getCoordinatorPodLabel(u) ELSE getWorkerPodLabel(u))
getCPUUsageSelector(isCoordinator, u) ==
    Label(IF isCoordinator THEN getCoordinatorPodLabel(u) ELSE getWorkerPodLabel(u))
getCoordinatorPodPhaseSelector(l, u) == getCoordinatorPodLabels(l, u)
getServiceReListSelector(s, l) == SetLabel(l, getExternalServiceLabel(s.uuid))

(***************************************************************************)
(* The pass that creates the Services, the ConfigMaps and then the         *)
(* ReplicaSets, whose pod templates are the pod specs.  Step k is given    *)
(* the baseLabels map l; the ReplicaSet steps pass their role's copy.      *)
(***************************************************************************)
Steps == <<"headlessservice", "service">> \o BundleKinds
            \o <<"coordinatorreplicaset", "workerreplicaset">>

Build(k, l) ==
    CASE k = "headlessservice" -> createHeadLessPodDiscoverySvc(spec, l)
      [] k = "service" -> createOrGetService(spec, l)
      [] k = "coordinatorconfig" -> createCoordinatorConfig(spec)
      [] k = "workerconfig" -> createWorkerConfig(spec)
      [] k = "catalogconfig" -> createCatalogConfig(spec)
      [] k = "coordinatorreplicaset" ->
            createReplicaSetForCoordinator(spec, getCoordinatorPodLabels(l, spec.uuid))
      [] OTHER -> createReplicaSetForWorker(spec, getWorkerPodLabels(l, spec.uuid))

\* Step i runs when the steps before it have created their objects and
\* no builder has failed.
StepReady(i) ==
    /\ failed = None
    /\ objs[Steps[i]] = None
    /\ \A j \in 1..(i - 1) : objs[Steps[j]] # None

createConfig(i) ==
    /\ StepReady(i)
    /\ Build(Steps[i], lbls) # OperatorError
    /\ objs' = [objs EXCEPT ![Steps[i]] = Build(Steps[i], lbls)]
    /\ lbls' = StepLabels(Steps[i], lbls)
    /\ UNCHANGED <<spec, failed>>

configFails(i) ==
    /\ StepReady(i)
    /\ Build(Steps[i], lbls) = OperatorError
    /\ failed' = Steps[i]
    /\ lbls' = StepLabels(Steps[i], lbls)
    /\ UNCHANGED <<spec, objs>>

Init ==
    /\ spec \in Specs
    /\ objs = [k \in ToSet(Steps) |-> None]
    /\ lbls = BaseLabels(spec)
    /\ failed = None

Next == \E i \in DOMAIN Steps : createConfig(i) \/ configFails(i)

Spec == Init /\ [][Next]_vars

(***************************************************************************)
(* Properties                                                              *)
(***************************************************************************)
Coordinator == "coordinatorconfig"
Worker == "workerconfig"
Catalog == "catalogconfig"

\* The rendered files of a role's ConfigMap that the user did not replace.
Rendered(k, f) == objs[k] # None /\ f \notin DOMAIN spec.files

\* The value of a key in the lines of a properties file.
Val(lines, key) == (CHOOSE l \in lines : l[1] = key)[2]

\* Every ConfigMap holds files of the right shape: properties files are
\* sets of key/value lines, jvm.config a sequence of flags, and a user file
\* a string.
TypeOK ==
    /\ PrestoSpecOK(spec)
    /\ failed \in ToSet(Steps) \cup {None}
    /\ \A k \in RoleKinds : objs[k] # None =>
         /\ {nodePropertiesKey, configPropertiesKey, jvmConfigKey,
             prestoShutdownScript} \subseteq DOMAIN objs[k]
         /\ \A f \in DOMAIN spec.files : objs[k][f] \in STRING
         /\ Rendered(k, configPropertiesKey) =>
              objs[k][configPropertiesKey] \subseteq STRING \X STRING
         /\ Rendered(k, jvmConfigKey) => objs[k][jvmConfigKey] \in Seq(STRING)
    /\ objs[Catalog] # None =>
         \A f \in DOMAIN objs[Catalog] : objs[Catalog][f] \subseteq STRING \X STRING
    /\ lbls \in [DOMAIN lbls -> STRING]
    /\ \A k \in {"coordinatorreplicaset", "workerreplicaset"} : objs[k] # None =>
         /\ objs[k].memLimit \in Nat
         /\ objs[k].labels \in [DOMAIN objs[k].labels -> STRING]
         /\ objs[k].mounts \in Seq([name : STRING, path : STRING])

\* coordinatorConfigPropsMap and workerConfigPropsMap: system properties
\* always win.  An additional property that reuses a system key fails the
\* ConfigMap, and a rendered config.properties has one line per key and
\* every system line.
SystemPropertiesWin ==
    \A k \in RoleKinds :
      LET sys == IF k = Coordinator
                 THEN getSystemProps(spec, getCoordinatorInternalName(spec.uuid))
                 ELSE WorkerSystemProps(spec)
          extra == IF k = Coordinator THEN spec.coordinator.props
                                      ELSE spec.worker.props
      IN  /\ sys # OperatorError /\ DOMAIN extra \cap DOMAIN sys # {}
               => objs[k] = None
          /\ Rendered(k, configPropertiesKey) =>
               LET lines == objs[k][configPropertiesKey]
               IN  /\ \A l, m \in lines : l[1] = m[1] => l = m
                   /\ Lines(sys) \subseteq lines

DiscoveryReachesCoordinator ==
    Rendered(Coordinator, configPropertiesKey) /\ Rendered(Worker, configPropertiesKey) =>
      LET c == objs[Coordinator][configPropertiesKey]
          w == objs[Worker][configPropertiesKey]
          pod == CoordinatorPodDns(spec)
          host == pod.hostname \o "." \o pod.subdomain
          http == Val(c, "http-server.http.port")
          listening == {http} \cup (IF spec.https
                                    THEN {Val(c, "http-server.https.port")}
                                    ELSE {})
      IN  /\ pod.subdomain = HeadlessServiceName(spec)
          /\ Val(c, "node.internal-address") = host
          /\ Val(w, "discovery.uri") = "http://" \o host \o ":" \o http
          /\ ToString(getServicePort(spec).targetPort) \in listening
          /\ spec.https => Cardinality(listening) = 2

\* coordinatorJVMConfigMap and workerJVMConfigMap (spec section 8): the heap
\* flag is floor(bytes / 1048576) MB, and the caller's extra flags come
\* after it, so that they take precedence.
JvmHeapFlag ==
    \A k \in RoleKinds : Rendered(k, jvmConfigKey) =>
      LET group == IF k = Coordinator THEN spec.coordinator ELSE spec.worker
          jvm == objs[k][jvmConfigKey]
          heap == "-Xmx" \o ToString(group.mem \div 1048576) \o "m"
          at == Len(jvm) - (IF group.jvm = "" THEN 0 ELSE 1)
      IN  /\ at \in DOMAIN jvm /\ jvm[at] = heap
          /\ group.jvm # "" => jvm[Len(jvm)] = group.jvm

\* getDefaultCatalogs (spec section 8): a default catalog is in the catalog
\* ConfigMap exactly when no inline catalog and no secret catalog has its
\* name; an inline catalog of that name keeps its own content.
DefaultCatalogsUnlessClaimed ==
    objs[Catalog] # None =>
      \A d \in DOMAIN DefaultCatalogs :
        LET f == d \o catalogFileSuffix
            inline == {i \in DOMAIN spec.catalogs : spec.catalogs[i].name = d}
            secret == \E i \in DOMAIN spec.secrets : spec.secrets[i] = d
        IN  /\ inline = {} /\ ~secret =>
                 f \in DOMAIN objs[Catalog] /\ objs[Catalog][f] = DefaultCatalogs[d]
            /\ inline # {} =>
                 objs[Catalog][f] = Lines(spec.catalogs[Max(inline)].content)
            /\ inline = {} /\ secret => f \notin DOMAIN objs[Catalog]

\* The ReplicaSet steps and the ConfigMap each pod mounts.
PodKinds == {"coordinatorreplicaset", "workerreplicaset"}
RoleOf(k) == IF k = "coordinatorreplicaset" THEN Coordinator ELSE Worker
ConfigMapName(k) ==
    CASE k = Coordinator -> getCoordinatorConfigMapName(spec.uuid)
      [] k = Worker -> getWorkerConfigMapName(spec.uuid)
      [] OTHER -> getCatalogConfigMapName(spec.uuid)

\* The paths a volume source projects, as far as the model knows them: the
\* keys of a ConfigMap the pass created, or the items of a Secret.
SourcePaths(src) ==
    CASE src.kind = "configMap" ->
           LET k == CHOOSE k \in ToSet(BundleKinds) : ConfigMapName(k) = src.ref
           IN  DOMAIN objs[k]
      [] src.items # None -> {it[2] : it \in src.items}
      [] OTHER -> {}

\* The volume a mount refers to.
VolumeOf(pod, m) == CHOOSE v \in ToSet(pod.volumes) : v.name = m.name

\* createPrestoPodSpec with the builders of the ConfigMaps: every mount
\* names a volume of the pod, and every file Presto is pointed at is where
\* it is looked for.  The role's ConfigMap is mounted at some directory
\* etc; the catalog ConfigMap at etc/catalog/; a worker's PreStop hook runs
\* etc/presto_shutdown.sh, which that ConfigMap holds and which reads
\* etc/config.properties; an HTTPS coordinator's keystore path is the
\* secret key under the mount of the key-pair secret.
PodFilesResolve ==
    \A k \in PodKinds : objs[k] # None =>
      LET pod == objs[k]
          r == RoleOf(k)
          mounts == ToSet(pod.mounts)
          projecting(m, src) == src \in ToSet(VolumeOf(pod, m).sources)
      IN  /\ \A m \in mounts : \E v \in ToSet(pod.volumes) : v.name = m.name
          /\ \E m \in mounts :
               LET etc == m.path IN
               /\ projecting(m, ConfigMapSource(ConfigMapName(r)))
               /\ \E c \in mounts :
                    /\ projecting(c, ConfigMapSource(ConfigMapName(Catalog)))
                    /\ c.path = etc \o "/catalog/"
               /\ r = Worker =>
                    /\ pod.preStop = etc \o "/" \o prestoShutdownScript
                    /\ prestoShutdownScript \in DOMAIN objs[r]
                    /\ prestoShutdownScript \notin DOMAIN spec.files =>
                         objs[r][prestoShutdownScript] = <<"shutdown", etc>>
               /\ r = Coordinator /\ spec.https /\ Rendered(r, configPropertiesKey) =>
                    \E h \in mounts :
                      /\ projecting(h, SecretSource(spec.tls.name, None))
                      /\ Val(objs[r][configPropertiesKey], "http-server.https.keystore.path")
                           = h.path \o "/" \o spec.tls.key

\* coordinatorJVMConfigMap and getPrestoCoordinatorPodSpec: the JVM heap
\* of each role fits the memory limit of the container it runs in (the
\* JVM is killed when it outgrows the limit).
HeapWithinContainerLimit ==
    \A k \in PodKinds :
      objs[k] # None /\ Rendered(RoleOf(k), jvmConfigKey) =>
        LET group == IF RoleOf(k) = Coordinator THEN spec.coordinator ELSE spec.worker
        IN  (group.mem \div 1048576) * 1048576 <= objs[k].memLimit

\* A label selector (labels.SelectorFromSet) matches the objects carrying
\* every one of its labels.
Matches(sel, l) == \A k \in DOMAIN sel : k \in DOMAIN l /\ l[k] = sel[k]

(* The label lookups find the objects they are meant to find: the headless *)
(* Service selects the coordinator pod, so that its DNS entry exists; the  *)
(* external Service, getReplicaSet, getCoordinatorPodPhase and getCPUUsage *)
(* select the pods of their role and not the other role's; createOrGet-    *)
(* Service's re-list after a Create finds the external Service and not the *)
(* headless one.  The pods carry the discovery label only because the      *)
(* Service steps write their labels into the baseLabels map Reconcile      *)
(* passes on to the ReplicaSet steps.                                      *)
SelectorsFindOwnPods ==
    LET u == spec.uuid
        h == objs["headlessservice"]
        e == objs["service"]
        pods == [r \in BOOLEAN |->
                   objs[IF r THEN "coordinatorreplicaset" ELSE "workerreplicaset"]]
        sels(r) == {getReplicaSetSelector(r, u), getCPUUsageSelector(r, u)}
                   \cup (IF r THEN {getCoordinatorPodPhaseSelector(lbls, u)} ELSE {})
                   \cup (IF r /\ e # None THEN {e.selector} ELSE {})
    IN  /\ h # None /\ pods[TRUE] # None => Matches(h.selector, pods[TRUE].labels)
        /\ pods[TRUE] # None /\ pods[FALSE] # None =>
             \A r \in BOOLEAN : \A sel \in sels(r) :
               Matches(sel, pods[r].labels) /\ ~Matches(sel, pods[~r].labels)
        /\ h # None /\ e # None =>
             LET sel == getServiceReListSelector(spec, lbls)
             IN  Matches(sel, e.labels) /\ ~Matches(sel, h.labels)

=============================================================================
