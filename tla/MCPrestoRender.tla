--------------------------- MODULE MCPrestoRender ---------------------------
(***************************************************************************)
(* The spec records for PrestoRender.  Each family varies the fields one   *)
(* ConfigMap reads and keeps the others at a valid base spec, so that the  *)
(* families stay small while every branch of their renderer is reached.    *)
(***************************************************************************)
EXTENDS PrestoRender

NoProps == [k \in {} |-> ""]
Uuid == "1b4e28ba-2fa1-11d2-883f-0016d3cca427"
Gi == 1024 * 1024 * 1024

Group(m, j, p) == [mem |-> m, jvm |-> j, props |-> p]

Base == [uuid |-> Uuid, name |-> "presto", svcType |-> "", nodePort |-> None,
         prestoPath |-> "", port |-> None, https |-> FALSE,
         tls |-> [name |-> "", key |-> "", password |-> ""],
         coordinator |-> Group(Gi, "", NoProps),
         worker |-> Group(Gi, "", NoProps),
         files |-> NoProps, catalogs |-> <<>>, secrets |-> <<>>, volumes |-> <<>>]

\* A map of additional properties or files, each with a user value.
UserMaps(keys) == {[k \in K |-> "user"] : K \in SUBSET keys}

\* Byte counts around the MiB boundary, zero, the largest TLC integer, and
\* an unparseable string.
Mems == {Unparseable, 0, 1048575, 1048576, 2147483647}
JvmExtras == {"", "-Xmx512m"}
Ports == {None, 8080, 8081, 9000}
FullTls == [name |-> "sec", key |-> "k", password |-> "pw"]
TlsChoices == {FullTls,
               [name |-> "", key |-> "k", password |-> "pw"],
               [name |-> "sec", key |-> "", password |-> "pw"],
               [name |-> "sec", key |-> "k", password |-> ""]}
Files == UserMaps({"config.properties", "log.properties"})

CoordinatorFamily ==
    {[Base EXCEPT !.https = h, !.tls = t, !.port = p, !.prestoPath = pp,
                  !.coordinator = Group(m, j, pr), !.files = f] :
        h \in BOOLEAN, t \in TlsChoices, p \in Ports, pp \in {"", "/opt/presto"},
        m \in Mems, j \in JvmExtras, f \in Files,
        pr \in UserMaps({"coordinator", "query.max-memory", "http-server.https.port"})}

\* A user volume, mounted apart from the operator's.
UserVolumes == {<<>>, <<[name |-> "data", path |-> "/data"]>>}

WorkerFamily ==
    {[Base EXCEPT !.https = h, !.tls = FullTls, !.port = p, !.prestoPath = pp,
                  !.worker = Group(m, j, pr), !.volumes = v] :
        h \in BOOLEAN, p \in Ports, pp \in {"", "/opt/presto"}, v \in UserVolumes,
        m \in Mems, j \in JvmExtras,
        pr \in UserMaps({"coordinator", "discovery.uri", "query.max-memory"})}

\* The Service types, the default among them, with and without a node port.
ServiceFamily ==
    {[Base EXCEPT !.svcType = t, !.nodePort = np, !.port = p] :
        t \in {"", "ClusterIP", "NodePort", "ExternalName"},
        np \in {None, 30080}, p \in {None, 9000}}

CatalogNames == {"tpch", "hive"}
SecretKeys == {"tpch", "jmx", "hive"}
Inline(n) == [name |-> n, content |-> ("connector.name" :> n)]

CatalogFamily ==
    {[Base EXCEPT !.catalogs = [i \in DOMAIN c |-> Inline(c[i])], !.secrets = sk] :
        c \in BoundedSeq(CatalogNames, 2), sk \in BoundedSeq(SecretKeys, 2)}

\* One secret catalog at most, so that a clash can only be between an
\* inline catalog and a secret catalog.
SpecsCatalog ==
    {[Base EXCEPT !.catalogs = [i \in DOMAIN c |-> Inline(c[i])], !.secrets = sk] :
        c \in BoundedSeq(CatalogNames, 2), sk \in BoundedSeq(SecretKeys, 1)}

\* Three uuids: the base one, one that shares its first 8 characters, and
\* one that differs in the 8th.
NameUuids == {Uuid, "1b4e28ba-9999-11d2-883f-0016d3cca427",
              "1b4e28bb-2fa1-11d2-883f-0016d3cca427"}

\* Every name the naming deriver gives, by kind.
Namers(u) ==
    [discovery |-> getPodDiscoveryServiceName(u), external |-> getExternalServiceName(u),
     coordinatorpod |-> getCoordinatorPodName(u),
     coordinatorrs |-> getCoordinatorReplicaset(u), workerrs |-> getWorkerReplicaSet(u),
     hpa |-> getHPAName(u), coordinatorcontainer |-> getCoordinatorContainerName(u),
     workercontainer |-> getWorkerContainerPrefix(u),
     coordinatorcm |-> getCoordinatorConfigMapName(u), workercm |-> getWorkerConfigMapName(u),
     catalogcm |-> getCatalogConfigMapName(u),
     coordinatorvol |-> getCoordinatorConfigVolumeName(u),
     workervol |-> getWorkerConfigVolumeName(u), catalogvol |-> getCatalogVolName(u),
     httpsvol |-> getHTTPSSecretVolName(u)]

(* The naming deriver (spec 4.1, common_util.go): once a pass has created *)
(* every object, no two kinds of its names coincide, and another cluster   *)
(* gets one of its names exactly when their uuids agree on the first 8     *)
(* characters, the case in which that cluster's Create of the name fails   *)
(* with AlreadyExists on every pass.                                       *)
NamesCollideOnlyOnSharedPrefix ==
    objs["workerreplicaset"] # None =>
      LET u1 == spec.uuid IN
      \A u2 \in NameUuids : \A k1, k2 \in DOMAIN Namers(u1) :
        Namers(u1)[k1] = Namers(u2)[k2] <=> k1 = k2 /\ SubSeq(u1, 1, 8) = SubSeq(u2, 1, 8)

SpecsAll == CoordinatorFamily \cup WorkerFamily \cup CatalogFamily \cup ServiceFamily

=============================================================================
