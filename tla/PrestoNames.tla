----------------------------- MODULE PrestoNames -----------------------------
(***************************************************************************)
(* The naming deriver (common_util.go): the names the operator gives its   *)
(* objects, containers and DNS entries, from a fixed prefix and the first  *)
(* 8 characters of the cluster uuid.                                       *)
(***************************************************************************)
EXTENDS Sequences, TLC

getPodDiscoveryServiceName(u) == "pod-discovery-" \o SubSeq(u, 1, 8)
getCoordinatorContainerName(u) == "coordinatorcontainer-" \o SubSeq(u, 1, 8)
getWorkerContainerPrefix(u) == "workerrcontainer-" \o SubSeq(u, 1, 8)
getCoordinatorConfigMapName(u) == "coordinatorconfig-" \o SubSeq(u, 1, 8)
getWorkerConfigMapName(u) == "workerconfig-" \o SubSeq(u, 1, 8)
getCatalogConfigMapName(u) == "catalogconfig-" \o SubSeq(u, 1, 8)
getCoordinatorConfigVolumeName(u) == "coordinatorconfvol-" \o SubSeq(u, 1, 8)
\* Mutant: the worker volume takes the coordinator's prefix.
getWorkerConfigVolumeNameCopied(u) == "coordinatorconfvol-" \o SubSeq(u, 1, 8)
getWorkerConfigVolumeName(u) == "workerconfvol-" \o SubSeq(u, 1, 8)
getCatalogVolName(u) == "catalogvol-" \o SubSeq(u, 1, 8)
getHTTPSSecretVolName(u) == "httpssecret-" \o SubSeq(u, 1, 8)
getExternalServiceName(u) == "external-presto-svc-" \o SubSeq(u, 1, 8)
getCoordinatorPodName(u) == "coordinatorpod-" \o SubSeq(u, 1, 8)
getCoordinatorReplicaset(u) == "coordinatorreplicaset-" \o SubSeq(u, 1, 8)
getWorkerReplicaSet(u) == "workerreplicaset-" \o SubSeq(u, 1, 8)
getHPAName(u) == "hpa-" \o SubSeq(u, 1, 8)
getCoordinatorInternalName(u) ==
    getCoordinatorContainerName(u) \o "." \o getPodDiscoveryServiceName(u)

(* The labels: a label is a <<key, value>> pair, a label set (a Go         *)
(* map[string]string) a function from keys to values.                      *)
getPodDiscoveryServiceLabel(u) == <<"pod-discovery", u>>
getExternalServiceLabel(u) == <<"external-presto-svc", u>>
getCoordinatorPodLabel(u) == <<"coordinator", u>>
getWorkerPodLabel(u) == <<"worker", u>>

\* labels.Set{k: v}, the one-label set of a selector.
Label(kv) == kv[1] :> kv[2]

\* lbls[k] = v on a map: the label replaces any value of its key.
SetLabel(l, kv) == (kv[1] :> kv[2]) @@ l

\* getCoordinatorPodLabels and getWorkerPodLabels copy the base labels and
\* add the role's label to the copy.
getCoordinatorPodLabels(base, u) == SetLabel(base, getCoordinatorPodLabel(u))
getWorkerPodLabels(base, u) == SetLabel(base, getWorkerPodLabel(u))

=============================================================================
