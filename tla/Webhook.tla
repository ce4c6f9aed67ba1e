------------------------------- MODULE Webhook -------------------------------
(***************************************************************************)
(* Admission of Kubeconfig objects: the defaulting and the validating      *)
(* webhook, which the API server calls on every create and update of       *)
(* "kubeconfigs" (not of "kubeconfigs/status"), and what the API server    *)
(* then stores.  kubectl is how users reach it.                            *)
(***************************************************************************)
EXTENDS ApiServer, ConfigFile, Sequences

-----------------------------------------------------------------------------
(* utils.ClusterEndpoint.                                                   *)

\* The server of the cluster without a name, the one kubeadm puts into the file
\* of the config map; none if the map, its key "kubeconfig" or that cluster is
\* missing, or if what is under the key does not parse.
ClusterEndpoint(info) ==
  LET clusters == Unmarshal(info.file).maps["clusters"]
  IN IF info.exists /\ info.keyed /\ info.parses
     THEN {clusters[n].server : n \in DOMAIN clusters \cap {""}} ELSE {}

ASSUME ClusterInfosAssumption ==
  \A info \in ClusterInfos :
    LET clusters == info.file.lists["clusters"]
    IN /\ clusters \in Seq({clusters[i] : i \in DOMAIN clusters})
       /\ ClusterEndpoint(info) \subseteq Servers \cup {None}

-----------------------------------------------------------------------------
(* kubeconfigDefaulter.                                                     *)

\* A missing server is the one found in the cluster, be it empty, or else
\* localhost.
DefaultServer(server, found) ==
  IF server # None THEN server
  ELSE IF found = {} THEN Localhost ELSE CHOOSE s \in found : TRUE

\* Mutant: the role reference is left as it was sent.
DefaultSpecWithoutRole(spec, found) ==
  [spec EXCEPT !.signatureAlgorithm = IF @ = "" THEN "SHA256WithRSA" ELSE @,
               !.server = DefaultServer(@, found)]

\* A missing role reference is cluster-admin, a missing algorithm SHA256WithRSA.
DefaultSpec(spec, found) ==
  [spec EXCEPT !.signatureAlgorithm = IF @ = "" THEN "SHA256WithRSA" ELSE @,
               !.roleRef = IF @ = None THEN ClusterAdmin ELSE @,
               !.server = DefaultServer(@, found)]

IfAbsent(condition) == IF condition = "Absent" THEN "Unknown" ELSE condition

\* A missing condition is Unknown, and the phase is Pending.
DefaultStatus(status) ==
  [status EXCEPT !.CSRCreated = IfAbsent(@), !.CSRApproved = IfAbsent(@),
                 !.UserSecretCreated = IfAbsent(@),
                 !.UserSecretFinished = IfAbsent(@),
                 !.KubeconfigFinished = IfAbsent(@),
                 !.phase = "Pending"]

Default(slot, found) ==
  [slot EXCEPT !.spec = DefaultSpec(@, found), !.status = DefaultStatus(@)]

\* What Default finds in the cluster.  The lookup may fail, since it is the first
\* read of a config map in the life of the process.
Lookup == {"ok", "failed"}
Found(lookup) == IF lookup = "ok" THEN ClusterEndpoint(clusterInfoCache) ELSE {}

LookupCost(lookup) == IF lookup = "ok" THEN {} ELSE {"fault"}

\* kubeconfigValidator compares only these two fields (spec.csr is the
\* signature algorithm here).
ValidateUpdate(old, new) ==
  /\ old.spec.existingCSR = new.spec.existingCSR
  /\ old.spec.signatureAlgorithm = new.spec.signatureAlgorithm

\* The status is a subresource: after the webhooks have run, the API server
\* drops what a create or an update of the object itself says about it.
KeepStatus(slot, old) == [slot EXCEPT !.status = old.status]

AdmitKubeconfig(k, new) ==
  /\ kubeconfig' = [kubeconfig EXCEPT ![k] = new]
  /\ queue' = queue \cup {k}
  /\ UNCHANGED <<secret, csr, crb, clusterInfo, caches, csrQueue, workers, lastKey>>

CreateKubeconfig(k, spec, lookup) ==
  LET asked == [NoKubeconfig EXCEPT !.spec = spec, !.uid = kubeconfig[k].rv + 1]
  IN /\ ~kubeconfig[k].exists
     /\ Spend({"create"} \cup LookupCost(lookup))
     /\ AdmitKubeconfig(k, Created(kubeconfig[k],
                             KeepStatus(Default(asked, Found(lookup)), NoKubeconfig)))

UpdateKubeconfig(k, spec, lookup) ==
  LET old == kubeconfig[k]
      new == KeepStatus(Default([old EXCEPT !.spec = spec], Found(lookup)), old)
  IN /\ old.exists
     /\ new # old
     /\ ValidateUpdate(old, new)
     /\ Spend({"edit"} \cup LookupCost(lookup))
     /\ AdmitKubeconfig(k, Stored(old, new))

\* Deleted in the background, kubectl's default: the object goes first.
DeleteKubeconfig(k) ==
  /\ kubeconfig[k].exists
  /\ Spend({"delete"})
  /\ AdmitKubeconfig(k, Removed(kubeconfig[k], NoKubeconfig))

UserNext ==
  \E k \in Names :
    \/ \E spec \in Requests, lookup \in Lookup :
         CreateKubeconfig(k, spec, lookup) \/ UpdateKubeconfig(k, spec, lookup)
    \/ DeleteKubeconfig(k)
=============================================================================
