------------------------------ MODULE ApiServer ------------------------------
(***************************************************************************)
(* The objects the operator reads and writes, as the Kubernetes API server *)
(* stores them, and the informer caches through which the operator's       *)
(* manager reads secrets, certificate signing requests (CSRs) and cluster  *)
(* role bindings.  Only Kubeconfig objects are read from the server        *)
(* itself: main.go lists them in ClientDisableCacheFor.  The webhooks read *)
(* the config map kube-public/cluster-info through the same caches.        *)
(*                                                                         *)
(* A slot is the state of one object name: exists says whether the object  *)
(* is there, rv counts the writes the server applied under that name (its  *)
(* resourceVersion; equal versions mean equal contents).                   *)
(***************************************************************************)
EXTENDS Naturals

CONSTANTS
  Names,            \* names of Kubeconfig objects
  Users,            \* user names
  Roles,            \* role references
  ClusterAdmin,     \* the role reference the webhook defaults to
  Servers,          \* endpoints of API servers
  Localhost,        \* the endpoint the webhook falls back to
  ClusterInfos,     \* what the config map cluster-info may hold, or None
  ExistingSecrets,  \* secrets a user prepared and may name in existingCSR
  None,             \* an absent reference
  Requests,         \* the specs users submit
  Limit             \* how often each kind of environment event may happen

Kinds == {"create", "edit", "delete", "csrGone", "secretGone", "foreign",
          "decide", "info", "fault", "crash", "stale"}

VARIABLES
  kubeconfig,   \* Kubeconfig objects by name
  secret,       \* user secrets; the secret <k>-client-cert is under k
  csr,          \* CSRs by name; the controller names them after the Kubeconfig
  crb,          \* cluster role bindings; <u>-kubeconfig is under u
  clusterInfo,  \* the config map kube-public/cluster-info
  secretCache, csrCache, crbCache, clusterInfoCache,  \* the manager's copies
  queue,        \* work queue of the Kubeconfig controller
  csrQueue,     \* work queue of the CSR controller
  w, cw,        \* the workers of the Kubeconfig and of the CSR controller
  lastKey,      \* the private key generated last
  used          \* environment events so far, by kind

stored == <<kubeconfig, secret, csr, crb, clusterInfo>>
caches == <<secretCache, csrCache, crbCache, clusterInfoCache>>
workers == <<w, cw>>
vars == <<stored, caches, queue, csrQueue, workers, lastKey, used>>

-----------------------------------------------------------------------------
(* Data.  Private keys are numbered in the order they are generated: 0 is   *)
(* the empty value a fresh secret holds, 1 the key of a prepared secret.    *)

NoKey == 0
UserKey == 1

Certificate == [key : Nat, cn : Users \cup {None}]
NoCert == [key |-> NoKey, cn |-> None]

\* What createKubeconfig templates: the key pair, the user it is for and the
\* server it is for; None is also the empty server.
KubeconfigFile == [key : Nat, cert : Certificate, user : Users \cup {None},
                   server : Servers \cup {None}]
NoFile == [key |-> NoKey, cert |-> NoCert, user |-> None, server |-> None]

Owner == Names \X Nat

SignatureAlgorithm ==
  {"SHA256WithRSA", "SHA384WithRSA", "SHA512WithRSA", "ECDSAWithSHA256",
   "ECDSAWithSHA384", "ECDSAWithSHA512", "SHA256WithRSAPSS",
   "SHA384WithRSAPSS", "SHA512WithRSAPSS", "PureEd25519"}

\* Algorithm, role and server are what the user may leave out.
KubeconfigSpec ==
  [username : Users, existingCSR : ExistingSecrets \cup {None},
   autoApproveCSR : BOOLEAN, signatureAlgorithm : SignatureAlgorithm \cup {""},
   roleRef : Roles \cup {None}, server : Servers \cup {None}]

ASSUME ConstantsAssumption ==
  /\ None \notin Names \cup Users \cup Roles \cup ExistingSecrets \cup Servers
  /\ Names \cap ExistingSecrets = {}
  /\ ClusterAdmin \in Roles /\ Localhost \in Servers
  /\ Requests \subseteq KubeconfigSpec
  /\ Limit \in [Kinds -> Nat]

ConditionStatus == {"Absent", "Unknown", "True", "False"}
Phase == {"", "Unknown", "Pending", "Awaiting Approval", "Done", "Failed"}

KubeconfigStatus ==
  [CSRCreated : ConditionStatus, CSRApproved : ConditionStatus,
   UserSecretCreated : ConditionStatus, UserSecretFinished : ConditionStatus,
   KubeconfigFinished : ConditionStatus, phase : Phase,
   userSecret : BOOLEAN, csr : BOOLEAN, kubeconfig : KubeconfigFile]

NoStatus ==
  [CSRCreated |-> "Absent", CSRApproved |-> "Absent",
   UserSecretCreated |-> "Absent", UserSecretFinished |-> "Absent",
   KubeconfigFinished |-> "Absent", phase |-> "",
   userSecret |-> FALSE, csr |-> FALSE, kubeconfig |-> NoFile]

Blank == [username |-> None, existingCSR |-> None, autoApproveCSR |-> FALSE,
          signatureAlgorithm |-> "", roleRef |-> None, server |-> None]

KubeconfigSlot ==
  [exists : BOOLEAN, rv : Nat, uid : Nat, spec : KubeconfigSpec \cup {Blank},
   status : KubeconfigStatus]
NoKubeconfig == [exists |-> FALSE, rv |-> 0, uid |-> 0, spec |-> Blank,
                 status |-> NoStatus]

\* data: the secret has a data map.  key stands for tls.key and tls.csr,
\* which the controller always writes together.
SecretSlot ==
  [exists : BOOLEAN, rv : Nat, data : BOOLEAN, key : Nat, cert : Certificate,
   kubeconfig : KubeconfigFile, owners : SUBSET Owner]
NoSecret == [exists |-> FALSE, rv |-> 0, data |-> FALSE, key |-> NoKey,
             cert |-> NoCert, kubeconfig |-> NoFile, owners |-> {}]

\* cn: the subject's common name; autoApprove: it carries the annotation;
\* approved: who wrote the Approved condition (its reason tells), or "no".
CsrSlot ==
  [exists : BOOLEAN, rv : Nat, key : Nat, cn : Users \cup {None},
   autoApprove : BOOLEAN, owners : SUBSET Owner,
   approved : {"no", "operator", "admin"}, denied : BOOLEAN, failed : BOOLEAN,
   cert : Certificate]
NoCsr == [exists |-> FALSE, rv |-> 0, key |-> NoKey, cn |-> None,
          autoApprove |-> FALSE, owners |-> {}, approved |-> "no",
          denied |-> FALSE, failed |-> FALSE, cert |-> NoCert]

CrbSlot == [exists : BOOLEAN, rv : Nat, role : Roles \cup {None},
            owners : SUBSET Owner]
NoCrb == [exists |-> FALSE, rv |-> 0, role |-> None, owners |-> {}]

SecretNames == Names \cup ExistingSecrets

StoredSpec == [username : Users, existingCSR : ExistingSecrets \cup {None},
               autoApproveCSR : BOOLEAN, signatureAlgorithm : SignatureAlgorithm,
               roleRef : Roles, server : Servers \cup {None}]

ApiTypeOK ==
  /\ kubeconfig \in [Names -> KubeconfigSlot]
  /\ \A k \in Names : kubeconfig[k].exists => kubeconfig[k].spec \in StoredSpec
  /\ secret \in [SecretNames -> SecretSlot]
  /\ csr \in [Names -> CsrSlot]
  /\ crb \in [Users -> CrbSlot]
  /\ clusterInfo \in ClusterInfos
  /\ secretCache \in [SecretNames -> SecretSlot]
  /\ csrCache \in [Names -> CsrSlot]
  /\ crbCache \in [Users -> CrbSlot]
  /\ clusterInfoCache \in ClusterInfos
  /\ queue \subseteq Names
  /\ csrQueue \subseteq Names
  /\ lastKey \in Nat
  /\ used \in [Kinds -> Nat]

ApiInit ==
  /\ kubeconfig = [k \in Names |-> NoKubeconfig]
  /\ secret = [s \in SecretNames |-> NoSecret]
  /\ csr = [k \in Names |-> NoCsr]
  /\ crb = [u \in Users |-> NoCrb]
  /\ clusterInfo \in ClusterInfos
  /\ secretCache = secret
  /\ csrCache = csr
  /\ crbCache = crb
  /\ clusterInfoCache = clusterInfo
  /\ queue = {}
  /\ csrQueue = {}
  /\ lastKey = UserKey
  /\ used = [i \in Kinds |-> 0]

-----------------------------------------------------------------------------
(* Writes.  An update carries the version of the copy it was made from and  *)
(* is refused unless that is the stored one; an update that changes nothing *)
(* is accepted without a new version.                                       *)

Current(copy, slot) == slot.exists /\ copy.rv = slot.rv

Stored(slot, new) ==
  IF new = [slot EXCEPT !.rv = new.rv] THEN slot
                                       ELSE [new EXCEPT !.rv = slot.rv + 1]

Created(slot, new) == [new EXCEPT !.exists = TRUE, !.rv = slot.rv + 1]

Removed(slot, absent) == [absent EXCEPT !.rv = slot.rv + 1]

\* The event of a deletion carries the object's last state, and so its owners.
RemovedCsr(slot) == Removed(slot, [NoCsr EXCEPT !.owners = slot.owners])

\* One event of each of these kinds, whose numbers Limit bounds.
Spend(kinds) ==
  /\ \A i \in kinds : used[i] < Limit[i]
  /\ used' = [i \in Kinds |-> IF i \in kinds THEN used[i] + 1 ELSE used[i]]

\* The caller sees an error where the write was not applied ("error") and
\* where it was, but its answer did not arrive ("lost").
Reply == {"ok", "error", "lost"}

Answer(reply) == Spend(IF reply = "ok" THEN {} ELSE {"fault"})

\* The owner reference still names a Kubeconfig that exists.
Alive(owner) ==
  /\ kubeconfig[owner[1]].exists
  /\ kubeconfig[owner[1]].uid = owner[2]

-----------------------------------------------------------------------------
(* The watches.  A cache entry catches up with the server at any later time *)
(* and may skip versions.  A CSR event goes to the CSR controller (For) and *)
(* to the Kubeconfig controller as a request for the owner (Owns); secrets  *)
(* and cluster role bindings are cached but trigger nothing.                *)

SyncSecret(s) ==
  /\ secretCache[s] # secret[s]
  /\ secretCache' = [secretCache EXCEPT ![s] = secret[s]]
  /\ UNCHANGED <<stored, csrCache, crbCache, clusterInfoCache, queue, csrQueue,
                 workers, lastKey, used>>

SyncCsr(k) ==
  /\ csrCache[k] # csr[k]
  /\ csrCache' = [csrCache EXCEPT ![k] = csr[k]]
  /\ csrQueue' = csrQueue \cup {k}
  /\ queue' = queue \cup {o[1] : o \in csrCache[k].owners \cup csr[k].owners}
  /\ UNCHANGED <<stored, secretCache, crbCache, clusterInfoCache, workers,
                 lastKey, used>>

SyncCrb(u) ==
  /\ crbCache[u] # crb[u]
  /\ crbCache' = [crbCache EXCEPT ![u] = crb[u]]
  /\ UNCHANGED <<stored, secretCache, csrCache, clusterInfoCache, queue, csrQueue,
                 workers, lastKey, used>>

SyncClusterInfo ==
  /\ clusterInfoCache # clusterInfo
  /\ clusterInfoCache' = clusterInfo
  /\ UNCHANGED <<stored, secretCache, csrCache, crbCache, queue, csrQueue,
                 workers, lastKey, used>>

\* The periodic resync of the informers, every ten hours by default.  It also
\* stands for Kubeconfig events that arrive after a reconcile saw their cause.
Resync(k) ==
  /\ kubeconfig[k].exists
  /\ k \notin queue
  /\ queue' = queue \cup {k}
  /\ UNCHANGED <<stored, caches, csrQueue, workers, lastKey, used>>

-----------------------------------------------------------------------------
(* The other clients of the API server.                                     *)

ChangeCsr(k, new) ==
  /\ csr' = [csr EXCEPT ![k] = new]
  /\ UNCHANGED <<kubeconfig, secret, crb, clusterInfo, caches, queue, csrQueue,
                 workers, lastKey>>

Undecided(c) == c.exists /\ c.approved = "no" /\ ~c.denied

\* A cluster admin decides a CSR with kubectl certificate approve or deny.
AdminApprove(k) ==
  /\ Undecided(csr[k])
  /\ Spend({"decide"})
  /\ ChangeCsr(k, Stored(csr[k], [csr[k] EXCEPT !.approved = "admin"]))

AdminDeny(k) ==
  /\ Undecided(csr[k])
  /\ Spend({"decide"})
  /\ ChangeCsr(k, Stored(csr[k], [csr[k] EXCEPT !.denied = TRUE]))

\* The signer works on an approved CSR once: it issues or it fails it.
Signable(c) ==
  /\ c.exists /\ c.approved # "no" /\ ~c.denied /\ ~c.failed
  /\ c.cert = NoCert

SignerIssue(k) ==
  /\ Signable(csr[k])
  /\ ChangeCsr(k, Stored(csr[k], [csr[k] EXCEPT
                    !.cert = [key |-> csr[k].key, cn |-> csr[k].cn]]))
  /\ UNCHANGED used

SignerFail(k) ==
  /\ Signable(csr[k])
  /\ ChangeCsr(k, Stored(csr[k], [csr[k] EXCEPT !.failed = TRUE]))
  /\ UNCHANGED used

\* What anybody may write into a CSR as its owners: Kubeconfigs that are there,
\* or ones that never were (uid 0), of any name.
References == Names \X {0} \cup {<<j, kubeconfig[j].uid>> : j \in Names}

\* Somebody else's CSR, made with a key of their own, takes the name, with or
\* without the annotation and with any owner references.
ForeignCsr(k, annotated, owners) ==
  /\ ~csr[k].exists
  /\ Spend({"foreign"})
  /\ ChangeCsr(k, Created(csr[k], [NoCsr EXCEPT !.key = UserKey,
                                               !.autoApprove = annotated,
                                               !.owners = owners]))

\* "The CSR was deleted, either by hand or by decay."
CsrGone(k) ==
  /\ csr[k].exists
  /\ Spend({"csrGone"})
  /\ ChangeCsr(k, RemovedCsr(csr[k]))

ChangeSecret(s, new) ==
  /\ secret' = [secret EXCEPT ![s] = new]
  /\ UNCHANGED <<kubeconfig, csr, crb, clusterInfo, caches, queue, csrQueue,
                 workers, lastKey>>

\* A user prepares a secret for existingCSR, or creates it empty.
ProvideSecret(s, filled) ==
  /\ ~secret[s].exists
  /\ ChangeSecret(s, Created(secret[s], [NoSecret EXCEPT
                       !.data = filled, !.key = IF filled THEN UserKey ELSE NoKey]))
  /\ UNCHANGED used

SecretGone(s) ==
  /\ secret[s].exists
  /\ Spend({"secretGone"})
  /\ ChangeSecret(s, Removed(secret[s], NoSecret))

\* Garbage collection of objects none of whose owners exists any more.
Orphaned(slot) ==
  /\ slot.exists /\ slot.owners # {}
  /\ \A o \in slot.owners : ~Alive(o)

CollectSecret(s) ==
  /\ Orphaned(secret[s])
  /\ ChangeSecret(s, Removed(secret[s], NoSecret))
  /\ UNCHANGED used

CollectCsr(k) ==
  /\ Orphaned(csr[k])
  /\ ChangeCsr(k, RemovedCsr(csr[k]))
  /\ UNCHANGED used

\* kubeadm, or whoever runs the cluster, writes or removes the config map.
PublishClusterInfo(info) ==
  /\ info # clusterInfo
  /\ Spend({"info"})
  /\ clusterInfo' = info
  /\ UNCHANGED <<kubeconfig, secret, csr, crb, caches, queue, csrQueue, workers,
                 lastKey>>

ClusterNext ==
  \/ \E s \in SecretNames : SyncSecret(s) \/ SecretGone(s) \/ CollectSecret(s)
  \/ \E s \in ExistingSecrets, filled \in BOOLEAN : ProvideSecret(s, filled)
  \/ \E k \in Names :
       \/ SyncCsr(k) \/ Resync(k)
       \/ AdminApprove(k) \/ AdminDeny(k) \/ SignerIssue(k) \/ SignerFail(k)
       \/ CsrGone(k) \/ CollectCsr(k)
       \/ \E annotated \in BOOLEAN, owners \in SUBSET References :
            ForeignCsr(k, annotated, owners)
  \/ \E u \in Users : SyncCrb(u)
  \/ \E info \in ClusterInfos : PublishClusterInfo(info)
  \/ SyncClusterInfo
=============================================================================
