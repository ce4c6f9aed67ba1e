------------------------------- MODULE Operator -------------------------------
(***************************************************************************)
(* The kubeconfig operator in its cluster: users who reach Kubeconfig      *)
(* objects through the webhooks, the two controllers of the one manager    *)
(* that is active, the API server's other clients, and the manager's       *)
(* crashes.                                                                *)
(***************************************************************************)
EXTENDS Webhook, KubeconfigReconciler, CsrReconciler

Init == ApiInit /\ w = Idle /\ cw = CsrIdle

\* The manager starts afresh: new caches, and every object is queued.
Restart ==
  /\ w' = Idle
  /\ cw' = CsrIdle
  /\ secretCache' = secret
  /\ csrCache' = csr
  /\ crbCache' = crb
  /\ clusterInfoCache' = clusterInfo
  /\ queue' = {k \in Names : kubeconfig[k].exists}
  /\ csrQueue' = {k \in Names : csr[k].exists}
  /\ UNCHANGED <<stored, lastKey>>

Crash == Spend({"crash"}) /\ Restart

\* controller-runtime does not recover panics of a reconcile.
Panic == PanicsOnNilData /\ Restart /\ UNCHANGED used

Next ==
  \/ UserNext \/ ClusterNext
  \/ ReconcilerNext \/ CsrNext
  \/ Crash \/ Panic

Spec == Init /\ [][Next]_vars

-----------------------------------------------------------------------------
(* Fairness.  A worker that has taken a key goes on; the FIFO queues reach  *)
(* every key; watches deliver; the signer and the garbage collector work.   *)
(* Calls that succeed are fair, failures are not.                           *)

Fairness ==
  /\ WF_vars(Reads) /\ WF_vars(Writes("ok")) /\ WF_vars(Panic)
  /\ WF_vars(ApproveCSR("ok"))
  /\ \A k \in Names :
       /\ SF_vars(GetKubeconfig(k)) /\ SF_vars(GetCsrToApprove(k))
       /\ WF_vars(SyncCsr(k)) /\ WF_vars(CollectCsr(k))
       /\ WF_vars(SignerIssue(k) \/ SignerFail(k))
  /\ \A s \in SecretNames : WF_vars(SyncSecret(s)) /\ WF_vars(CollectSecret(s))
  /\ \A u \in Users : WF_vars(SyncCrb(u))

FairSpec == Spec /\ Fairness

\* With the periodic resync.
ResyncSpec == FairSpec /\ \A k \in Names : WF_vars(Resync(k))

-----------------------------------------------------------------------------
(* Properties.                                                              *)

\* Every variable has its type; in particular every stored spec is complete,
\* because the webhook has defaulted it: createClusterRoleBinding dereferences
\* roleRef and createCSR needs an algorithm.
TypeOK == ApiTypeOK /\ ReconcilerTypeOK /\ CsrTypeOK

\* None of these events has happened.
Quiet(kinds) == \A i \in kinds : used[i] = 0

secretOf(k) ==
  IF kubeconfig[k].spec.existingCSR = None THEN k ELSE kubeconfig[k].spec.existingCSR

\* No other Kubeconfig uses the secret of k.
Unshared(k) ==
  \A j \in Names \ {k} : kubeconfig[j].exists => secretOf(j) # secretOf(k)

Finished(k, status) ==
  kubeconfig[k].exists /\ kubeconfig[k].status.KubeconfigFinished = status

Terminal(k) == Finished(k, "True") \/ Finished(k, "False")

\* Whenever a CSR of the operator exists, the private key it was made with is
\* in the user's secret, whatever crashes, lost answers and conflicts came
\* between the update of the secret and the creation of the CSR.  (Not if the
\* cache missed the CSR, a stranger made it, or the secret was removed.)
CsrKeyStored ==
  Quiet({"stale", "foreign", "secretGone", "delete"}) =>
    \A k \in Names : csr[k].exists /\ Unshared(k) =>
                       secret[secretOf(k)].key = csr[k].key

\* The file of a finished Kubeconfig holds a key pair: the private key belongs
\* to the certificate, though key, certificate and file are read from lagging
\* caches and written by different reconciles.
KeyPairKept ==
  Quiet({"stale", "foreign", "secretGone", "delete"}) =>
    \A k \in Names : Finished(k, "True") /\ Unshared(k) =>
      LET file == kubeconfig[k].status.kubeconfig
      IN file.key = file.cert.key /\ file.key # NoKey

\* The certificate in the file of a finished Kubeconfig is for the user the
\* file names, unless somebody edited the username meanwhile.
SubjectKept ==
  Quiet({"edit", "foreign", "delete"}) =>
    \A k \in Names : Finished(k, "True") =>
      LET file == kubeconfig[k].status.kubeconfig IN file.cert.cn = file.user

\* A verdict is final: once a reconcile has ended a Kubeconfig, no reconcile,
\* edit or late status update of an older copy changes its status.
TerminalIsFinal ==
  [][\A k \in Names : Terminal(k) =>
       ~kubeconfig'[k].exists \/ kubeconfig'[k].status = kubeconfig[k].status]_vars

\* A finished Kubeconfig was delivered: its secret holds the same file as its
\* status, and the user in the file has a role binding.
DoneMeansDelivered ==
  Quiet({"secretGone", "delete"}) =>
    \A k \in Names : Finished(k, "True") /\ Unshared(k) =>
      LET file == kubeconfig[k].status.kubeconfig
      IN secret[secretOf(k)].kubeconfig = file /\ crb[file.user].exists

\* The verdict is the CSR's: failed only if the CSR was denied or failed, done
\* only with the certificate of a CSR that somebody approved.  (A stranger's CSR
\* may name an owner that never was and be collected.)
VerdictFollowsCsr ==
  Quiet({"csrGone", "foreign", "delete"}) =>
    \A k \in Names :
      /\ Finished(k, "False") => csr[k].denied \/ csr[k].failed
      /\ Finished(k, "True") =>
           /\ csr[k].approved # "no" /\ ~csr[k].denied
           /\ csr[k].cert = kubeconfig[k].status.kubeconfig.cert

\* No verdict reaches another Kubeconfig than the one it was found for: one that is
\* created again under the name, while a reconcile of its predecessor is under way,
\* is ended only by a reconcile that has read it itself.
VerdictIsItsOwn ==
  [][\A k \in Names : ~Terminal(k) /\ Terminal(k)' =>
       w.name = k /\ w.kc.uid = kubeconfig'[k].uid]_vars

\* At the moment a Kubeconfig becomes Done, its file names the user and the server
\* that its spec asks for then: an edit that comes between the templating of the
\* file and the last status update makes the update fail.
FinishedAsSpecified ==
  [][\A k \in Names : ~Finished(k, "True") /\ Finished(k, "True")' =>
       /\ kubeconfig'[k].status.kubeconfig.user = kubeconfig'[k].spec.username
       /\ kubeconfig'[k].status.kubeconfig.server = kubeconfig'[k].spec.server]_vars

\* Where a config map names the server of the cluster: in the last of the entries
\* without a name.
Publishes(info, server) ==
  LET clusters == info.file.lists["clusters"]
  IN /\ info.exists /\ info.keyed /\ info.parses
     /\ \E i \in DOMAIN clusters :
          /\ clusters[i].name = "" /\ clusters[i].value.server = server
          /\ \A j \in DOMAIN clusters : clusters[j].name = "" => j <= i

\* The server of a Kubeconfig was asked for, or the cluster publishes it, or it is
\* the fallback, which is taken only if the lookup failed or the cluster publishes
\* none.  (Where cluster-info was rewritten, anything it may hold counts.)
ServerFound ==
  LET infos == IF Quiet({"info"}) THEN {clusterInfo} ELSE ClusterInfos IN
  \A k \in Names : kubeconfig[k].exists =>
    LET server == kubeconfig[k].spec.server
    IN \/ server # None /\ \E asked \in Requests : asked.server = server
       \/ \E info \in infos : Publishes(info, server)
       \/ /\ server = Localhost
          /\ \/ ~Quiet({"fault"})
             \/ \E info \in infos : \A other \in Servers \cup {None} :
                                       ~Publishes(info, other)

\* A binding grants its user a role that a Kubeconfig of that user asks for, also
\* where several Kubeconfigs of the user race to create it.
RoleAsked ==
  Quiet({"edit", "delete"}) =>
    \A u \in Users : crb[u].exists =>
      \E k \in Names : /\ kubeconfig[k].exists
                       /\ kubeconfig[k].spec.username = u
                       /\ kubeconfig[k].spec.roleRef = crb[u].role

\* Strangers make their CSRs with keys of their own.
OfStranger(c) == c.key = UserKey

\* The operator approves only CSRs that carry the annotation and refer to some
\* Kubeconfig; and a CSR of its own only if the Kubeconfig it was made for asks
\* for it, unless that one is gone or edited.  (A stranger's CSR with these marks
\* is approved too, whether the Kubeconfig it refers to asks, or exists, or not:
\* the CSR controller looks at nothing else.)
ApprovedOnlyOnRequest ==
  \A k \in Names : csr[k].approved = "operator" =>
    /\ csr[k].autoApprove /\ csr[k].owners # {}
    /\ \A o \in csr[k].owners : ~OfStranger(csr[k]) /\ Alive(o) /\ Quiet({"edit"}) =>
                                   kubeconfig[o[1]].spec.autoApproveCSR

\* Nothing stands still by mistake: of a Kubeconfig without a verdict a reconcile is
\* queued or under way, or a CSR event is due that queues one, or its CSR waits for
\* its decision.  (Some failed calls end a reconcile without a requeue, and the
\* events of a stranger's CSR reach only the Kubeconfigs it refers to.)
NothingForgotten ==
  Quiet({"fault", "foreign"}) =>
    \A k \in Names : kubeconfig[k].exists /\ ~Terminal(k) =>
      \/ k \in queue
      \/ w.pc # "idle" /\ w.name = k
      \/ /\ csrCache[k] # csr[k]
         /\ \E o \in csrCache[k].owners \cup csr[k].owners : o[1] = k
      \/ csr[k].exists /\ isPending(csr[k])

\* Nor does a CSR that the operator is to approve, even if calls fail: the CSR
\* controller has it queued or works on it, or an event is due that queues it.
ApprovalNotForgotten ==
  \A k \in Names :
    (/\ csr[k].exists /\ isPending(csr[k])
     /\ isKubeconfigV1Alpha1CSR(csr[k]) /\ hasAutoApproveAnnotation(csr[k]))
    => \/ k \in csrQueue
       \/ cw.pc # "idle" /\ cw.name = k
       \/ csrCache[k] # csr[k]

\* Nothing is left behind for good: the secret and the CSR under the name of a
\* Kubeconfig that is gone are garbage to the collector, whichever Kubeconfig of
\* that name they were made for and however late.
LeftoversAreGarbage ==
  Quiet({"foreign"}) =>
    \A k \in Names : ~kubeconfig[k].exists =>
      /\ secret[k].exists => Orphaned(secret[k])
      /\ csr[k].exists => Orphaned(csr[k])

\* A Kubeconfig that asks for automatic approval comes to an end.
AutoApprovedEnds ==
  \A k \in Names :
    kubeconfig[k].exists /\ kubeconfig[k].spec.autoApproveCSR
      ~> ~kubeconfig[k].exists \/ Terminal(k)

\* So does one whose CSR was decided by hand and was not deleted since.
DecidedEnds ==
  \A k \in Names :
    kubeconfig[k].exists /\ csr[k].exists /\ (csr[k].denied \/ csr[k].approved # "no")
      ~> ~kubeconfig[k].exists \/ Terminal(k) \/ ~csr[k].exists

\* What the operator made for a Kubeconfig, except for the role binding, goes
\* away with it, even if a reconcile was under way and made it afterwards.
DeletedLeavesNothing ==
  \A k \in Names :
    ~kubeconfig[k].exists
      ~> kubeconfig[k].exists \/ (~secret[k].exists /\ ~csr[k].exists)
-----------------------------------------------------------------------------
(* What the repository says of the operator and the code does not keep.     *)

\* resources.go:120-122: the file is made of the key generated during the CSR
\* generation and the signed certificate, to authenticate with; main.go:79:
\* the Kubeconfig cache is off "to prevent a race condition in the CSR
\* handler".  The CSR is still read from a cache.
KeyMatchesCertificate ==
  \A k \in Names : Finished(k, "True") =>
    LET file == kubeconfig[k].status.kubeconfig IN file.key = file.cert.key

\* resources.go:120-122 again: there is a key.  kubeconfig_controller.go:66-67:
\* after a deletion "kubernetes will garbage collect all other objects with
\* ownership from this controller", also those a new Kubeconfig has adopted.
DoneHasKey ==
  \A k \in Names : Finished(k, "True") => kubeconfig[k].status.kubeconfig.key # NoKey

\* kubeconfig_types.go:50 and config/samples: a Kubeconfig that wants another role
\* than cluster-admin sets it in roleRef, and the binding links against that.
DoneGrantsRole ==
  \A k \in Names : Finished(k, "True") =>
    crb[kubeconfig[k].status.kubeconfig.user].role = kubeconfig[k].spec.roleRef

\* kubeconfig_types.go:31: existingCSR refers to "the secret containing private
\* key and csr", to be used.
ExistingKeyKept ==
  \A s \in ExistingSecrets : secret[s].exists /\ secret[s].data =>
                                secret[s].key = UserKey
=============================================================================
