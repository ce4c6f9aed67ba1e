---------------------------- MODULE ProgressProofs ----------------------------
(***************************************************************************)
(* Nothing is forgotten: proofs of ApprovalNotForgotten, of                *)
(* LeftoversAreGarbage and of NothingForgotten for any value of the        *)
(* constants.                                                              *)
(*                                                                         *)
(* These are the safety half of the operator's progress.  Each says that   *)
(* what is still to be done is in somebody's hands: in a work queue, with  *)
(* a worker, in an event that is due, with the garbage collector.  That    *)
(* each of those acts in the end is left to the runs under fairness.       *)
(***************************************************************************)
EXTENDS KeyProofs

-----------------------------------------------------------------------------
(* The CSR controller.                                                      *)

\* What a step does to its queue, its worker and its cache.
ApproverStep ==
  \/ UNCHANGED <<cw, csrQueue, csrCache>>
  \/ Restart
  \/ \E k \in Names : SyncCsr(k) \/ GetCsrToApprove(k)
  \/ \E reply \in Reply : ApproveCSR(reply)

LEMMA ApproverSteps == ASSUME [Next]_vars PROVE ApproverStep
<1>1. CASE UserNext \/ UNCHANGED vars
  BY <1>1 DEF UserNext, CreateKubeconfig, UpdateKubeconfig, DeleteKubeconfig,
              AdmitKubeconfig, vars, caches, workers, ApproverStep
<1>2. CASE ClusterNext
  BY <1>2 DEF ClusterNext, SyncSecret, SyncCrb, Resync, AdminApprove, AdminDeny,
              SignerIssue, SignerFail, CsrGone, CollectCsr, ForeignCsr, ChangeCsr,
              SecretGone, CollectSecret, ProvideSecret, ChangeSecret, SyncClusterInfo,
              PublishClusterInfo, caches, workers, ApproverStep
<1>3. CASE ReconcilerNext
  BY <1>3 DEF ReconcilerNext, Reads, Writes, GetKubeconfig, GetExistingSecret,
              GetUserSecret, GetCrb, GetCsrNotFound, GetCsrRejected, GetCsrPending,
              GetCsrUnsigned, GetCsrSigned, CreateUserSecret, UpdateSecretKey,
              UpdateSecretCert, UpdateSecret, CreateCsr, CreateCrb, UpdateStatus,
              OnlyReads, caches, ApproverStep
<1>4. CASE CsrNext \/ Crash \/ Panic
  BY <1>4 DEF CsrNext, Crash, Panic, ApproverStep
<1> QED
  BY <1>1, <1>2, <1>3, <1>4 DEF Next

\* An event is due for every CSR that changes.
LEMMA ChangesAreDue ==
  ASSUME TypeOK, WorkerSound, CsrCopies, [Next]_vars, NEW k \in Names,
         csr'[k] # csr[k]
  PROVE  csrCache'[k] # csr'[k]
<1>1. csr[k].rv \in Nat /\ csr'[k].rv = csr[k].rv + 1
  BY CsrsChange, CsrsAdvance
<1>2. csrCache'[k] = csrCache[k] \/ csrCache'[k] = csr[k]
  BY AllMove DEF CacheMove
<1>3. csrCache[k].rv \in Nat /\ csrCache[k].rv <= csr[k].rv
  BY DEF TypeOK, ApiTypeOK, CsrSlot, CsrCopies, CopyOf
<1> QED
  BY <1>1, <1>2, <1>3

\* An approval that is applied is there.
LEMMA ApprovalApplies ==
  ASSUME TypeOK, NEW reply \in Reply, ApproveCSR(reply),
         reply # "error", Current(cw.csr, csr[cw.name])
  PROVE  csr'[cw.name].approved = "operator"
<1> DEFINE d == setStatusCondition(cw.csr)
<1>1. cw.name \in Names /\ cw.csr \in CsrSlot
  BY DEF ApproveCSR, TypeOK, CsrTypeOK, CsrWorker
<1>2. csr[cw.name] \in CsrSlot /\ csr \in [Names -> CsrSlot]
  BY <1>1 DEF TypeOK, ApiTypeOK
<1>3. d \in CsrSlot /\ d.approved = "operator"
  BY <1>1 DEF setStatusCondition, CsrSlot
<1>4. csr' = [csr EXCEPT ![cw.name] = Stored(csr[cw.name], d)]
  BY DEF ApproveCSR
<1> HIDE DEF d
<1>5. Stored(csr[cw.name], d).approved = "operator"
  BY <1>2, <1>3 DEF Stored, CsrSlot
<1> QED
  BY <1>1, <1>2, <1>4, <1>5

Wanted(c) ==
  /\ c.exists /\ isPending(c)
  /\ isKubeconfigV1Alpha1CSR(c) /\ hasAutoApproveAnnotation(c)

\* Somebody sees to its approval.
Approving(k) ==
  \/ k \in csrQueue
  \/ cw.pc # "idle" /\ cw.name = k
  \/ csrCache[k] # csr[k]

LEMMA ApprovingStep ==
  ASSUME TypeOK, WorkerSound, CsrCopies, [Next]_vars, NEW k \in Names,
         Wanted(csr[k]) => Approving(k), Wanted(csr'[k])
  PROVE  Approving(k)'
<1>1. CASE csr'[k] # csr[k]
  BY <1>1, ChangesAreDue DEF Approving
<1>2. CASE csr'[k] = csr[k]
  <2>1. Approving(k)
    BY <1>2
  <2>2. CASE UNCHANGED <<cw, csrQueue, csrCache>>
    BY <1>2, <2>1, <2>2 DEF Approving
  <2>3. CASE Restart
    BY <1>2, <2>3 DEF Restart, Approving, Wanted
  <2>4. ASSUME NEW j \in Names, SyncCsr(j)
        PROVE  Approving(k)'
    <3>1. /\ csrQueue' = csrQueue \cup {j} /\ UNCHANGED cw
          /\ \A i \in Names \ {j} : csrCache'[i] = csrCache[i]
      BY <2>4 DEF SyncCsr, workers, TypeOK, ApiTypeOK
    <3> QED
      BY <1>2, <2>1, <3>1 DEF Approving
  <2>5. ASSUME NEW j \in Names, GetCsrToApprove(j)
        PROVE  Approving(k)'
    <3>1. csrQueue' = csrQueue \ {j} /\ UNCHANGED csrCache /\ cw.pc = "idle"
      BY <2>5 DEF GetCsrToApprove, caches
    <3>2. CASE j = k /\ csrCache[k] = csr[k]
      <4>1. cw' = [pc |-> "approve", name |-> k, csr |-> csrCache[k]]
        BY <1>2, <2>5, <3>2 DEF GetCsrToApprove, Wanted
      <4> QED
        BY <4>1 DEF Approving
    <3> QED
      BY <1>2, <2>1, <3>1, <3>2 DEF Approving
  <2>6. ASSUME NEW reply \in Reply, ApproveCSR(reply)
        PROVE  Approving(k)'
    <3>1. UNCHANGED csrCache /\ csrQueue \subseteq csrQueue'
      BY <2>6 DEF ApproveCSR, caches
    <3>2. CASE cw.name = k
      <4>1. ~(reply = "ok" /\ Current(cw.csr, csr[k]))
        BY <2>6, <3>2, ApprovalApplies DEF Wanted, isPending
      <4>2. k \in csrQueue'
        BY <2>6, <3>2, <4>1 DEF ApproveCSR
      <4> QED
        BY <4>2 DEF Approving
    <3> QED
      BY <1>2, <2>1, <3>1, <3>2 DEF Approving
  <2> QED
    BY <2>2, <2>3, <2>4, <2>5, <2>6, ApproverSteps DEF ApproverStep
<1> QED
  BY <1>1, <1>2

ApprovingInv == KeyInv /\ ApprovalNotForgotten

LEMMA ApprovingInvStep == ApprovingInv /\ [Next]_vars => ApprovingInv'
<1> SUFFICES ASSUME ApprovingInv, [Next]_vars PROVE ApprovingInv'
  OBVIOUS
<1>1. KeyInv' /\ TypeOK /\ WorkerSound /\ CsrCopies
  BY KeyStep DEF ApprovingInv, KeyInv, DeliveryInv, VerdictInv
<1>2. \A k \in Names : Wanted(csr'[k]) => Approving(k)'
  BY <1>1, ApprovingStep
     DEF ApprovingInv, ApprovalNotForgotten, Wanted, Approving
<1> QED
  BY <1>1, <1>2
     DEF ApprovingInv, ApprovalNotForgotten, Wanted, Approving, isPending,
         isKubeconfigV1Alpha1CSR, hasAutoApproveAnnotation

\* A CSR that the operator is to approve is queued, worked on or announced by an
\* event until it is decided, though approvals conflict and calls fail.
THEOREM ApprovalIsNotForgotten == Spec => []ApprovalNotForgotten
<1>1. Init => ApprovingInv
  BY KeyInit DEF Init, ApiInit, NoCsr, ApprovingInv, ApprovalNotForgotten
<1>2. Spec => []ApprovingInv
  BY <1>1, ApprovingInvStep, PTL DEF Spec
<1>3. ApprovingInv => ApprovalNotForgotten
  BY DEF ApprovingInv
<1> QED
  BY <1>2, <1>3, PTL

-----------------------------------------------------------------------------
(* What the operator makes under a name has one owner, of that name.        *)

OwnedBy(k, slot) ==
  slot.exists => slot.owners # {} /\ \A o \in slot.owners : o[1] = k

CsrsByName == \A k \in Names : OwnedBy(k, csr[k])

SecretsByName ==
  /\ \A k \in Names : OwnedBy(k, secret[k]) /\ OwnedBy(k, secretCache[k])
  /\ w.pc # "idle" /\ w.kc.spec.existingCSR = None => OwnedBy(w.name, w.secret)

NoForeigners == Quiet({"foreign"})

LEMMA OwnReference ==
  ASSUME NEW k, NEW uid, NEW slot, slot.owners = {<<k, uid>>}
  PROVE  OwnedBy(k, slot)
<1>1. \A o \in {<<k, uid>>} : o[1] = k
  OBVIOUS
<1>2. <<k, uid>> \in slot.owners
  OBVIOUS
<1> QED
  BY <1>1, <1>2, Zenon DEF OwnedBy

LEMMA CsrsByNameStep ==
  ASSUME TypeOK, WorkerSound, CsrCopies, CsrsByName, [Next]_vars, NoForeigners'
  PROVE  CsrsByName'
<1> SUFFICES ASSUME NEW k \in Names PROVE OwnedBy(k, csr'[k])
  BY DEF CsrsByName, OwnedBy
<1>1. OwnedBy(k, csr[k]) /\ csr[k] \in CsrSlot
  BY DEF CsrsByName, TypeOK, ApiTypeOK
<1>2. CASE CsrMade(k, csr[k], csr'[k])
  BY <1>2, OwnReference DEF CsrMade, MadeByStranger, MadeByWorker, NoForeigners, Quiet
<1>3. CASE csr'[k] = csr[k] \/ CsrDecided(csr[k], csr'[k])
  BY <1>1, <1>3 DEF CsrDecided, OwnedBy
<1>4. CASE CsrWent(csr[k], csr'[k])
  BY <1>1, <1>4, RemovedCsrFields DEF CsrWent, OwnedBy
<1> QED
  BY <1>2, <1>3, <1>4, CsrsChange DEF CsrChange

\* Without existingCSR the worker uses the secret of its name, and only then.
LEMMA OwnSecret ==
  ASSUME TypeOK, w.pc # "idle"
  PROVE  /\ w.kc.spec.existingCSR = None => userSecretName = w.name
         /\ userSecretName \in Names => w.kc.spec.existingCSR = None
BY Busy, ConstantsAssumption DEF userSecretName, StoredSpec

LEMMA StoredByName ==
  ASSUME TypeOK, WorkerSound, SecretsByName, [Next]_vars, NEW k \in Names
  PROVE  OwnedBy(k, secret'[k])
<1>1. k \in SecretNames /\ OwnedBy(k, secret[k]) /\ secret[k] \in SecretSlot
  BY DEF SecretsByName, SecretNames, TypeOK, ApiTypeOK
<1>2. CASE secret'[k] = secret[k]
  BY <1>1, <1>2
<1>3. CASE SecretMade(k, secret[k], secret'[k])
  BY <1>3, ConstantsAssumption, OwnReference DEF SecretMade
<1>4. CASE SecretStored(k, secret[k], secret'[k])
  <2>1. w.pc # "idle" /\ w.secret.exists /\ w.secret \in SecretSlot
    BY <1>4, Busy DEF SecretStored, WorkerSound
  <2>2. w.name = k /\ OwnedBy(k, w.secret)
    BY <1>4, <2>1, OwnSecret DEF SecretStored, SecretsByName
  <2>3. secret'[k] = secret[k] \/ secret'[k].owners = w.secret.owners
    BY <1>1, <1>4, <2>1 DEF SecretStored, Stored, SecretSlot
  <2> QED
    BY <1>1, <2>1, <2>2, <2>3 DEF OwnedBy
<1>5. CASE SecretWent(secret[k], secret'[k])
  BY <1>5 DEF SecretWent, Removed, NoSecret, OwnedBy
<1> QED
  BY <1>1, <1>2, <1>3, <1>4, <1>5, SecretsChange DEF SecretChange

LEMMA CopyByName ==
  ASSUME TypeOK, TypeOK', WorkerSound, SecretsByName, [Next]_vars,
         w'.pc # "idle", w'.kc.spec.existingCSR = None
  PROVE  OwnedBy(w'.name, w'.secret)
<1>1. \A k : OwnedBy(k, NoSecret)
  BY DEF NoSecret, OwnedBy
<1>2. CASE UNCHANGED w
  BY <1>2 DEF SecretsByName
<1>3. CASE w'.secret = NoSecret
  BY <1>1, <1>3
<1>4. CASE FindsSecret
  <2>1. PICK s : /\ Carries({"getSecret"}, "getCsr", s)
                 /\ \/ s = NoSecret
                    \/ s = secretCache[userSecretName]
                    \/ s = SetControllerReference(secretCache[userSecretName],
                                                  w.name, w.kc.uid)
    BY <1>4 DEF FindsSecret
  <2>2. /\ w.pc # "idle" /\ w'.secret = s /\ w'.name = w.name
        /\ w.kc.spec.existingCSR = None
    BY <2>1 DEF Carries
  <2>3. userSecretName = w.name /\ w.name \in Names
    BY <2>2, OwnSecret, Busy
  <2>4. OwnedBy(w.name, secretCache[w.name]) /\ secretCache[w.name] \in SecretSlot
    BY <2>3 DEF SecretsByName, SecretNames, TypeOK, ApiTypeOK
  <2>5. CASE s = SetControllerReference(secretCache[w.name], w.name, w.kc.uid)
    <3>1. /\ s.exists = secretCache[w.name].exists
          /\ \/ s.owners = secretCache[w.name].owners
             \/ s.owners = {<<w.name, w.kc.uid>>}
      BY <2>4, <2>5, OwnedSecret
    <3>2. CASE s.owners = secretCache[w.name].owners
      <4>1. OwnedBy(w.name, s)
        BY <2>4, <3>1, <3>2 DEF OwnedBy
      <4> QED
        BY <2>2, <4>1
    <3>3. CASE s.owners = {<<w.name, w.kc.uid>>}
      BY <2>2, <3>3, OwnReference
    <3> QED
      BY <3>1, <3>2, <3>3
  <2> QED
    BY <1>1, <2>1, <2>2, <2>3, <2>4, <2>5
<1>5. CASE MakesSecret
  <2>1. w.name \in Names /\ w.name \in SecretNames /\ w'.name = w.name
    BY <1>5, Busy DEF MakesSecret, Carries, SecretNames
  <2>2. w'.secret = secret'[w.name]
    BY <1>5, <2>1 DEF MakesSecret, Carries, TypeOK, ApiTypeOK
  <2> QED
    BY <2>1, <2>2, StoredByName
<1>6. CASE MakesKey \/ Signs \/ StoresKey
  <2>1. w.pc # "idle" /\ w.secret \in SecretSlot /\ w'.name = w.name
        /\ w'.kc.spec = w.kc.spec
    BY <1>6, Busy DEF MakesKey, Signs, StoresKey, Carries
  <2>2. w'.secret.owners = w.secret.owners /\ w'.secret.exists = w.secret.exists
    BY <1>6, <2>1 DEF MakesKey, Signs, StoresKey, Carries, Signed, SecretSlot
  <2> QED
    BY <2>1, <2>2 DEF SecretsByName, OwnedBy
<1>7. w' # Idle
  BY DEF Idle
<1>8. \/ FindsNoSecret \/ EndsWithout \/ StoresCert \/ MissesCrb \/ Completes
      \/ \E k \in Names : TakesUp(k)
      => w'.secret = NoSecret
  BY DEF FindsNoSecret, EndsWithout, StoresCert, MissesCrb, Completes, TakesUp, Carries
<1> QED
  BY <1>2, <1>3, <1>4, <1>5, <1>6, <1>7, <1>8, WorkerSteps DEF WorkerStep

LEMMA SecretsByNameStep ==
  ASSUME TypeOK, TypeOK', WorkerSound, SecretsByName, [Next]_vars
  PROVE  SecretsByName'
<1>1. ASSUME NEW k \in Names
      PROVE  OwnedBy(k, secret'[k]) /\ OwnedBy(k, secretCache'[k])
  <2>1. OwnedBy(k, secret[k]) /\ OwnedBy(k, secretCache[k]) /\ k \in SecretNames
    BY DEF SecretsByName, SecretNames
  <2> QED
    BY <2>1, StoredByName, SecretCacheMoves
<1> QED
  BY <1>1, CopyByName DEF SecretsByName, OwnedBy

LeftoverInv == KeyInv /\ SecretsByName /\ (NoForeigners => CsrsByName)

LEMMA LeftoverInit == Init => LeftoverInv
<1> SUFFICES ASSUME Init PROVE LeftoverInv
  OBVIOUS
<1>1. /\ \A k \in Names : secret[k] = NoSecret /\ secretCache[k] = NoSecret
      /\ \A k \in Names : csr[k] = NoCsr
      /\ w.pc = "idle"
  BY DEF Init, ApiInit, SecretNames, Idle
<1> QED
  BY <1>1, KeyInit
     DEF LeftoverInv, SecretsByName, CsrsByName, OwnedBy, NoSecret, NoCsr

LEMMA LeftoverStep == LeftoverInv /\ [Next]_vars => LeftoverInv'
<1> SUFFICES ASSUME LeftoverInv, [Next]_vars PROVE LeftoverInv'
  OBVIOUS
<1>1. KeyInv' /\ TypeOK /\ TypeOK' /\ WorkerSound /\ CsrCopies
  BY KeyStep, TypeStep DEF LeftoverInv, KeyInv, DeliveryInv, VerdictInv
<1>2. NoForeigners' => NoForeigners
  BY <1>1, CountsGrow DEF NoForeigners, Kinds
<1> QED
  BY <1>1, <1>2, CsrsByNameStep, SecretsByNameStep DEF LeftoverInv

LEMMA LeftoverSuffices == LeftoverInv => LeftoversAreGarbage
<1>1. ASSUME NEW k \in Names, ~kubeconfig[k].exists, NEW slot, slot.exists,
             OwnedBy(k, slot)
      PROVE  Orphaned(slot)
  BY <1>1 DEF OwnedBy, Orphaned, Alive
<1> QED
  BY <1>1 DEF LeftoverInv, SecretsByName, CsrsByName, NoForeigners, LeftoversAreGarbage

\* Whatever a Kubeconfig leaves behind, also what a reconcile that was under way
\* makes after the deletion, and what a later Kubeconfig of that name took over, is
\* owned by Kubeconfigs of that name only, so the garbage collector takes it.
THEOREM LeftoversAreCollected == Spec => []LeftoversAreGarbage
<1>1. Spec => []LeftoverInv
  BY LeftoverInit, LeftoverStep, PTL DEF Spec
<1>2. LeftoverInv => LeftoversAreGarbage
  BY LeftoverSuffices
<1> QED
  BY <1>1, <1>2, PTL

-----------------------------------------------------------------------------
(* The Kubeconfig controller.                                               *)

Smooth == Quiet({"fault", "foreign"})

Pending(k) == csr[k].exists /\ isPending(csr[k])

EventDue(k) ==
  /\ csrCache[k] # csr[k]
  /\ \E o \in csrCache[k].owners \cup csr[k].owners : o[1] = k

Awaited(k) == Pending(k) \/ EventDue(k)

Attended(k) == k \in queue \/ (w.pc # "idle" /\ w.name = k)

\* The worker's copy is the stored version, or its Kubeconfig is queued again; and
\* where it is about to end without a requeue, nothing more is to be done.
Remembered ==
  w.pc # "idle" => w.name \in queue \/ w.kc.rv = kubeconfig[w.name].rv

RestsAtEnd ==
  w.pc = "updateStatus" /\ ~w.requeue =>
    isInTerminalCondition(w.kc) \/ Awaited(w.name) \/ w.name \in queue

NoneForgotten ==
  \A k \in Names : kubeconfig[k].exists /\ ~Terminal(k) => Attended(k) \/ Awaited(k)

\* A CSR that changes is announced to the Kubeconfig of its name.
LEMMA ChangesReachOwner ==
  ASSUME TypeOK, WorkerSound, CsrCopies, CsrsByName, NoForeigners', [Next]_vars,
         NEW k \in Names, csr'[k] # csr[k]
  PROVE  EventDue(k)'
<1>1. csrCache'[k] # csr'[k]
  BY ChangesAreDue
<1>2. \E o \in csr'[k].owners : o[1] = k
  <2>1. csr[k].exists => \E o \in csr[k].owners : o[1] = k
    BY DEF CsrsByName, OwnedBy
  <2>2. CASE CsrMade(k, csr[k], csr'[k])
    <3>1. csr'[k].owners = {<<k, w.kc.uid>>}
      BY <2>2 DEF CsrMade, MadeByStranger, MadeByWorker, NoForeigners, Quiet
    <3>2. <<k, w.kc.uid>> \in csr'[k].owners /\ <<k, w.kc.uid>>[1] = k
      BY <3>1
    <3> QED
      BY <3>2
  <2>3. CASE CsrDecided(csr[k], csr'[k])
    BY <2>1, <2>3 DEF CsrDecided
  <2>4. CASE CsrWent(csr[k], csr'[k])
    <3>1. csr'[k].owners = csr[k].owners
      BY <2>4, RemovedCsrFields DEF CsrWent, TypeOK, ApiTypeOK
    <3> QED
      BY <2>1, <2>4, <3>1 DEF CsrWent
  <2> QED
    BY <2>2, <2>3, <2>4, CsrsChange DEF CsrChange
<1> QED
  BY <1>1, <1>2 DEF EventDue

\* A CSR that is waited for is waited for until its event queues the Kubeconfig.
LEMMA AwaitedStays ==
  ASSUME TypeOK, WorkerSound, CsrCopies, CsrsByName, NoForeigners', [Next]_vars,
         NEW k \in Names, Awaited(k)
  PROVE  Awaited(k)' \/ k \in queue' \/ Restart
<1>1. CASE csr'[k] # csr[k]
  BY <1>1, ChangesReachOwner DEF Awaited
<1>2. CASE csr'[k] = csr[k] /\ csrCache'[k] = csrCache[k]
  BY <1>2 DEF Awaited, Pending, EventDue, isPending
<1>3. CASE csr'[k] = csr[k] /\ SyncCsr(k)
  <2>1. queue' = queue \cup {o[1] : o \in csrCache[k].owners \cup csr[k].owners}
    BY <1>3 DEF SyncCsr
  <2>2. EventDue(k) => k \in queue'
    BY <2>1 DEF EventDue
  <2> QED
    BY <1>3, <2>2 DEF Awaited, Pending, isPending
<1>4. \/ csrCache'[k] = csrCache[k] \/ SyncCsr(k) \/ Restart
  <2>1. ASSUME NEW j \in Names, SyncCsr(j), j # k
        PROVE  csrCache'[k] = csrCache[k]
    BY <2>1 DEF SyncCsr, TypeOK, ApiTypeOK
  <2>2. ASSUME NEW j \in Names, GetCsrToApprove(j)
        PROVE  csrCache'[k] = csrCache[k]
    BY <2>2 DEF GetCsrToApprove, caches
  <2>3. ASSUME NEW reply \in Reply, ApproveCSR(reply)
        PROVE  csrCache'[k] = csrCache[k]
    BY <2>3 DEF ApproveCSR, caches
  <2> QED
    BY <2>1, <2>2, <2>3, ApproverSteps DEF ApproverStep
<1> QED
  BY <1>1, <1>2, <1>3, <1>4

\* What a step does to the worker and the queue of the Kubeconfig controller.
Waits ==
  /\ UNCHANGED w /\ queue \subseteq queue'
  /\ \A k \in Names : kubeconfig'[k] = kubeconfig[k] \/ k \in queue'

Takes(k) ==
  /\ w.pc = "idle" /\ queue' = queue \ {k} /\ UNCHANGED kubeconfig
  /\ \/ UNCHANGED w /\ (~kubeconfig[k].exists \/ isInTerminalCondition(kubeconfig[k]))
     \/ TakesUp(k)

WorksOn ==
  /\ w.pc # "idle" /\ w'.pc # "idle" /\ w'.name = w.name /\ w'.kc.rv = w.kc.rv
  /\ UNCHANGED <<kubeconfig, queue>>
  /\ w'.pc = "updateStatus" /\ ~w'.requeue =>
       isInTerminalCondition(w'.kc) \/ \A k : k = w.name => Pending(k)'

Requeues ==
  /\ w.pc # "idle" /\ w' = Idle /\ queue' = queue \cup {w.name}
  /\ UNCHANGED kubeconfig

Pauses ==
  /\ w.pc # "idle" /\ w' = Idle
  /\ csrCache[w.name].exists /\ isPending(csrCache[w.name])
  /\ UNCHANGED <<kubeconfig, queue, csr, csrCache>>

QueueStep ==
  \/ Waits \/ WorksOn \/ Requeues \/ Pauses \/ UpdateStatus("ok")
  \/ Restart
  \/ \E k \in Names : Takes(k)

LEMMA GoesOnWorks ==
  ASSUME TypeOK, w.pc # "idle", UNCHANGED kubeconfig,
         NEW pc \in Positions \ {"idle", "updateStatus"}, NEW s, NEW status,
         GoOn(pc, s, status)
  PROVE  WorksOn
<1>1. w \in Worker /\ w.kc \in KubeconfigSlot
  BY Busy DEF WorkerOK
<1>2. w'.pc = pc /\ UNCHANGED queue
  BY <1>1, Zenon DEF GoOn, Worker, KubeconfigSlot
<1>3. SameCopy
  BY MovesKeepCopy
<1> QED
  BY <1>2, <1>3 DEF WorksOn, SameCopy

LEMMA EndsWorks ==
  ASSUME TypeOK, w.pc # "idle", UNCHANGED kubeconfig, NEW status, NEW requeue,
         EndWith(status, requeue),
         \/ requeue = TRUE
         \/ status.KubeconfigFinished \in {"True", "False"}
         \/ \A k : k = w.name => Pending(k)'
  PROVE  WorksOn
<1>1. w \in Worker /\ w.kc \in KubeconfigSlot
  BY Busy DEF WorkerOK
<1>2. /\ w'.pc = "updateStatus" /\ w'.requeue = requeue /\ w'.kc.status = status
      /\ UNCHANGED queue
  BY <1>1, Zenon DEF EndWith, Worker, KubeconfigSlot
<1>3. SameCopy
  BY MovesKeepCopy
<1> QED
  BY <1>2, <1>3 DEF WorksOn, SameCopy, isInTerminalCondition

LEMMA ReturnRequeues ==
  ASSUME w.pc # "idle", UNCHANGED kubeconfig, Return(TRUE)
  PROVE  Requeues
BY DEF Return, Requeues

\* The key of every algorithm that a stored spec may name can sign.
LEMMA AllSign == \A algorithm \in SignatureAlgorithm : CanSign(algorithm)
BY DEF SignatureAlgorithm, CanSign, SignerKind, KeyKind, RsaAlgorithms,
       EcdsaAlgorithms

LEMMA NoFaults ==
  ASSUME TypeOK, Smooth'
  PROVE  /\ \A kinds : Spend(kinds) => "fault" \notin kinds
         /\ \A reply \in Reply : Answer(reply) => reply = "ok"
<1>1. used'["fault"] = 0 /\ "fault" \in Kinds
  BY DEF Smooth, Quiet, Kinds
<1>2. \A kinds : Spend(kinds) => "fault" \notin kinds
  BY <1>1, Spent
<1>3. ASSUME NEW reply \in Reply, Answer(reply), reply # "ok"
      PROVE  FALSE
  BY <1>2, <1>3 DEF Answer
<1> QED
  BY <1>2, <1>3

LEMMA SecretReadsQueue ==
  ASSUME TypeOK, Smooth', GetExistingSecret \/ GetUserSecret
  PROVE  QueueStep
<1>1. w.pc = "getSecret" /\ UNCHANGED kubeconfig
  BY DEF GetExistingSecret, GetUserSecret, OnlyReads, stored
<1>2. ~Spend({"fault"})
  BY NoFaults
<1>3. \/ Return(TRUE)
      \/ \E pc \in {"getCsr", "createSecret"} : \E s, status : GoOn(pc, s, status)
  BY <1>2, Zenon DEF GetExistingSecret, GetUserSecret
<1> QED
  BY <1>1, <1>3, GoesOnWorks, ReturnRequeues DEF QueueStep, Positions

LEMMA CsrReadsQueue ==
  ASSUME TypeOK, Smooth',
         \/ GetCsrNotFound \/ GetCsrRejected \/ GetCsrPending
         \/ GetCsrUnsigned \/ GetCsrSigned
  PROVE  QueueStep
<1>1. w.pc = "getCsr" /\ UNCHANGED <<kubeconfig, csr, csrCache>>
  BY DEF GetCsrNotFound, GetCsrRejected, GetCsrPending, GetCsrUnsigned,
         GetCsrSigned, OnlyReads, stored, caches
<1>2. \A kinds : Spend(kinds) => "fault" \notin kinds
  BY NoFaults
<1>3. CASE GetCsrNotFound
  <2>1. CanSign(w.kc.spec.signatureAlgorithm)
    BY <1>1, Busy, AllSign DEF StoredSpec
  <2>2. \A missed : ~Spend(missed \cup {"fault"})
    BY <1>2
  <2>3. \E s, status : GoOn("updateKey", s, status)
    <3> DEFINE missed == IF csr[w.name].exists THEN {"stale"} ELSE {}
               signs == CanSign(w.kc.spec.signatureAlgorithm)
               failed == missed \cup IF signs THEN {"fault"} ELSE {}
    <3>1. failed = missed \cup {"fault"}
      BY <2>1
    <3>2. ~Spend(failed)
      BY <2>2, <3>1
    <3>3. \/ GoOn("updateKey", [w.secret EXCEPT !.key = createCSR], w.kc.status)
          \/ Spend(failed)
      BY <1>3, Zenon DEF GetCsrNotFound
    <3> QED
      BY <3>2, <3>3, Zenon
  <2> QED
    BY <1>1, <2>3, GoesOnWorks DEF QueueStep, Positions
<1>4. CASE GetCsrRejected
  <2> DEFINE status == [w.kc.status EXCEPT !.CSRApproved = "False",
                                           !.KubeconfigFinished = "False",
                                           !.phase = "Failed"]
  <2>1. w.kc.status \in KubeconfigStatus /\ EndWith(status, FALSE)
    BY <1>1, <1>4, Busy DEF GetCsrRejected
  <2>2. status.KubeconfigFinished = "False"
    BY <2>1, Zenon DEF KubeconfigStatus
  <2> HIDE DEF status
  <2> QED
    BY <1>1, <2>1, <2>2, EndsWorks DEF QueueStep
<1>5. CASE GetCsrPending
  <2>1. Return(FALSE) /\ csrCache[w.name].exists /\ isPending(csrCache[w.name])
    BY <1>5 DEF GetCsrPending, isPending, Rejected
  <2> QED
    BY <1>1, <2>1 DEF Return, Pauses, QueueStep
<1>6. CASE GetCsrUnsigned
  <2>1. \E status : EndWith(status, TRUE)
    BY <1>6 DEF GetCsrUnsigned
  <2> QED
    BY <1>1, <2>1, EndsWorks DEF QueueStep
<1>7. CASE GetCsrSigned
  <2>1. \E s, status : GoOn("updateCert", s, status)
    BY <1>2, <1>7 DEF GetCsrSigned
  <2> QED
    BY <1>1, <2>1, GoesOnWorks DEF QueueStep, Positions
<1> QED
  BY <1>3, <1>4, <1>5, <1>6, <1>7

LEMMA CompleteWorks ==
  ASSUME TypeOK, w.pc # "idle", UNCHANGED kubeconfig, Complete
  PROVE  WorksOn
<1> DEFINE status == [w.kc.status EXCEPT !.KubeconfigFinished = "True",
                                         !.phase = "Done"]
<1>1. w.kc.status \in KubeconfigStatus /\ EndWith(status, FALSE)
  BY Busy DEF Complete
<1>2. status.KubeconfigFinished = "True"
  BY <1>1, Zenon DEF KubeconfigStatus
<1> HIDE DEF status
<1> QED
  BY <1>1, <1>2, EndsWorks

LEMMA BindingReadsQueue ==
  ASSUME TypeOK, Smooth', GetCrb
  PROVE  QueueStep
<1>1. w.pc = "getCrb" /\ UNCHANGED kubeconfig
  BY DEF GetCrb, OnlyReads, stored
<1>2. Complete \/ \E s, status : GoOn("createCrb", s, status)
  BY NoFaults DEF GetCrb
<1> QED
  BY <1>1, <1>2, CompleteWorks, GoesOnWorks DEF QueueStep, Positions

LEMMA SecretWritesQueue ==
  ASSUME TypeOK, NEW reply \in Reply,
         CreateUserSecret(reply) \/ UpdateSecretKey(reply) \/ UpdateSecretCert(reply)
  PROVE  QueueStep
<1>1. w.pc # "idle" /\ UNCHANGED kubeconfig
  BY DEF CreateUserSecret, UpdateSecretKey, UpdateSecretCert, UpdateSecret
<1>2. \/ Return(TRUE)
      \/ \E status : EndWith(status, TRUE)
      \/ \E pc \in {"getCsr", "createCsr", "getCrb"} : \E s, status : GoOn(pc, s, status)
  BY Zenon DEF CreateUserSecret, UpdateSecretKey, UpdateSecretCert
<1> QED
  BY <1>1, <1>2, GoesOnWorks, EndsWorks, ReturnRequeues DEF QueueStep, Positions

LEMMA BindingWritesQueue ==
  ASSUME TypeOK, NEW reply \in Reply, CreateCrb(reply)
  PROVE  QueueStep
<1>1. w.pc # "idle" /\ UNCHANGED kubeconfig
  BY DEF CreateCrb
<1>2. Return(TRUE) \/ Complete
  BY DEF CreateCrb
<1> QED
  BY <1>1, <1>2, CompleteWorks, ReturnRequeues DEF QueueStep

\* The CSR the worker has made waits for its decision.
LEMMA MadeIsPending ==
  ASSUME TypeOK, WorkerSound, NEW reply \in Reply, CreateCsr(reply),
         ~csr[w.name].exists, reply = "ok"
  PROVE  \A k : k = w.name => Pending(k)'
<1> DEFINE asked == createCsr(w.name, w.kc, w.secret.key)
           new == Created(csr[w.name], asked)
<1>1. w.pc = "createCsr" /\ w.name \in Names
  BY Busy DEF CreateCsr
<1>2. asked \in CsrSlot
  BY <1>1, RequestTypes
<1>3. isPending(asked)
  BY DEF createCsr, NoCsr, isPending
<1> HIDE DEF asked
<1>4. /\ new.exists /\ new.approved = asked.approved
      /\ new.denied = asked.denied /\ new.failed = asked.failed
  BY <1>2, Zenon DEF Created, CsrSlot
<1>5. csr' = [csr EXCEPT ![w.name] = new]
  BY DEF CreateCsr, asked
<1> HIDE DEF new
<1>6. csr'[w.name] = new
  BY <1>1, <1>5 DEF TypeOK, ApiTypeOK
<1> QED
  BY <1>3, <1>4, <1>6 DEF Pending, isPending

LEMMA CreateCsrQueue ==
  ASSUME TypeOK, WorkerSound, NEW reply \in Reply, CreateCsr(reply), reply = "ok"
  PROVE  QueueStep
<1>1. w.pc # "idle" /\ UNCHANGED kubeconfig
  BY DEF CreateCsr
<1>2. \/ Return(TRUE)
      \/ ~csr[w.name].exists /\ \E status : EndWith(status, FALSE)
  BY Zenon DEF CreateCsr
<1> QED
  BY <1>1, <1>2, MadeIsPending, EndsWorks, ReturnRequeues DEF QueueStep

LEMMA TakesKubeconfig ==
  ASSUME TypeOK, Smooth', NEW k \in Names, GetKubeconfig(k)
  PROVE  Takes(k)
<1>1. ~Spend({"fault"})
  BY NoFaults
<1>2. w.pc = "idle" /\ UNCHANGED kubeconfig
  BY DEF GetKubeconfig, OnlyReads, stored
<1>3. CASE ~kubeconfig[k].exists \/ isInTerminalCondition(kubeconfig[k])
  BY <1>1, <1>2, <1>3 DEF GetKubeconfig, Takes
<1>4. CASE kubeconfig[k].exists /\ ~isInTerminalCondition(kubeconfig[k])
  <2>1. TakesUp(k)
    BY <1>1, <1>4 DEF GetKubeconfig, TakesUp, Idle
  <2>2. queue' = queue \ {k}
    BY <1>1, <1>4 DEF GetKubeconfig
  <2> QED
    BY <1>2, <2>1, <2>2 DEF Takes
<1> QED
  BY <1>3, <1>4

LEMMA OthersWait ==
  ASSUME TypeOK, UserNext \/ ClusterNext \/ CsrNext \/ UNCHANGED vars
  PROVE  Waits
<1>1. CASE UserNext
  <2>1. PICK k \in Names : \E new : AdmitKubeconfig(k, new)
    BY <1>1, Zenon DEF UserNext, CreateKubeconfig, UpdateKubeconfig, DeleteKubeconfig
  <2> QED
    BY <2>1 DEF AdmitKubeconfig, Waits, workers, TypeOK, ApiTypeOK
<1>2. CASE ClusterNext
  BY <1>2 DEF ClusterNext, SyncSecret, SyncCsr, SyncCrb, Resync, AdminApprove,
              AdminDeny, SignerIssue, SignerFail, CsrGone, CollectCsr, ForeignCsr,
              ChangeCsr, SecretGone, CollectSecret, ProvideSecret, ChangeSecret,
              SyncClusterInfo, PublishClusterInfo, workers, stored, Waits
<1>3. CASE CsrNext \/ UNCHANGED vars
  BY <1>3 DEF CsrNext, GetCsrToApprove, ApproveCSR, vars, workers, stored, Waits
<1> QED
  BY <1>1, <1>2, <1>3

LEMMA QueueSteps ==
  ASSUME TypeOK, WorkerSound, Smooth', [Next]_vars
  PROVE  QueueStep
<1>1. CASE UserNext \/ ClusterNext \/ CsrNext \/ UNCHANGED vars
  BY <1>1, OthersWait DEF QueueStep
<1>2. CASE Crash \/ Panic
  BY <1>2 DEF Crash, Panic, QueueStep
<1>3. CASE \E k \in Names : GetKubeconfig(k)
  BY <1>3, TakesKubeconfig DEF QueueStep
<1>4. CASE Reads
  BY <1>4, SecretReadsQueue, CsrReadsQueue, BindingReadsQueue DEF Reads
<1>5. ASSUME NEW reply \in Reply, Writes(reply)
      PROVE  QueueStep
  <2>1. reply = "ok"
    <3>1. Answer(reply)
      BY <1>5, Zenon DEF Writes, CreateUserSecret, UpdateSecretKey, CreateCsr,
                         UpdateSecretCert, CreateCrb, UpdateStatus, UpdateSecret
    <3> QED
      BY <3>1, NoFaults
  <2>2. CASE UpdateStatus(reply)
    BY <2>1, <2>2 DEF QueueStep
  <2> QED
    BY <1>5, <2>1, <2>2, SecretWritesQueue, BindingWritesQueue, CreateCsrQueue
       DEF Writes
<1> QED
  BY <1>1, <1>2, <1>3, <1>4, <1>5 DEF Next, ReconcilerNext

CopiesByName == \A k \in Names : OwnedBy(k, csrCache[k])

LEMMA RememberedStep ==
  ASSUME TypeOK, QueueStep, Remembered
  PROVE  Remembered'
<1>1. CASE Waits
  BY <1>1, Busy DEF Waits, Remembered
<1>2. CASE WorksOn
  BY <1>2 DEF WorksOn, Remembered
<1>3. CASE Requeues \/ Pauses \/ UpdateStatus("ok") \/ Restart
  BY <1>3 DEF Requeues, Pauses, UpdateStatus, Restart, Idle, Remembered
<1>4. ASSUME NEW k \in Names, Takes(k)
      PROVE  Remembered'
  BY <1>4 DEF Takes, TakesUp, Remembered
<1> QED
  BY <1>1, <1>2, <1>3, <1>4 DEF QueueStep

LEMMA RestsAtEndStep ==
  ASSUME TypeOK, TypeOK', WorkerSound, CsrCopies, CsrsByName, NoForeigners',
         [Next]_vars, QueueStep, RestsAtEnd
  PROVE  RestsAtEnd'
<1> SUFFICES ASSUME w'.pc = "updateStatus", ~w'.requeue,
                    ~isInTerminalCondition(w'.kc), NEW k \in Names, w'.name = k
             PROVE  Awaited(k)' \/ k \in queue'
  BY DEF RestsAtEnd, Awaited, Pending, EventDue, isPending, isInTerminalCondition,
         TypeOK, ReconcilerTypeOK
<1>1. CASE Waits
  <2>1. /\ w.pc = "updateStatus" /\ ~w.requeue /\ w.name = k
        /\ ~isInTerminalCondition(w.kc)
    BY <1>1 DEF Waits
  <2>2. ~Restart
    BY DEF Restart, Idle
  <2> QED
    BY <1>1, <2>1, <2>2, AwaitedStays DEF Waits, RestsAtEnd
<1>2. CASE WorksOn
  BY <1>2 DEF WorksOn, Awaited, Pending, isPending
<1>3. CASE Requeues \/ Pauses \/ UpdateStatus("ok") \/ Restart
  BY <1>3 DEF Requeues, Pauses, UpdateStatus, Restart, Idle
<1>4. ASSUME NEW j \in Names, Takes(j)
      PROVE  FALSE
  BY <1>4 DEF Takes, TakesUp
<1> QED
  BY <1>1, <1>2, <1>3, <1>4 DEF QueueStep

\* Where the worker's last write changes nothing, its copy was stale and the
\* Kubeconfig is queued, or nothing was left to do.
LEMMA EndsWell ==
  ASSUME TypeOK, Remembered, RestsAtEnd, UpdateStatus("ok"), NEW k \in Names,
         w.name = k, kubeconfig'[k].exists, ~Terminal(k)'
  PROVE  k \in queue' \/ Awaited(k)
<1> DEFINE old == kubeconfig[k]
           new == Stored(old, [old EXCEPT !.status = Persisted(w.kc.status)])
<1>1. /\ w.pc = "updateStatus" /\ old \in KubeconfigSlot
      /\ w.kc.status \in KubeconfigStatus
  BY Busy DEF UpdateStatus, TypeOK, ApiTypeOK
<1>2. queue \subseteq queue'
  BY DEF UpdateStatus
<1>3. CASE k \notin queue' /\ k \notin queue
  <2>1. ~w.requeue /\ w.kc.rv = old.rv
    BY <1>1, <1>3 DEF UpdateStatus, Remembered
  <2>2. kubeconfig'[k] = old
    BY <1>3 DEF UpdateStatus, TypeOK, ApiTypeOK
  <2>3. Current(w.kc, old)
    BY <2>1, <2>2 DEF Current
  <2>4. new = old
    BY <1>3, <2>3 DEF UpdateStatus
  <2>5. new.status = Persisted(w.kc.status)
    BY <1>1 DEF Stored, KubeconfigSlot
  <2>6. ~isInTerminalCondition(old)
    BY <2>2 DEF Terminal, Finished, isInTerminalCondition
  <2>7. ~isInTerminalCondition(w.kc)
    BY <1>1, <2>4, <2>5, <2>6, PersistedFields DEF isInTerminalCondition
  <2> QED
    BY <1>1, <1>3, <2>1, <2>7 DEF RestsAtEnd
<1> QED
  BY <1>2, <1>3

LEMMA NoneForgottenStep ==
  ASSUME TypeOK, WorkerSound, CsrCopies, CsrsByName, CopiesByName, NoForeigners',
         [Next]_vars, QueueStep, Remembered, RestsAtEnd, NoneForgotten
  PROVE  NoneForgotten'
<1> SUFFICES ASSUME NEW k \in Names, kubeconfig'[k].exists, ~Terminal(k)'
             PROVE  Attended(k)' \/ Awaited(k)'
  BY DEF NoneForgotten, Attended, Awaited, Pending, EventDue, Terminal, Finished,
         isPending
<1>1. Restart => k \in queue'
  BY DEF Restart, stored
<1>2. Awaited(k) => Awaited(k)' \/ k \in queue'
  BY <1>1, AwaitedStays
<1>3. CASE UpdateStatus("ok")
  <2>1. \/ k \in queue'
        \/ /\ queue' = queue \/ queue' = queue \cup {w.name}
           /\ kubeconfig'[k] = kubeconfig[k]
    BY <1>3 DEF UpdateStatus, TypeOK, ApiTypeOK
  <2>2. CASE w.name = k
    BY <1>2, <1>3, <2>2, EndsWell DEF Attended
  <2>3. CASE w.name # k /\ kubeconfig'[k] = kubeconfig[k]
    <3>1. Attended(k) \/ Awaited(k)
      BY <2>3 DEF NoneForgotten, Terminal, Finished
    <3> QED
      BY <1>2, <2>1, <2>3, <3>1 DEF Attended
  <2> QED
    BY <2>1, <2>2, <2>3 DEF Attended
<1>4. CASE ~UpdateStatus("ok") /\ kubeconfig'[k] # kubeconfig[k]
  BY <1>1, <1>4 DEF QueueStep, Waits, Takes, WorksOn, Requeues, Pauses, Attended
<1>5. CASE ~UpdateStatus("ok") /\ kubeconfig'[k] = kubeconfig[k]
  <2>1. kubeconfig[k].exists /\ ~Terminal(k) /\ ~isInTerminalCondition(kubeconfig[k])
    BY <1>5 DEF Terminal, Finished, isInTerminalCondition
  <2>2. CASE Awaited(k)
    BY <1>2, <2>2 DEF Attended
  <2>3. CASE Attended(k)
    <3>1. CASE Waits \/ WorksOn \/ Requeues
      BY <2>3, <3>1 DEF Attended, Waits, WorksOn, Requeues
    <3>2. CASE Pauses
      <4>1. CASE w.name = k /\ k \notin queue
        <5>1. csrCache[k] = csr[k] => Pending(k)
          BY <3>2, <4>1 DEF Pauses, Pending
        <5>2. csrCache[k] # csr[k] => EventDue(k)
          BY <3>2, <4>1 DEF Pauses, EventDue, CopiesByName, OwnedBy
        <5> QED
          BY <1>2, <5>1, <5>2 DEF Awaited, Attended
      <4> QED
        BY <2>3, <3>2, <4>1 DEF Attended, Pauses
    <3>3. CASE Restart
      BY <1>1, <3>3 DEF Attended
    <3>4. ASSUME NEW j \in Names, Takes(j)
          PROVE  Attended(k)'
      <4>1. k \in queue /\ w.pc = "idle"
        BY <2>3, <3>4 DEF Attended, Takes
      <4>2. CASE j = k
        BY <2>1, <3>4, <4>2 DEF Takes, TakesUp, Attended
      <4> QED
        BY <3>4, <4>1, <4>2 DEF Takes, Attended
    <3> QED
      BY <1>5, <3>1, <3>2, <3>3, <3>4 DEF QueueStep
  <2> QED
    BY <2>1, <2>2, <2>3 DEF NoneForgotten
<1> QED
  BY <1>3, <1>4, <1>5

ProgressInv ==
  /\ LeftoverInv
  /\ Smooth => CopiesByName /\ Remembered /\ RestsAtEnd /\ NoneForgotten

LEMMA ProgressInit == Init => ProgressInv
<1> SUFFICES ASSUME Init PROVE ProgressInv
  OBVIOUS
<1>1. /\ \A k \in Names : csrCache[k] = NoCsr /\ ~kubeconfig[k].exists
      /\ w.pc = "idle"
  BY DEF Init, ApiInit, Idle, NoKubeconfig
<1> QED
  BY <1>1, LeftoverInit
     DEF ProgressInv, CopiesByName, Remembered, RestsAtEnd, NoneForgotten, OwnedBy,
         NoCsr

LEMMA ProgressStep == ProgressInv /\ [Next]_vars => ProgressInv'
<1> SUFFICES ASSUME ProgressInv, [Next]_vars PROVE ProgressInv'
  OBVIOUS
<1>1. LeftoverInv' /\ TypeOK /\ TypeOK' /\ WorkerSound /\ CsrCopies
  BY LeftoverStep, TypeStep
     DEF ProgressInv, LeftoverInv, KeyInv, DeliveryInv, VerdictInv
<1>2. ASSUME Smooth'
      PROVE  CopiesByName' /\ Remembered' /\ RestsAtEnd' /\ NoneForgotten'
  <2>1. Smooth /\ NoForeigners'
    BY <1>1, <1>2, CountsGrow DEF Smooth, NoForeigners, Quiet, Kinds
  <2>2. NoForeigners
    BY <2>1 DEF Smooth, NoForeigners, Quiet
  <2>3. /\ CsrsByName
        /\ CopiesByName /\ Remembered /\ RestsAtEnd /\ NoneForgotten
    BY <2>1, <2>2 DEF ProgressInv, LeftoverInv
  <2>4. CopiesByName'
    <3>1. ASSUME NEW k \in Names
          PROVE  OwnedBy(k, csrCache'[k])
      BY <1>1, <2>3, AllMove DEF CacheMove, CopiesByName, CsrsByName
    <3> QED
      BY <3>1 DEF CopiesByName, OwnedBy
  <2>5. QueueStep
    BY <1>1, <1>2, QueueSteps
  <2> QED
    BY <1>1, <2>1, <2>3, <2>4, <2>5, RememberedStep, RestsAtEndStep, NoneForgottenStep
<1> QED
  BY <1>1, <1>2 DEF ProgressInv

LEMMA ProgressSuffices == ProgressInv => NothingForgotten
BY DEF ProgressInv, NoneForgotten, NothingForgotten, Smooth, Attended, Awaited,
       Pending, EventDue

\* No Kubeconfig without a verdict stands still by mistake: as long as no call fails
\* and no stranger's CSR is about, a reconcile of it is queued or under way, an
\* event that queues one is due, or its CSR waits for its decision.
THEOREM NothingIsForgotten == Spec => []NothingForgotten
<1>1. Spec => []ProgressInv
  BY ProgressInit, ProgressStep, PTL DEF Spec
<1>2. ProgressInv => NothingForgotten
  BY ProgressSuffices
<1> QED
  BY <1>1, <1>2, PTL
=============================================================================
