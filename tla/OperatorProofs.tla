---------------------------- MODULE OperatorProofs ----------------------------
(***************************************************************************)
(* Proofs about Operator, for any value of its constants.                  *)
(***************************************************************************)
EXTENDS Operator, TLAPS

-----------------------------------------------------------------------------
(* Type correctness: first what the helpers return, then one lemma for each *)
(* group of actions.                                                        *)

LEMMA BlankTypes ==
  /\ NoCert \in Certificate
  /\ NoFile \in KubeconfigFile
  /\ NoStatus \in KubeconfigStatus
  /\ NoKubeconfig \in KubeconfigSlot
  /\ NoSecret \in SecretSlot
  /\ NoCsr \in CsrSlot
  /\ NoCrb \in CrbSlot
<1>1. NoCert \in Certificate
  BY DEF NoCert, Certificate, NoKey
<1>2. NoFile \in KubeconfigFile
  BY <1>1 DEF NoFile, KubeconfigFile, NoKey
<1>3. NoStatus \in KubeconfigStatus
  BY <1>2 DEF NoStatus, KubeconfigStatus, ConditionStatus, Phase
<1>4. NoKubeconfig \in KubeconfigSlot
  BY <1>3 DEF NoKubeconfig, KubeconfigSlot
<1>5. NoSecret \in SecretSlot
  BY <1>1, <1>2 DEF NoSecret, SecretSlot, NoKey
<1>6. NoCsr \in CsrSlot
  BY <1>1 DEF NoCsr, CsrSlot, NoKey
<1>7. NoCrb \in CrbSlot
  BY DEF NoCrb, CrbSlot
<1> QED
  BY <1>1, <1>2, <1>3, <1>4, <1>5, <1>6, <1>7

LEMMA SecretWriteTypes ==
  ASSUME NEW slot \in SecretSlot, NEW new \in SecretSlot
  PROVE  /\ Stored(slot, new) \in SecretSlot
         /\ Created(slot, new) \in SecretSlot
         /\ Removed(slot, new) \in SecretSlot
<1>1. slot.rv \in Nat /\ slot.rv + 1 \in Nat
  BY DEF SecretSlot
<1>2. [new EXCEPT !.rv = slot.rv + 1] \in SecretSlot
  BY <1>1 DEF SecretSlot
<1>3. [new EXCEPT !.exists = TRUE, !.rv = slot.rv + 1] \in SecretSlot
  BY <1>1, Zenon DEF SecretSlot
<1> QED
  BY <1>2, <1>3 DEF Stored, Created, Removed

LEMMA CsrWriteTypes ==
  ASSUME NEW slot \in CsrSlot, NEW new \in CsrSlot
  PROVE  /\ Stored(slot, new) \in CsrSlot
         /\ Created(slot, new) \in CsrSlot
         /\ Removed(slot, new) \in CsrSlot
<1>1. slot.rv \in Nat /\ slot.rv + 1 \in Nat
  BY DEF CsrSlot
<1>2. [new EXCEPT !.rv = slot.rv + 1] \in CsrSlot
  BY <1>1 DEF CsrSlot
<1>3. [new EXCEPT !.exists = TRUE, !.rv = slot.rv + 1] \in CsrSlot
  BY <1>1, Zenon DEF CsrSlot
<1> QED
  BY <1>2, <1>3 DEF Stored, Created, Removed

\* What is left of a CSR that is removed.
LEMMA RemovedCsrFields ==
  ASSUME NEW slot \in CsrSlot
  PROVE  /\ RemovedCsr(slot) \in CsrSlot
         /\ RemovedCsr(slot).rv = slot.rv + 1 /\ ~RemovedCsr(slot).exists
         /\ RemovedCsr(slot).owners = slot.owners /\ ~RemovedCsr(slot).autoApprove
         /\ RemovedCsr(slot).approved = "no" /\ RemovedCsr(slot).cert = NoCert
         /\ ~RemovedCsr(slot).denied /\ ~RemovedCsr(slot).failed
<1> DEFINE gone == [NoCsr EXCEPT !.owners = slot.owners]
<1>1. gone \in CsrSlot
  BY BlankTypes DEF CsrSlot
<1>2. /\ ~gone.exists /\ gone.owners = slot.owners /\ ~gone.autoApprove
      /\ gone.approved = "no" /\ gone.cert = NoCert /\ ~gone.denied /\ ~gone.failed
  BY DEF NoCsr
<1> HIDE DEF gone
<1>3. RemovedCsr(slot) = [gone EXCEPT !.rv = slot.rv + 1]
  BY DEF RemovedCsr, Removed, gone
<1>4. slot.rv + 1 \in Nat
  BY DEF CsrSlot
<1> QED
  BY <1>1, <1>2, <1>3, <1>4 DEF CsrSlot

LEMMA CrbWriteTypes ==
  ASSUME NEW slot \in CrbSlot, NEW new \in CrbSlot
  PROVE  Created(slot, new) \in CrbSlot
<1>1. slot.rv + 1 \in Nat
  BY DEF CrbSlot
<1> QED
  BY <1>1, Zenon DEF Created, CrbSlot

LEMMA KubeconfigWriteTypes ==
  ASSUME NEW slot \in KubeconfigSlot, NEW new \in KubeconfigSlot
  PROVE  /\ Stored(slot, new) \in KubeconfigSlot
         /\ Created(slot, new) \in KubeconfigSlot
         /\ Removed(slot, new) \in KubeconfigSlot
<1>1. slot.rv \in Nat /\ slot.rv + 1 \in Nat
  BY DEF KubeconfigSlot
<1>2. [new EXCEPT !.rv = slot.rv + 1] \in KubeconfigSlot
  BY <1>1 DEF KubeconfigSlot
<1>3. [new EXCEPT !.exists = TRUE, !.rv = slot.rv + 1] \in KubeconfigSlot
  BY <1>1, Zenon DEF KubeconfigSlot
<1> QED
  BY <1>2, <1>3 DEF Stored, Created, Removed

LEMMA SpendType ==
  ASSUME NEW kinds, used \in [Kinds -> Nat], Spend(kinds)
  PROVE  used' \in [Kinds -> Nat]
BY DEF Spend

LEMMA TypeInit == Init => TypeOK
<1> SUFFICES ASSUME Init PROVE TypeOK
  OBVIOUS
<1>1. ApiTypeOK
  BY BlankTypes DEF Init, ApiInit, ApiTypeOK, NoKubeconfig, UserKey
<1>2. ReconcilerTypeOK
  BY BlankTypes DEF Init, Idle, ReconcilerTypeOK, Worker, Positions
<1>3. CsrTypeOK
  BY BlankTypes DEF Init, CsrIdle, CsrTypeOK, CsrWorker
<1> QED
  BY <1>1, <1>2, <1>3 DEF TypeOK

LEMMA SyncTypes ==
  ASSUME TypeOK, \/ \E s \in SecretNames : SyncSecret(s)
                 \/ \E k \in Names : SyncCsr(k) \/ Resync(k)
                 \/ \E u \in Users : SyncCrb(u)
                 \/ SyncClusterInfo
                 \/ \E info \in ClusterInfos : PublishClusterInfo(info)
  PROVE  TypeOK'
<1> USE DEF TypeOK, ReconcilerTypeOK, CsrTypeOK, stored, caches, workers
<1>1. ASSUME NEW s \in SecretNames, SyncSecret(s) PROVE TypeOK'
  BY <1>1 DEF SyncSecret, ApiTypeOK
<1>2. ASSUME NEW k \in Names, SyncCsr(k) PROVE TypeOK'
  <2>1. \A o \in csrCache[k].owners \cup csr[k].owners : o[1] \in Names
    BY DEF ApiTypeOK, CsrSlot, Owner
  <2> QED
    BY <1>2, <2>1 DEF SyncCsr, ApiTypeOK
<1>3. ASSUME NEW k \in Names, Resync(k) PROVE TypeOK'
  BY <1>3 DEF Resync, ApiTypeOK
<1>4. ASSUME NEW u \in Users, SyncCrb(u) PROVE TypeOK'
  BY <1>4 DEF SyncCrb, ApiTypeOK
<1>5. CASE SyncClusterInfo
  BY <1>5 DEF SyncClusterInfo, ApiTypeOK
<1>6. ASSUME NEW info \in ClusterInfos, PublishClusterInfo(info) PROVE TypeOK'
  BY <1>6, SpendType DEF PublishClusterInfo, ApiTypeOK
<1> QED
  BY <1>1, <1>2, <1>3, <1>4, <1>5, <1>6

LEMMA ChangeCsrType ==
  ASSUME TypeOK, NEW k \in Names, NEW new \in CsrSlot, ChangeCsr(k, new),
         used' \in [Kinds -> Nat]
  PROVE  TypeOK'
BY DEF ChangeCsr, TypeOK, ApiTypeOK, ReconcilerTypeOK, CsrTypeOK, caches, workers

LEMMA ChangeSecretType ==
  ASSUME TypeOK, NEW s \in SecretNames, NEW new \in SecretSlot,
         ChangeSecret(s, new), used' \in [Kinds -> Nat]
  PROVE  TypeOK'
BY DEF ChangeSecret, TypeOK, ApiTypeOK, ReconcilerTypeOK, CsrTypeOK, caches, workers

\* What a stranger asks for.
StrangersCsr(annotated, owners) ==
  [NoCsr EXCEPT !.key = UserKey, !.autoApprove = annotated, !.owners = owners]

LEMMA StrangersFields ==
  ASSUME TypeOK, NEW annotated \in BOOLEAN, NEW owners \in SUBSET References
  PROVE  LET d == StrangersCsr(annotated, owners)
         IN /\ d \in CsrSlot
            /\ d.key = UserKey /\ d.owners = owners /\ d.autoApprove = annotated
            /\ d.approved = "no" /\ ~d.denied /\ ~d.failed /\ d.cert = NoCert
            /\ d.cn = None
<1>1. References \subseteq Owner
  BY DEF References, Owner, TypeOK, ApiTypeOK, KubeconfigSlot
<1>2. UserKey \in Nat /\ owners \in SUBSET Owner
  BY <1>1 DEF UserKey
<1>3. StrangersCsr(annotated, owners) \in CsrSlot
  BY <1>2, BlankTypes, Zenon DEF StrangersCsr, CsrSlot
<1> QED
  BY <1>3 DEF StrangersCsr, NoCsr

LEMMA ClientTypes ==
  ASSUME TypeOK, NEW k \in Names,
         \/ AdminApprove(k) \/ AdminDeny(k) \/ SignerIssue(k) \/ SignerFail(k)
         \/ CsrGone(k) \/ CollectCsr(k)
         \/ \E annotated \in BOOLEAN, owners \in SUBSET References :
              ForeignCsr(k, annotated, owners)
  PROVE  TypeOK'
<1>0. csr[k] \in CsrSlot /\ used \in [Kinds -> Nat]
  BY DEF TypeOK, ApiTypeOK
<1>1. CASE AdminApprove(k)
  <2>1. [csr[k] EXCEPT !.approved = "admin"] \in CsrSlot
    BY <1>0 DEF CsrSlot
  <2> QED
    BY <1>0, <1>1, <2>1, SpendType, CsrWriteTypes, ChangeCsrType DEF AdminApprove
<1>2. CASE AdminDeny(k)
  <2>1. [csr[k] EXCEPT !.denied = TRUE] \in CsrSlot
    BY <1>0 DEF CsrSlot
  <2> QED
    BY <1>0, <1>2, <2>1, SpendType, CsrWriteTypes, ChangeCsrType DEF AdminDeny
<1>3. CASE SignerIssue(k)
  <2>1. [key |-> csr[k].key, cn |-> csr[k].cn] \in Certificate
    BY <1>0 DEF CsrSlot, Certificate
  <2>2. [csr[k] EXCEPT !.cert = [key |-> csr[k].key, cn |-> csr[k].cn]] \in CsrSlot
    BY <1>0, <2>1 DEF CsrSlot
  <2> QED
    BY <1>0, <1>3, <2>2, CsrWriteTypes, ChangeCsrType DEF SignerIssue
<1>4. CASE SignerFail(k)
  <2>1. [csr[k] EXCEPT !.failed = TRUE] \in CsrSlot
    BY <1>0 DEF CsrSlot
  <2> QED
    BY <1>0, <1>4, <2>1, CsrWriteTypes, ChangeCsrType DEF SignerFail
<1>5. CASE CsrGone(k)
  BY <1>0, <1>5, RemovedCsrFields, SpendType, ChangeCsrType DEF CsrGone
<1>6. CASE CollectCsr(k)
  BY <1>0, <1>6, RemovedCsrFields, ChangeCsrType DEF CollectCsr
<1>7. ASSUME NEW annotated \in BOOLEAN, NEW owners \in SUBSET References,
             ForeignCsr(k, annotated, owners)
      PROVE  TypeOK'
  <2>1. [NoCsr EXCEPT !.key = UserKey, !.autoApprove = annotated,
                      !.owners = owners] \in CsrSlot
    BY StrangersFields DEF StrangersCsr
  <2> QED
    BY <1>0, <1>7, <2>1, SpendType, CsrWriteTypes, ChangeCsrType DEF ForeignCsr
<1> QED
  BY <1>1, <1>2, <1>3, <1>4, <1>5, <1>6, <1>7

LEMMA SecretClientTypes ==
  ASSUME TypeOK, NEW s \in SecretNames,
         \/ SecretGone(s) \/ CollectSecret(s)
         \/ \E filled \in BOOLEAN : ProvideSecret(s, filled)
  PROVE  TypeOK'
<1>0. secret[s] \in SecretSlot /\ used \in [Kinds -> Nat]
  BY DEF TypeOK, ApiTypeOK
<1>1. CASE SecretGone(s)
  BY <1>0, <1>1, BlankTypes, SpendType, SecretWriteTypes, ChangeSecretType
     DEF SecretGone
<1>2. CASE CollectSecret(s)
  BY <1>0, <1>2, BlankTypes, SecretWriteTypes, ChangeSecretType DEF CollectSecret
<1>3. ASSUME NEW filled \in BOOLEAN, ProvideSecret(s, filled) PROVE TypeOK'
  <2> DEFINE key == IF filled THEN UserKey ELSE NoKey
  <2>1. key \in Nat
    BY DEF UserKey, NoKey
  <2>2. [NoSecret EXCEPT !.data = filled, !.key = key] \in SecretSlot
    BY <2>1, BlankTypes, Zenon DEF SecretSlot
  <2> QED
    BY <1>0, <1>3, <2>2, SecretWriteTypes, ChangeSecretType DEF ProvideSecret
<1> QED
  BY <1>1, <1>2, <1>3

\* What a lookup may find, in any state whose types are right.
Findable == SUBSET (Servers \cup {None})

LEMMA FoundTypes ==
  ASSUME TypeOK, NEW lookup
  PROVE  Found(lookup) \in Findable
BY ClusterInfosAssumption DEF Found, Findable, TypeOK, ApiTypeOK

LEMMA ServerTypes ==
  ASSUME NEW server \in Servers \cup {None}, NEW found \in Findable
  PROVE  DefaultServer(server, found) \in Servers \cup {None}
<1>1. CASE server # None
  BY <1>1 DEF DefaultServer
<1>2. CASE server = None /\ found = {}
  BY <1>2, ConstantsAssumption DEF DefaultServer
<1>3. CASE server = None /\ found # {}
  <2>1. (CHOOSE s \in found : TRUE) \in found
    BY <1>3, Zenon
  <2> QED
    BY <1>3, <2>1 DEF DefaultServer, Findable
<1> QED
  BY <1>1, <1>2, <1>3

LEMMA DefaultTypes ==
  ASSUME NEW slot \in KubeconfigSlot, slot.spec \in KubeconfigSpec,
         NEW found \in Findable,
         NEW status \in KubeconfigStatus, NEW old, old.status = status,
         NEW kept, kept = KeepStatus(Default(slot, found), old)
  PROVE  kept \in KubeconfigSlot /\ kept.spec \in StoredSpec
<1>1. DefaultSpec(slot.spec, found) \in StoredSpec
  <2>1. (IF slot.spec.signatureAlgorithm = "" THEN "SHA256WithRSA"
         ELSE slot.spec.signatureAlgorithm) \in SignatureAlgorithm
    BY DEF KubeconfigSpec, SignatureAlgorithm
  <2>2. (IF slot.spec.roleRef = None THEN ClusterAdmin ELSE slot.spec.roleRef)
          \in Roles
    BY ConstantsAssumption DEF KubeconfigSpec
  <2>3. DefaultServer(slot.spec.server, found) \in Servers \cup {None}
    BY ServerTypes DEF KubeconfigSpec
  <2> QED
    BY <2>1, <2>2, <2>3, Zenon DEF DefaultSpec, StoredSpec, KubeconfigSpec
<1>2. DefaultSpec(slot.spec, found) \in KubeconfigSpec
  BY <1>1 DEF StoredSpec, KubeconfigSpec
<1>3. kept = [slot EXCEPT !.spec = DefaultSpec(slot.spec, found), !.status = status]
  BY Zenon DEF KeepStatus, Default, KubeconfigSlot
<1> QED
  BY <1>1, <1>2, <1>3, Zenon DEF KubeconfigSlot

LEMMA AdmitTypes ==
  ASSUME TypeOK, NEW k \in Names, NEW new \in KubeconfigSlot,
         new.exists => new.spec \in StoredSpec, AdmitKubeconfig(k, new),
         used' \in [Kinds -> Nat]
  PROVE  TypeOK'
BY DEF AdmitKubeconfig, TypeOK, ApiTypeOK, ReconcilerTypeOK, CsrTypeOK, caches, workers

LEMMA UserTypes == ASSUME TypeOK, UserNext PROVE TypeOK'
<1>0. used \in [Kinds -> Nat] /\ kubeconfig \in [Names -> KubeconfigSlot]
  BY DEF TypeOK, ApiTypeOK
<1>1. ASSUME NEW k \in Names, NEW spec \in Requests, NEW lookup \in Lookup,
             CreateKubeconfig(k, spec, lookup)
      PROVE  TypeOK'
  <2> DEFINE asked == [NoKubeconfig EXCEPT !.spec = spec,
                                           !.uid = kubeconfig[k].rv + 1]
             kept == KeepStatus(Default(asked, Found(lookup)), NoKubeconfig)
  <2>1. spec \in KubeconfigSpec
    BY ConstantsAssumption
  <2>2. kubeconfig[k].rv + 1 \in Nat
    BY <1>0 DEF KubeconfigSlot
  <2>3. asked \in KubeconfigSlot /\ asked.spec \in KubeconfigSpec
    BY <2>1, <2>2, BlankTypes, Zenon DEF KubeconfigSlot
  <2>4. NoKubeconfig.status \in KubeconfigStatus
    BY BlankTypes DEF KubeconfigSlot
  <2>5. kept \in KubeconfigSlot /\ kept.spec \in StoredSpec
    BY <2>3, <2>4, FoundTypes, DefaultTypes
  <2> HIDE DEF kept
  <2>6. Created(kubeconfig[k], kept) \in KubeconfigSlot
    BY <1>0, <2>5, KubeconfigWriteTypes
  <2>7. Created(kubeconfig[k], kept).spec \in StoredSpec
    BY <2>5 DEF Created, KubeconfigSlot
  <2>8. /\ AdmitKubeconfig(k, Created(kubeconfig[k], kept))
        /\ Spend({"create"} \cup LookupCost(lookup))
    BY <1>1 DEF CreateKubeconfig, kept
  <2> QED
    BY <1>0, <2>6, <2>7, <2>8, SpendType, AdmitTypes
<1>2. ASSUME NEW k \in Names, NEW spec \in Requests, NEW lookup \in Lookup,
             UpdateKubeconfig(k, spec, lookup)
      PROVE  TypeOK'
  <2> DEFINE old == kubeconfig[k]
             asked == [old EXCEPT !.spec = spec]
             kept == KeepStatus(Default(asked, Found(lookup)), old)
  <2>1. spec \in KubeconfigSpec
    BY ConstantsAssumption
  <2>2. asked \in KubeconfigSlot /\ asked.spec \in KubeconfigSpec
    BY <1>0, <2>1, Zenon DEF KubeconfigSlot
  <2>3. old.status \in KubeconfigStatus
    BY <1>0 DEF KubeconfigSlot
  <2>4. kept \in KubeconfigSlot /\ kept.spec \in StoredSpec
    BY <2>2, <2>3, FoundTypes, DefaultTypes
  <2>5. old.exists => old.spec \in StoredSpec
    BY DEF TypeOK, ApiTypeOK
  <2> HIDE DEF kept
  <2>6. Stored(old, kept) \in KubeconfigSlot
    BY <1>0, <2>4, KubeconfigWriteTypes
  <2>7. Stored(old, kept).exists => Stored(old, kept).spec \in StoredSpec
    BY <2>4, <2>5 DEF Stored, KubeconfigSlot
  <2>8. AdmitKubeconfig(k, Stored(old, kept)) /\ Spend({"edit"} \cup LookupCost(lookup))
    BY <1>2 DEF UpdateKubeconfig, kept
  <2> QED
    BY <1>0, <2>6, <2>7, <2>8, SpendType, AdmitTypes
<1>3. ASSUME NEW k \in Names, DeleteKubeconfig(k) PROVE TypeOK'
  <2>1. Removed(kubeconfig[k], NoKubeconfig) \in KubeconfigSlot
    BY <1>0, BlankTypes, KubeconfigWriteTypes
  <2>2. ~Removed(kubeconfig[k], NoKubeconfig).exists
    BY DEF Removed, NoKubeconfig
  <2> QED
    BY <1>0, <1>3, <2>1, <2>2, SpendType, AdmitTypes DEF DeleteKubeconfig
<1> QED
  BY <1>1, <1>2, <1>3 DEF UserNext

LEMMA CsrWorkerTypes == ASSUME TypeOK, CsrNext PROVE TypeOK'
<1> USE DEF TypeOK, ApiTypeOK, ReconcilerTypeOK, CsrTypeOK
<1>1. ASSUME NEW k \in Names, GetCsrToApprove(k) PROVE TypeOK'
  <2>1. CsrIdle \in CsrWorker
    BY BlankTypes DEF CsrIdle, CsrWorker
  <2>2. [pc |-> "approve", name |-> k, csr |-> csrCache[k]] \in CsrWorker
    BY DEF CsrWorker
  <2>3. cw' \in CsrWorker /\ (cw'.pc # "idle" => cw'.name \in Names)
    BY <1>1, <2>1, <2>2 DEF GetCsrToApprove, CsrIdle
  <2> QED
    BY <1>1, <2>3 DEF GetCsrToApprove, stored, caches
<1>2. ASSUME NEW reply \in Reply, ApproveCSR(reply) PROVE TypeOK'
  <2>1. CsrIdle \in CsrWorker
    BY BlankTypes DEF CsrIdle, CsrWorker
  <2>2. cw.csr \in CsrSlot
    BY DEF CsrWorker
  <2>3. setStatusCondition(cw.csr) \in CsrSlot
    BY <2>2 DEF setStatusCondition, CsrSlot
  <2> DEFINE new == setStatusCondition(cw.csr)
  <2> HIDE DEF new
  <2>4. used' \in [Kinds -> Nat]
    BY <1>2, SpendType DEF ApproveCSR, Answer
  <2>5. csr' \in [Names -> CsrSlot]
    <3>1. cw.name \in Names => Stored(csr[cw.name], new) \in CsrSlot
      BY <2>3, CsrWriteTypes DEF new
    <3>2. \/ csr' = csr
          \/ csr' = [csr EXCEPT ![cw.name] = Stored(csr[cw.name], new)]
      BY <1>2 DEF ApproveCSR, new
    <3> QED
      BY <3>1, <3>2
  <2>6. csrQueue' \subseteq Names
    BY <1>2 DEF ApproveCSR
  <2> QED
    BY <1>2, <2>1, <2>4, <2>5, <2>6 DEF ApproveCSR, CsrIdle, caches
<1> QED
  BY <1>1, <1>2 DEF CsrNext

(* The Kubeconfig controller: a step types if what it does to the worker,   *)
(* to its queue and to the objects does.                                    *)

WorkerOK(x) ==
  /\ x \in Worker
  /\ x.pc # "idle" => x.name \in Names /\ x.kc.exists /\ x.kc.spec \in StoredSpec

LEMMA IdleOK == WorkerOK(Idle)
BY BlankTypes DEF WorkerOK, Idle, Worker, Positions

LEMMA MovedOK ==
  ASSUME NEW x, WorkerOK(x), x.pc # "idle", NEW pc \in Positions,
         NEW s \in SecretSlot, NEW status \in KubeconfigStatus,
         NEW requeue \in BOOLEAN
  PROVE  /\ WorkerOK([x EXCEPT !.pc = pc, !.secret = s, !.kc.status = status])
         /\ WorkerOK([x EXCEPT !.pc = pc, !.secret = s, !.kc.status = status,
                               !.requeue = requeue])
<1> DEFINE kc == [x.kc EXCEPT !.status = status]
           moved == [x EXCEPT !.pc = pc, !.secret = s, !.kc = kc]
<1>1. x \in Worker /\ x.kc \in KubeconfigSlot
  BY DEF WorkerOK, Worker
<1>2. kc \in KubeconfigSlot /\ kc.exists /\ kc.spec \in StoredSpec
  BY <1>1 DEF WorkerOK, KubeconfigSlot
<1>3. moved \in Worker /\ [moved EXCEPT !.requeue = requeue] \in Worker
  BY <1>1, <1>2, Zenon DEF Worker
<1>4. /\ [x EXCEPT !.pc = pc, !.secret = s, !.kc.status = status] = moved
      /\ [x EXCEPT !.pc = pc, !.secret = s, !.kc.status = status,
                   !.requeue = requeue] = [moved EXCEPT !.requeue = requeue]
  BY <1>1, Zenon DEF Worker, KubeconfigSlot
<1> QED
  BY <1>1, <1>2, <1>3, <1>4 DEF WorkerOK, Worker

LEMMA StepTypes ==
  ASSUME TypeOK, WorkerOK(w'), queue' \subseteq Names, used' \in [Kinds -> Nat],
         lastKey' \in Nat, UNCHANGED <<clusterInfo, caches, csrQueue, cw>>,
         kubeconfig' \in [Names -> KubeconfigSlot],
         \A k \in Names : kubeconfig'[k].exists => kubeconfig'[k].spec \in StoredSpec,
         secret' \in [SecretNames -> SecretSlot], csr' \in [Names -> CsrSlot],
         crb' \in [Users -> CrbSlot]
  PROVE  TypeOK'
BY DEF TypeOK, ApiTypeOK, ReconcilerTypeOK, CsrTypeOK, WorkerOK, caches

\* What every busy worker has.
LEMMA Busy ==
  ASSUME TypeOK, w.pc # "idle"
  PROVE  /\ WorkerOK(w) /\ w.name \in Names /\ w.kc.exists
         /\ w.kc \in KubeconfigSlot /\ w.kc.spec \in StoredSpec
         /\ w.kc.status \in KubeconfigStatus /\ w.secret \in SecretSlot
         /\ w.kc.spec.username \in Users /\ userSecretName \in SecretNames
         /\ w.kc.uid \in Nat /\ w.kc.rv \in Nat
<1>1. WorkerOK(w) /\ w.name \in Names /\ w.kc.spec \in StoredSpec /\ w.kc.exists
  BY DEF TypeOK, ReconcilerTypeOK, WorkerOK
<1>2. w.kc \in KubeconfigSlot /\ w.secret \in SecretSlot
  BY <1>1 DEF WorkerOK, Worker
<1>3. w.kc.status \in KubeconfigStatus /\ w.kc.uid \in Nat /\ w.kc.rv \in Nat
  BY <1>2 DEF KubeconfigSlot
<1>4. w.kc.spec.username \in Users
      /\ w.kc.spec.existingCSR \in ExistingSecrets \cup {None}
  BY <1>1 DEF StoredSpec
<1>5. userSecretName \in SecretNames
  BY <1>1, <1>4 DEF userSecretName, SecretNames
<1> QED
  BY <1>1, <1>2, <1>3, <1>4, <1>5

\* The three ways in which a step of a reconcile goes on.
WentOn == WorkerOK(w') /\ queue' \subseteq Names

LEMMA ReturnTypes ==
  ASSUME TypeOK, w.pc # "idle", NEW requeue, Return(requeue)
  PROVE  WentOn
BY Busy, IdleOK DEF Return, WentOn, TypeOK, ApiTypeOK

LEMMA GoOnTypes ==
  ASSUME TypeOK, w.pc # "idle", NEW pc \in Positions, NEW s \in SecretSlot,
         NEW status \in KubeconfigStatus, GoOn(pc, s, status)
  PROVE  WentOn
<1>1. WorkerOK([w EXCEPT !.pc = pc, !.secret = s, !.kc.status = status])
  BY Busy, MovedOK
<1> QED
  BY <1>1 DEF GoOn, WentOn, TypeOK, ApiTypeOK

LEMMA EndWithTypes ==
  ASSUME TypeOK, w.pc # "idle", NEW status \in KubeconfigStatus,
         NEW requeue \in BOOLEAN, EndWith(status, requeue)
  PROVE  WentOn
<1>1. "updateStatus" \in Positions /\ NoSecret \in SecretSlot
  BY BlankTypes DEF Positions
<1>2. WorkerOK([w EXCEPT !.pc = "updateStatus", !.secret = NoSecret,
                         !.kc.status = status, !.requeue = requeue])
  BY <1>1, Busy, MovedOK
<1> QED
  BY <1>2 DEF EndWith, WentOn, TypeOK, ApiTypeOK

LEMMA OwnerTypes ==
  ASSUME NEW s \in SecretSlot, NEW k \in Names, NEW uid \in Nat
  PROVE  SetControllerReference(s, k, uid) \in SecretSlot
<1>1. {<<k, uid>>} \in SUBSET Owner
  BY DEF Owner
<1>2. [s EXCEPT !.owners = {<<k, uid>>}] \in SecretSlot
  BY <1>1, Zenon DEF SecretSlot
<1> QED
  BY <1>2 DEF SetControllerReference

\* A step that only reads.
LEMMA ReadTypes ==
  ASSUME TypeOK, OnlyReads, WentOn, used' \in [Kinds -> Nat]
  PROVE  TypeOK'
BY StepTypes DEF OnlyReads, WentOn, stored, TypeOK, ApiTypeOK

LEMMA GetKubeconfigTypes ==
  ASSUME TypeOK, NEW k \in Names, GetKubeconfig(k)
  PROVE  TypeOK'
<1>0. used \in [Kinds -> Nat] /\ queue \subseteq Names /\ WorkerOK(w)
  BY DEF TypeOK, ApiTypeOK, ReconcilerTypeOK, WorkerOK
<1>1. CASE queue' = queue \ {k} /\ UNCHANGED <<w, used>> /\ OnlyReads
  BY <1>0, <1>1, ReadTypes DEF WentOn
<1>2. CASE /\ kubeconfig[k].exists /\ queue' = queue \ {k} /\ UNCHANGED used
           /\ w' = [Idle EXCEPT !.pc = "getSecret", !.name = k, !.kc = kubeconfig[k]]
           /\ OnlyReads
  <2>1. kubeconfig[k] \in KubeconfigSlot /\ kubeconfig[k].spec \in StoredSpec
    BY <1>2 DEF TypeOK, ApiTypeOK
  <2>2. w' = [pc |-> "getSecret", name |-> k, kc |-> kubeconfig[k],
              secret |-> NoSecret, requeue |-> FALSE]
    BY <1>2 DEF Idle
  <2>3. w' \in Worker
    BY <2>1, <2>2, BlankTypes DEF Worker, Positions
  <2>4. WorkerOK(w')
    BY <1>2, <2>1, <2>2, <2>3 DEF WorkerOK
  <2> QED
    BY <1>0, <1>2, <2>4, ReadTypes DEF WentOn
<1>3. CASE Spend({"fault"}) /\ UNCHANGED <<queue, w>> /\ OnlyReads
  BY <1>0, <1>3, SpendType, ReadTypes DEF WentOn
<1> QED
  BY <1>1, <1>2, <1>3 DEF GetKubeconfig

LEMMA SecretReadTypes ==
  ASSUME TypeOK, GetExistingSecret \/ GetUserSecret
  PROVE  TypeOK'
<1>0. used \in [Kinds -> Nat] /\ secretCache \in [SecretNames -> SecretSlot]
  BY DEF TypeOK, ApiTypeOK
<1>1. w.pc # "idle" /\ OnlyReads
  BY DEF GetExistingSecret, GetUserSecret
<1>2. used' \in [Kinds -> Nat]
  BY <1>0, SpendType DEF GetExistingSecret, GetUserSecret
<1> DEFINE found == [w.kc.status EXCEPT !.userSecret = TRUE]
           lost == [w.kc.status EXCEPT !.userSecret = FALSE]
<1>3. found \in KubeconfigStatus /\ lost \in KubeconfigStatus
  BY <1>1, Busy DEF KubeconfigStatus
<1>4. {"getCsr", "createSecret"} \subseteq Positions
  BY DEF Positions
<1> HIDE DEF found, lost
<1>5. WentOn
  <2>1. CASE GetExistingSecret
    <3> DEFINE read == secretCache[w.kc.spec.existingCSR]
               owned == SetControllerReference(read, w.name, w.kc.uid)
    <3>1. read \in SecretSlot
      BY <1>0, <1>1, <2>1, Busy DEF GetExistingSecret, SecretNames, StoredSpec
    <3>2. owned \in SecretSlot
      BY <1>1, <3>1, Busy, OwnerTypes
    <3> HIDE DEF owned
    <3>3. \/ Return(TRUE)
          \/ GoOn("getCsr", owned, found)
          \/ GoOn("getCsr", NoSecret, lost)
      BY <2>1 DEF GetExistingSecret, owned, found, lost
    <3> QED
      BY <1>1, <1>3, <1>4, <3>2, <3>3, BlankTypes, ReturnTypes, GoOnTypes
  <2>2. CASE GetUserSecret
    <3>1. secretCache[w.name] \in SecretSlot
      BY <1>0, <1>1, Busy DEF SecretNames
    <3>2. \/ GoOn("createSecret", NoSecret, w.kc.status)
          \/ GoOn("getCsr", secretCache[w.name], w.kc.status)
          \/ Return(TRUE)
      BY <2>2 DEF GetUserSecret
    <3> QED
      BY <1>1, <1>4, <3>1, <3>2, Busy, BlankTypes, ReturnTypes, GoOnTypes
  <2> QED
    BY <2>1, <2>2
<1> QED
  BY <1>1, <1>2, <1>5, ReadTypes

LEMMA CsrReadTypes ==
  ASSUME TypeOK, \/ GetCsrNotFound \/ GetCsrRejected \/ GetCsrPending
                 \/ GetCsrUnsigned \/ GetCsrSigned
  PROVE  TypeOK'
<1>0. /\ used \in [Kinds -> Nat] /\ lastKey + 1 \in Nat
      /\ csrCache \in [Names -> CsrSlot]
  BY DEF TypeOK, ApiTypeOK
<1>1. w.pc # "idle" /\ OnlyReads
  BY DEF GetCsrNotFound, GetCsrRejected, GetCsrPending, GetCsrUnsigned, GetCsrSigned
<1>2. used' \in [Kinds -> Nat]
  BY <1>0, SpendType
     DEF GetCsrNotFound, GetCsrRejected, GetCsrPending, GetCsrUnsigned, GetCsrSigned
<1>3. w.kc.status \in KubeconfigStatus /\ w.secret \in SecretSlot
      /\ csrCache[w.name].cert \in Certificate /\ w.kc.spec.username \in Users
  BY <1>0, <1>1, Busy DEF CsrSlot
<1>4. {"updateKey", "updateCert"} \subseteq Positions
  BY DEF Positions
<1>5. WentOn
  <2>1. CASE GetCsrNotFound
    <3> DEFINE keyed == [w.secret EXCEPT !.key = createCSR]
    <3>1. keyed \in SecretSlot
      BY <1>0, <1>3 DEF createCSR, SecretSlot
    <3> HIDE DEF keyed
    <3>2. GoOn("updateKey", keyed, w.kc.status) \/ Return(FALSE)
      BY <2>1 DEF GetCsrNotFound, keyed
    <3> QED
      BY <1>1, <1>3, <1>4, <3>1, <3>2, ReturnTypes, GoOnTypes
  <2>2. CASE GetCsrRejected
    <3> DEFINE status == [w.kc.status EXCEPT !.CSRApproved = "False",
                                             !.KubeconfigFinished = "False",
                                             !.phase = "Failed"]
    <3>1. "False" \in ConditionStatus /\ "Failed" \in Phase
      BY DEF ConditionStatus, Phase
    <3>2. status \in KubeconfigStatus
      BY <1>3, <3>1, Zenon DEF KubeconfigStatus
    <3> HIDE DEF status
    <3>3. EndWith(status, FALSE)
      BY <2>2 DEF GetCsrRejected, status
    <3> QED
      BY <1>1, <3>2, <3>3, EndWithTypes
  <2>3. CASE GetCsrPending
    BY <1>1, <2>3, ReturnTypes DEF GetCsrPending
  <2>4. CASE GetCsrUnsigned
    <3> DEFINE status == [w.kc.status EXCEPT !.CSRApproved = "True"]
    <3>1. status \in KubeconfigStatus
      BY <1>3 DEF KubeconfigStatus, ConditionStatus
    <3> HIDE DEF status
    <3>2. EndWith(status, TRUE)
      BY <2>4 DEF GetCsrUnsigned, status
    <3> QED
      BY <1>1, <3>1, <3>2, EndWithTypes
  <2>5. CASE GetCsrSigned
    <3> DEFINE signed == [w.secret EXCEPT !.cert = csrCache[w.name].cert]
               file == createKubeconfig(w.kc, signed)
               filled == [signed EXCEPT !.kubeconfig = file]
               status == [w.kc.status EXCEPT !.CSRApproved = "True",
                                             !.kubeconfig = file]
    <3>1. signed \in SecretSlot
      BY <1>3 DEF SecretSlot
    <3>2. signed.key \in Nat /\ signed.cert \in Certificate
      BY <3>1 DEF SecretSlot
    <3>3. file \in KubeconfigFile
      BY <1>1, <1>3, <3>2, Busy DEF StoredSpec, createKubeconfig, KubeconfigFile
    <3> HIDE DEF signed, file
    <3>4. filled \in SecretSlot
      BY <3>1, <3>3 DEF SecretSlot
    <3>5. "True" \in ConditionStatus
      BY DEF ConditionStatus
    <3>6. status \in KubeconfigStatus
      BY <1>3, <3>3, <3>5, Zenon DEF KubeconfigStatus
    <3> HIDE DEF filled, status
    <3>7. GoOn("updateCert", filled, status) \/ Return(TRUE)
      BY <2>5 DEF GetCsrSigned, signed, file, filled, status
    <3> QED
      BY <1>1, <1>4, <3>4, <3>6, <3>7, ReturnTypes, GoOnTypes
  <2> QED
    BY <2>1, <2>2, <2>3, <2>4, <2>5
<1> QED
  BY <1>1, <1>2, <1>5, ReadTypes

LEMMA CompleteTypes == ASSUME TypeOK, w.pc # "idle", Complete PROVE WentOn
<1> DEFINE status == [w.kc.status EXCEPT !.KubeconfigFinished = "True",
                                         !.phase = "Done"]
<1>1. "True" \in ConditionStatus /\ "Done" \in Phase
  BY DEF ConditionStatus, Phase
<1>2. status \in KubeconfigStatus
  BY <1>1, Busy, Zenon DEF KubeconfigStatus
<1> HIDE DEF status
<1>3. EndWith(status, FALSE)
  BY DEF Complete, status
<1> QED
  BY <1>2, <1>3, EndWithTypes

LEMMA GetCrbTypes == ASSUME TypeOK, GetCrb PROVE TypeOK'
<1>0. used \in [Kinds -> Nat]
  BY DEF TypeOK, ApiTypeOK
<1>1. w.pc # "idle" /\ OnlyReads /\ "createCrb" \in Positions
  BY DEF GetCrb, Positions
<1>2. Complete \/ GoOn("createCrb", NoSecret, w.kc.status) \/ Return(TRUE)
  BY DEF GetCrb
<1>3. used' \in [Kinds -> Nat]
  BY <1>0, SpendType DEF GetCrb
<1>4. WentOn
  BY <1>1, <1>2, Busy, BlankTypes, CompleteTypes, GoOnTypes, ReturnTypes
<1> QED
  BY <1>1, <1>3, <1>4, ReadTypes

LEMMA CreateUserSecretTypes ==
  ASSUME TypeOK, NEW reply \in Reply, CreateUserSecret(reply)
  PROVE  TypeOK'
<1> DEFINE new == Created(secret[w.name], createUserSecret(w.name, w.kc))
           made == [w.kc.status EXCEPT !.userSecret = TRUE,
                                       !.UserSecretCreated = "True"]
           failed == [w.kc.status EXCEPT !.UserSecretCreated = "False",
                                         !.phase = "Failed"]
<1>1. w.pc # "idle" /\ "getCsr" \in Positions
  BY DEF CreateUserSecret, Positions
<1>2. new \in SecretSlot
  <2>1. [NoSecret EXCEPT !.data = TRUE] \in SecretSlot
    BY BlankTypes DEF SecretSlot
  <2>2. createUserSecret(w.name, w.kc) \in SecretSlot
    BY <1>1, <2>1, Busy, OwnerTypes DEF createUserSecret
  <2>3. secret[w.name] \in SecretSlot
    BY <1>1, Busy DEF TypeOK, ApiTypeOK, SecretNames
  <2> QED
    BY <2>2, <2>3, SecretWriteTypes
<1>3. made \in KubeconfigStatus /\ failed \in KubeconfigStatus
  <2>1. {"True", "False"} \subseteq ConditionStatus /\ "Failed" \in Phase
    BY DEF ConditionStatus, Phase
  <2> QED
    BY <1>1, <2>1, Busy, Zenon DEF KubeconfigStatus
<1> HIDE DEF new, made, failed
<1>4. GoOn("getCsr", new, made) \/ EndWith(failed, TRUE)
  BY DEF CreateUserSecret, new, made, failed
<1>5. WentOn
  BY <1>1, <1>2, <1>3, <1>4, GoOnTypes, EndWithTypes
<1>6. secret' \in [SecretNames -> SecretSlot]
  <2>1. secret' = [secret EXCEPT ![w.name] = new] \/ secret' = secret
    BY DEF CreateUserSecret, new
  <2> QED
    BY <1>2, <2>1 DEF TypeOK, ApiTypeOK
<1>7. used' \in [Kinds -> Nat]
  BY SpendType DEF CreateUserSecret, Answer, TypeOK, ApiTypeOK
<1> QED
  BY <1>5, <1>6, <1>7, StepTypes DEF CreateUserSecret, WentOn, TypeOK, ApiTypeOK

LEMMA UpdateSecretTypes ==
  ASSUME TypeOK, w.pc # "idle", NEW reply \in Reply, UpdateSecret(reply)
  PROVE  secret' \in [SecretNames -> SecretSlot] /\ used' \in [Kinds -> Nat]
<1>1. userSecretName \in SecretNames /\ w.secret \in SecretSlot
  BY Busy
<1>2. secret[userSecretName] \in SecretSlot
  BY <1>1 DEF TypeOK, ApiTypeOK
<1>3. Stored(secret[userSecretName], w.secret) \in SecretSlot
  BY <1>1, <1>2, SecretWriteTypes
<1>4. \/ secret' = secret
      \/ secret' = [secret EXCEPT ![userSecretName] =
                                    Stored(secret[userSecretName], w.secret)]
  BY DEF UpdateSecret
<1>5. secret' \in [SecretNames -> SecretSlot]
  BY <1>3, <1>4 DEF TypeOK, ApiTypeOK
<1> QED
  BY <1>5, SpendType DEF UpdateSecret, Answer, TypeOK, ApiTypeOK

LEMMA UpdateSecretKeyTypes ==
  ASSUME TypeOK, NEW reply \in Reply, UpdateSecretKey(reply)
  PROVE  TypeOK'
<1>1. /\ w.pc # "idle" /\ "createCsr" \in Positions
      /\ UpdateSecret(reply)
      /\ Return(TRUE) \/ GoOn("createCsr", w.secret, w.kc.status)
  BY DEF UpdateSecretKey, Positions
<1>2. WentOn
  BY <1>1, Busy, ReturnTypes, GoOnTypes
<1>3. lastKey' \in Nat
  BY <1>1, Busy DEF UpdateSecretKey, SecretSlot, TypeOK, ApiTypeOK
<1> QED
  BY <1>1, <1>2, <1>3, UpdateSecretTypes, StepTypes
     DEF UpdateSecret, WentOn, TypeOK, ApiTypeOK, caches

LEMMA UpdateSecretCertTypes ==
  ASSUME TypeOK, NEW reply \in Reply, UpdateSecretCert(reply)
  PROVE  TypeOK'
<1> DEFINE status == [w.kc.status EXCEPT !.UserSecretFinished = "True"]
<1>1. /\ w.pc # "idle" /\ "getCrb" \in Positions
      /\ UpdateSecret(reply) /\ UNCHANGED lastKey
  BY DEF UpdateSecretCert, Positions
<1>2. status \in KubeconfigStatus
  BY <1>1, Busy DEF KubeconfigStatus, ConditionStatus
<1> HIDE DEF status
<1>3. Return(TRUE) \/ GoOn("getCrb", NoSecret, status)
  BY DEF UpdateSecretCert, status
<1>4. WentOn
  BY <1>1, <1>2, <1>3, BlankTypes, ReturnTypes, GoOnTypes
<1> QED
  BY <1>1, <1>4, UpdateSecretTypes, StepTypes
     DEF UpdateSecret, WentOn, TypeOK, ApiTypeOK, caches

LEMMA RequestTypes ==
  ASSUME TypeOK, w.pc # "idle"
  PROVE  createCsr(w.name, w.kc, w.secret.key) \in CsrSlot
<1>1. w.secret.key \in Nat /\ w.kc.spec.username \in Users
  BY Busy DEF SecretSlot
<1>2. w.kc.spec.autoApproveCSR \in BOOLEAN
  BY Busy DEF StoredSpec
<1>3. {<<w.name, w.kc.uid>>} \in SUBSET Owner
  BY Busy DEF Owner
<1> QED
  BY <1>1, <1>2, <1>3, BlankTypes, Zenon DEF createCsr, CsrSlot

LEMMA CreateCsrTypes ==
  ASSUME TypeOK, NEW reply \in Reply, CreateCsr(reply)
  PROVE  TypeOK'
<1> DEFINE asked == createCsr(w.name, w.kc, w.secret.key)
           new == Created(csr[w.name], asked)
           status == [w.kc.status EXCEPT !.csr = TRUE, !.CSRCreated = "True",
                                         !.phase = "Awaiting Approval"]
<1>1. w.pc # "idle"
  BY DEF CreateCsr
<1>2. asked \in CsrSlot
  BY <1>1, RequestTypes
<1> HIDE DEF asked
<1>3. csr[w.name] \in CsrSlot
  BY <1>1, Busy DEF TypeOK, ApiTypeOK
<1>4. new \in CsrSlot
  BY <1>2, <1>3, CsrWriteTypes
<1>5. status \in KubeconfigStatus
  <2>1. "True" \in ConditionStatus /\ "Awaiting Approval" \in Phase
    BY DEF ConditionStatus, Phase
  <2> QED
    BY <1>1, <2>1, Busy, Zenon DEF KubeconfigStatus
<1> HIDE DEF new, status
<1>6. EndWith(status, FALSE) \/ Return(TRUE)
  BY DEF CreateCsr, status
<1>7. WentOn
  BY <1>1, <1>5, <1>6, EndWithTypes, ReturnTypes
<1>8. csr' \in [Names -> CsrSlot]
  <2>1. csr' = [csr EXCEPT ![w.name] = new] \/ csr' = csr
    BY DEF CreateCsr, asked, new
  <2> QED
    BY <1>4, <2>1 DEF TypeOK, ApiTypeOK
<1>9. used' \in [Kinds -> Nat]
  BY SpendType DEF CreateCsr, Answer, TypeOK, ApiTypeOK
<1> QED
  BY <1>7, <1>8, <1>9, StepTypes DEF CreateCsr, WentOn, TypeOK, ApiTypeOK

LEMMA CreateCrbTypes ==
  ASSUME TypeOK, NEW reply \in Reply, CreateCrb(reply)
  PROVE  TypeOK'
<1> DEFINE u == w.kc.spec.username
           binding == createClusterRoleBinding(w.kc)
           new == Created(crb[u], binding)
<1>1. w.pc # "idle"
  BY DEF CreateCrb
<1>2. binding \in CrbSlot
  BY <1>1, Busy, BlankTypes DEF createClusterRoleBinding, CrbSlot, StoredSpec
<1>3. u \in Users /\ crb[u] \in CrbSlot
  BY <1>1, Busy DEF TypeOK, ApiTypeOK
<1> HIDE DEF binding
<1>4. new \in CrbSlot
  BY <1>2, <1>3, CrbWriteTypes
<1> HIDE DEF new
<1>5. crb' \in [Users -> CrbSlot]
  <2>1. crb' = [crb EXCEPT ![u] = new] \/ crb' = crb
    BY DEF CreateCrb, binding, new
  <2> QED
    BY <1>4, <2>1 DEF TypeOK, ApiTypeOK
<1>6. Complete \/ Return(TRUE)
  BY DEF CreateCrb
<1>7. WentOn
  BY <1>1, <1>6, CompleteTypes, ReturnTypes
<1>8. used' \in [Kinds -> Nat]
  BY SpendType DEF CreateCrb, Answer, TypeOK, ApiTypeOK
<1> QED
  BY <1>5, <1>7, <1>8, StepTypes DEF CreateCrb, WentOn, TypeOK, ApiTypeOK

LEMMA UpdateStatusTypes ==
  ASSUME TypeOK, NEW reply \in Reply, UpdateStatus(reply)
  PROVE  TypeOK'
<1> DEFINE k == w.name
           old == kubeconfig[k]
           updated == [old EXCEPT !.status = Persisted(w.kc.status)]
           new == IF reply # "error" /\ Current(w.kc, old)
                  THEN Stored(old, updated) ELSE old
<1>1. w.pc # "idle" /\ k \in Names /\ w.kc.status \in KubeconfigStatus
  BY Busy DEF UpdateStatus
<1>2. old \in KubeconfigSlot /\ (old.exists => old.spec \in StoredSpec)
  BY <1>1 DEF TypeOK, ApiTypeOK
<1>3. Persisted(w.kc.status) \in KubeconfigStatus
  <2>1. "Unknown" \in Phase
    BY DEF Phase
  <2>2. [w.kc.status EXCEPT !.phase = "Unknown"] \in KubeconfigStatus
    BY <1>1, <2>1, Zenon DEF KubeconfigStatus
  <2> QED
    BY <1>1, <2>2 DEF Persisted
<1>4. updated \in KubeconfigSlot /\ updated.spec = old.spec
                                 /\ updated.exists = old.exists
  BY <1>2, <1>3 DEF KubeconfigSlot
<1> HIDE DEF updated
<1>5. Stored(old, updated) \in KubeconfigSlot
  BY <1>2, <1>4, KubeconfigWriteTypes
<1>6. new \in KubeconfigSlot /\ (new.exists => new.spec \in StoredSpec)
  BY <1>2, <1>4, <1>5 DEF Stored, KubeconfigSlot
<1>7. kubeconfig' = [kubeconfig EXCEPT ![k] = new]
  BY DEF UpdateStatus, updated
<1>8. w' = Idle /\ queue' \subseteq Names
  BY <1>1 DEF UpdateStatus, TypeOK, ApiTypeOK
<1> HIDE DEF new
<1>9. /\ kubeconfig' \in [Names -> KubeconfigSlot]
      /\ \A n \in Names : kubeconfig'[n].exists => kubeconfig'[n].spec \in StoredSpec
  BY <1>1, <1>6, <1>7 DEF TypeOK, ApiTypeOK
<1>10. used' \in [Kinds -> Nat]
  BY SpendType DEF UpdateStatus, Answer, TypeOK, ApiTypeOK
<1> QED
  BY <1>8, <1>9, <1>10, IdleOK, StepTypes DEF UpdateStatus, TypeOK, ApiTypeOK

LEMMA RestartTypes ==
  ASSUME TypeOK, Restart, used' \in [Kinds -> Nat]
  PROVE  TypeOK'
<1>1. WorkerOK(Idle) /\ CsrIdle \in CsrWorker
  BY IdleOK, BlankTypes DEF CsrIdle, CsrWorker
<1> QED
  BY <1>1 DEF Restart, stored, TypeOK, ApiTypeOK, ReconcilerTypeOK, CsrTypeOK,
              WorkerOK, CsrIdle, Idle

LEMMA TypeStep == ASSUME TypeOK, [Next]_vars PROVE TypeOK'
<1>1. CASE UserNext
  BY <1>1, UserTypes
<1>2. CASE ClusterNext
  <2>1. \A s \in ExistingSecrets : s \in SecretNames
    BY DEF SecretNames
  <2> QED
    BY <1>2, <2>1, SyncTypes, ClientTypes, SecretClientTypes DEF ClusterNext
<1>3. CASE ReconcilerNext
  BY <1>3, GetKubeconfigTypes, SecretReadTypes, CsrReadTypes, GetCrbTypes,
     CreateUserSecretTypes, UpdateSecretKeyTypes, CreateCsrTypes,
     UpdateSecretCertTypes, CreateCrbTypes, UpdateStatusTypes
     DEF ReconcilerNext, Reads, Writes
<1>4. CASE CsrNext
  BY <1>4, CsrWorkerTypes
<1>5. CASE Crash
  BY <1>5, RestartTypes, SpendType DEF Crash, TypeOK, ApiTypeOK
<1>6. CASE Panic
  BY <1>6, RestartTypes DEF Panic, TypeOK, ApiTypeOK
<1>7. CASE UNCHANGED vars
  BY <1>7 DEF vars, stored, caches, workers, TypeOK, ApiTypeOK, ReconcilerTypeOK,
              CsrTypeOK
<1> QED
  BY <1>1, <1>2, <1>3, <1>4, <1>5, <1>6, <1>7 DEF Next

\* Every variable always has its type; in particular every stored Kubeconfig has
\* the role reference and the algorithm that the controller relies on.
THEOREM TypeCorrectness == Spec => []TypeOK
<1>1. Init => TypeOK
  BY TypeInit
<1>2. TypeOK /\ [Next]_vars => TypeOK'
  BY TypeStep
<1> QED
  BY <1>1, <1>2, PTL DEF Spec
=============================================================================
