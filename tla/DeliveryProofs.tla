---------------------------- MODULE DeliveryProofs ----------------------------
(***************************************************************************)
(* How Kubeconfigs come to their ends: proofs of FinishedAsSpecified and   *)
(* of VerdictIsItsOwn for any value of the constants.                      *)
(*                                                                         *)
(* The file is templated several calls before the status that carries it   *)
(* is written.  FileAsAsked says that a worker on its way to a delivery    *)
(* has a file made from its copy of the spec; FreshCopy (VerdictProofs)    *)
(* then compares that copy with the stored Kubeconfig.                     *)
(***************************************************************************)
EXTENDS VerdictProofs

-----------------------------------------------------------------------------
(* What a step of a reconcile does to the file and to the verdict in the    *)
(* worker's copy.                                                           *)

\* The worker x has templated the file and is bound to deliver it.
Delivers(x) == \/ x.pc \in {"updateCert", "getCrb", "createCrb"}
               \/ x.kc.status.KubeconfigFinished = "True"

Rejects(x) == x.kc.status.KubeconfigFinished = "False"

\* It goes on with the file it has and with no verdict that was not coming.
Continues ==
  /\ w.pc # "idle" /\ w'.name = w.name /\ w'.kc.spec = w.kc.spec
  /\ w'.kc.status.kubeconfig = w.kc.status.kubeconfig
  /\ Delivers(w') => Delivers(w)
  /\ Rejects(w') => Rejects(w)

\* It templates the file from the certificate in the cache.
Templates ==
  /\ w.pc # "idle" /\ w'.name = w.name /\ w'.kc.spec = w.kc.spec
  /\ csrCache[w.name].cert # NoCert
  /\ w'.kc.status.kubeconfig =
       createKubeconfig(w.kc, [w.secret EXCEPT !.cert = csrCache[w.name].cert])
  /\ Rejects(w') => Rejects(w)

\* It finds the CSR denied or failed.
FindsRejected ==
  /\ w.pc = "getCsr" /\ w'.name = w.name /\ w'.kc.spec = w.kc.spec
  /\ Rejected(csrCache[w.name])
  /\ w'.kc.status.kubeconfig = w.kc.status.kubeconfig
  /\ Rejects(w') /\ ~Delivers(w')

\* It begins with a Kubeconfig that has no verdict.
Begins ==
  \E k \in Names : /\ w'.name = k /\ w'.kc = kubeconfig[k]
                   /\ ~Delivers(w') /\ ~Rejects(w')

VerdictMove ==
  w'.pc # "idle" =>
    \/ UNCHANGED w \/ Continues \/ Templates \/ FindsRejected \/ Begins

LEMMA GoOnFields ==
  ASSUME TypeOK, w.pc # "idle", NEW pc, NEW s, NEW status \in KubeconfigStatus,
         GoOn(pc, s, status)
  PROVE  /\ w'.pc = pc /\ w'.name = w.name /\ w'.kc.spec = w.kc.spec
         /\ w'.kc.status = status
<1>1. w \in Worker /\ w.kc \in KubeconfigSlot
  BY Busy DEF TypeOK, ReconcilerTypeOK
<1> QED
  BY <1>1, Zenon DEF GoOn, Worker, KubeconfigSlot

LEMMA EndWithFields ==
  ASSUME TypeOK, w.pc # "idle", NEW status \in KubeconfigStatus, NEW requeue,
         EndWith(status, requeue)
  PROVE  /\ w'.pc = "updateStatus" /\ w'.name = w.name /\ w'.kc.spec = w.kc.spec
         /\ w'.kc.status = status
<1>1. w \in Worker /\ w.kc \in KubeconfigSlot
  BY Busy DEF TypeOK, ReconcilerTypeOK
<1> QED
  BY <1>1, Zenon DEF EndWith, Worker, KubeconfigSlot

\* A move that keeps the file and the verdict.
Quietly(status) ==
  /\ status \in KubeconfigStatus
  /\ status.kubeconfig = w.kc.status.kubeconfig
  /\ status.KubeconfigFinished = w.kc.status.KubeconfigFinished

LEMMA GoesOnQuietly ==
  ASSUME TypeOK, w.pc # "idle", NEW status, Quietly(status), NEW pc, NEW s,
         GoOn(pc, s, status),
         pc \in {"updateCert", "getCrb", "createCrb"} => Delivers(w)
  PROVE  VerdictMove
<1>1. status \in KubeconfigStatus
  BY DEF Quietly
<1>2. /\ w'.pc = pc /\ w'.name = w.name /\ w'.kc.spec = w.kc.spec
      /\ w'.kc.status = status
  BY <1>1, GoOnFields
<1> QED
  BY <1>2 DEF VerdictMove, Continues, Delivers, Rejects, Quietly

LEMMA EndsQuietly ==
  ASSUME TypeOK, w.pc # "idle", NEW status, Quietly(status), NEW requeue,
         EndWith(status, requeue)
  PROVE  VerdictMove
<1>1. status \in KubeconfigStatus
  BY DEF Quietly
<1>2. /\ w'.pc = "updateStatus" /\ w'.name = w.name /\ w'.kc.spec = w.kc.spec
      /\ w'.kc.status = status
  BY <1>1, EndWithFields
<1> QED
  BY <1>2 DEF VerdictMove, Continues, Delivers, Rejects, Quietly

LEMMA ReturnMoves ==
  ASSUME NEW requeue, Return(requeue)
  PROVE  VerdictMove
BY DEF Return, VerdictMove, Idle

\* The status stays as it is but for this field.
LEMMA QuietStatus ==
  ASSUME TypeOK, w.pc # "idle"
  PROVE  /\ Quietly(w.kc.status)
         /\ \A b \in BOOLEAN : Quietly([w.kc.status EXCEPT !.userSecret = b])
         /\ Quietly([w.kc.status EXCEPT !.userSecret = TRUE,
                                        !.UserSecretCreated = "True"])
         /\ Quietly([w.kc.status EXCEPT !.UserSecretCreated = "False",
                                        !.phase = "Failed"])
         /\ Quietly([w.kc.status EXCEPT !.CSRApproved = "True"])
         /\ Quietly([w.kc.status EXCEPT !.csr = TRUE, !.CSRCreated = "True",
                                        !.phase = "Awaiting Approval"])
         /\ Quietly([w.kc.status EXCEPT !.UserSecretFinished = "True"])
<1>1. w.kc.status \in KubeconfigStatus
  BY Busy
<1>2. /\ {"True", "False"} \subseteq ConditionStatus
      /\ {"Failed", "Awaiting Approval"} \subseteq Phase
  BY DEF ConditionStatus, Phase
<1>3. Quietly(w.kc.status)
  BY <1>1 DEF Quietly
<1>4. \A b \in BOOLEAN : Quietly([w.kc.status EXCEPT !.userSecret = b])
  BY <1>1, <1>2, Zenon DEF Quietly, KubeconfigStatus
<1>5. Quietly([w.kc.status EXCEPT !.userSecret = TRUE, !.UserSecretCreated = "True"])
  BY <1>1, <1>2, Zenon DEF Quietly, KubeconfigStatus
<1>6. Quietly([w.kc.status EXCEPT !.UserSecretCreated = "False", !.phase = "Failed"])
  BY <1>1, <1>2, Zenon DEF Quietly, KubeconfigStatus
<1>7. Quietly([w.kc.status EXCEPT !.CSRApproved = "True"])
  BY <1>1, <1>2, Zenon DEF Quietly, KubeconfigStatus
<1>8. Quietly([w.kc.status EXCEPT !.csr = TRUE, !.CSRCreated = "True",
                                  !.phase = "Awaiting Approval"])
  BY <1>1, <1>2, Zenon DEF Quietly, KubeconfigStatus
<1>9. Quietly([w.kc.status EXCEPT !.UserSecretFinished = "True"])
  BY <1>1, <1>2, Zenon DEF Quietly, KubeconfigStatus
<1> QED
  BY <1>3, <1>4, <1>5, <1>6, <1>7, <1>8, <1>9

LEMMA CompleteMoves ==
  ASSUME TypeOK, w.pc \in {"getCrb", "createCrb"}, Complete
  PROVE  VerdictMove
<1> DEFINE status == [w.kc.status EXCEPT !.KubeconfigFinished = "True",
                                         !.phase = "Done"]
<1>1. /\ status \in KubeconfigStatus /\ status.kubeconfig = w.kc.status.kubeconfig
      /\ status.KubeconfigFinished = "True"
  BY Busy, Zenon DEF KubeconfigStatus, ConditionStatus, Phase
<1> HIDE DEF status
<1>2. EndWith(status, FALSE)
  BY DEF Complete, status
<1>3. /\ w'.pc = "updateStatus" /\ w'.name = w.name /\ w'.kc.spec = w.kc.spec
      /\ w'.kc.status = status
  BY <1>1, <1>2, EndWithFields
<1> QED
  BY <1>1, <1>3 DEF VerdictMove, Continues, Delivers, Rejects

LEMMA SignedMoves ==
  ASSUME TypeOK, GetCsrSigned
  PROVE  VerdictMove
<1> DEFINE signed == [w.secret EXCEPT !.cert = csrCache[w.name].cert]
           file == createKubeconfig(w.kc, signed)
           filled == [signed EXCEPT !.kubeconfig = file]
           status == [w.kc.status EXCEPT !.CSRApproved = "True",
                                         !.kubeconfig = file]
<1>1. /\ w.pc # "idle" /\ w.name \in Names /\ w.kc.status \in KubeconfigStatus
      /\ w.secret \in SecretSlot /\ w.kc.spec \in StoredSpec
      /\ csrCache[w.name].cert # NoCert
  BY Busy DEF GetCsrSigned
<1>2. csrCache[w.name].cert \in Certificate
  BY <1>1 DEF TypeOK, ApiTypeOK, CsrSlot
<1>3. file \in KubeconfigFile
  <2>1. signed \in SecretSlot
    BY <1>1, <1>2 DEF SecretSlot
  <2>2. signed.key \in Nat /\ signed.cert \in Certificate
    BY <2>1 DEF SecretSlot
  <2> HIDE DEF signed
  <2> QED
    BY <1>1, <2>2 DEF createKubeconfig, KubeconfigFile, StoredSpec
<1> HIDE DEF file
<1>4. /\ status \in KubeconfigStatus /\ status.kubeconfig = file
      /\ status.KubeconfigFinished = w.kc.status.KubeconfigFinished
  BY <1>1, <1>3, Zenon DEF KubeconfigStatus, ConditionStatus
<1> HIDE DEF status
<1>5. GoOn("updateCert", filled, status) \/ Return(TRUE)
  BY DEF GetCsrSigned, signed, file, filled, status
<1>6. CASE GoOn("updateCert", filled, status)
  <2>1. /\ w'.name = w.name /\ w'.kc.spec = w.kc.spec /\ w'.kc.status = status
    BY <1>1, <1>4, <1>6, GoOnFields
  <2> QED
    BY <1>1, <1>4, <2>1 DEF VerdictMove, Templates, Rejects, file, signed
<1>7. CASE Return(TRUE)
  BY <1>7 DEF Return, VerdictMove, Idle
<1> QED
  BY <1>5, <1>6, <1>7

LEMMA RejectedMoves ==
  ASSUME TypeOK, GetCsrRejected
  PROVE  VerdictMove
<1> DEFINE status == [w.kc.status EXCEPT !.CSRApproved = "False",
                                         !.KubeconfigFinished = "False",
                                         !.phase = "Failed"]
<1>1. w.pc = "getCsr" /\ Rejected(csrCache[w.name]) /\ EndWith(status, FALSE)
  BY DEF GetCsrRejected
<1>2. /\ status \in KubeconfigStatus /\ status.kubeconfig = w.kc.status.kubeconfig
      /\ status.KubeconfigFinished = "False"
  BY <1>1, Busy, Zenon DEF KubeconfigStatus, ConditionStatus, Phase
<1> HIDE DEF status
<1>3. /\ w'.pc = "updateStatus" /\ w'.name = w.name /\ w'.kc.spec = w.kc.spec
      /\ w'.kc.status = status
  BY <1>1, <1>2, EndWithFields
<1> QED
  BY <1>1, <1>2, <1>3 DEF VerdictMove, FindsRejected, Delivers, Rejects

LEMMA ReadMoves == ASSUME TypeOK, Reads PROVE VerdictMove
<1>1. CASE GetExistingSecret
  <2> DEFINE found == [w.kc.status EXCEPT !.userSecret = TRUE]
             lost == [w.kc.status EXCEPT !.userSecret = FALSE]
  <2>1. w.pc # "idle"
    BY <1>1 DEF GetExistingSecret
  <2>2. Return(TRUE) \/ \E s : GoOn("getCsr", s, found) \/ GoOn("getCsr", s, lost)
    BY <1>1, Zenon DEF GetExistingSecret
  <2>3. Quietly(found) /\ Quietly(lost)
    BY <2>1, QuietStatus
  <2> HIDE DEF found, lost
  <2> QED
    BY <2>1, <2>2, <2>3, GoesOnQuietly, EndsQuietly, ReturnMoves
<1>2. CASE GetUserSecret
  <2>1. /\ w.pc # "idle"
        /\ \/ Return(TRUE)
           \/ \E pc \in {"createSecret", "getCsr"} : \E s : GoOn(pc, s, w.kc.status)
    BY <1>2, Zenon DEF GetUserSecret
  <2> QED
    BY <2>1, QuietStatus, GoesOnQuietly, EndsQuietly, ReturnMoves
<1>3. CASE GetCrb
  <2>1. /\ w.pc = "getCrb"
        /\ Complete \/ Return(TRUE) \/ GoOn("createCrb", NoSecret, w.kc.status)
    BY <1>3 DEF GetCrb
  <2>2. Delivers(w)
    BY <2>1 DEF Delivers
  <2> QED
    BY <2>1, <2>2, CompleteMoves, QuietStatus, GoesOnQuietly, EndsQuietly, ReturnMoves
<1>4. CASE GetCsrNotFound
  <2>1. /\ w.pc # "idle"
        /\ Return(FALSE) \/ \E s : GoOn("updateKey", s, w.kc.status)
    BY <1>4, Zenon DEF GetCsrNotFound
  <2> QED
    BY <2>1, QuietStatus, GoesOnQuietly, EndsQuietly, ReturnMoves
<1>5. CASE GetCsrPending
  <2>1. w.pc # "idle" /\ Return(FALSE)
    BY <1>5 DEF GetCsrPending
  <2> QED
    BY <2>1, QuietStatus, GoesOnQuietly, EndsQuietly, ReturnMoves
<1>6. CASE GetCsrUnsigned
  <2>1. w.pc # "idle" /\ EndWith([w.kc.status EXCEPT !.CSRApproved = "True"], TRUE)
    BY <1>6 DEF GetCsrUnsigned
  <2> QED
    BY <2>1, QuietStatus, GoesOnQuietly, EndsQuietly, ReturnMoves
<1> QED
  BY <1>1, <1>2, <1>3, <1>4, <1>5, <1>6, SignedMoves, RejectedMoves DEF Reads

LEMMA WriteMoves ==
  ASSUME TypeOK, NEW reply \in Reply, Writes(reply)
  PROVE  VerdictMove
<1>1. CASE CreateUserSecret(reply)
  <2> DEFINE made == [w.kc.status EXCEPT !.userSecret = TRUE,
                                         !.UserSecretCreated = "True"]
             failed == [w.kc.status EXCEPT !.UserSecretCreated = "False",
                                           !.phase = "Failed"]
  <2>1. /\ w.pc # "idle"
        /\ (\E s : GoOn("getCsr", s, made)) \/ EndWith(failed, TRUE)
    BY <1>1, Zenon DEF CreateUserSecret
  <2>2. Quietly(made) /\ Quietly(failed)
    BY <2>1, QuietStatus
  <2> HIDE DEF made, failed
  <2> QED
    BY <2>1, <2>2, GoesOnQuietly, EndsQuietly
<1>2. CASE UpdateSecretKey(reply)
  <2>1. /\ w.pc # "idle"
        /\ Return(TRUE) \/ GoOn("createCsr", w.secret, w.kc.status)
    BY <1>2 DEF UpdateSecretKey
  <2> QED
    BY <2>1, QuietStatus, GoesOnQuietly, EndsQuietly, ReturnMoves
<1>3. CASE CreateCsr(reply)
  <2>1. /\ w.pc # "idle"
        /\ \/ EndWith([w.kc.status EXCEPT !.csr = TRUE, !.CSRCreated = "True",
                                          !.phase = "Awaiting Approval"], FALSE)
           \/ Return(TRUE)
    BY <1>3 DEF CreateCsr
  <2> QED
    BY <2>1, QuietStatus, GoesOnQuietly, EndsQuietly, ReturnMoves
<1>4. CASE UpdateSecretCert(reply)
  <2>1. /\ w.pc = "updateCert"
        /\ \/ GoOn("getCrb", NoSecret,
                   [w.kc.status EXCEPT !.UserSecretFinished = "True"])
           \/ Return(TRUE)
    BY <1>4 DEF UpdateSecretCert
  <2>2. w.pc # "idle" /\ Delivers(w)
    BY <2>1 DEF Delivers
  <2> QED
    BY <2>1, <2>2, QuietStatus, GoesOnQuietly, EndsQuietly, ReturnMoves
<1>5. CASE CreateCrb(reply)
  <2>1. w.pc = "createCrb" /\ (Complete \/ Return(TRUE))
    BY <1>5 DEF CreateCrb
  <2> QED
    BY <2>1, CompleteMoves, QuietStatus, GoesOnQuietly, EndsQuietly, ReturnMoves
<1>6. CASE UpdateStatus(reply)
  BY <1>6 DEF UpdateStatus, VerdictMove, Idle
<1> QED
  BY <1>1, <1>2, <1>3, <1>4, <1>5, <1>6 DEF Writes

LEMMA VerdictMoves == ASSUME TypeOK, [Next]_vars PROVE VerdictMove
<1>1. CASE \E k \in Names : GetKubeconfig(k)
  <2>1. PICK k \in Names : GetKubeconfig(k)
    BY <1>1
  <2>2. CASE UNCHANGED w
    BY <2>2 DEF VerdictMove
  <2>3. CASE /\ w' = [Idle EXCEPT !.pc = "getSecret", !.name = k,
                                 !.kc = kubeconfig[k]]
             /\ ~isInTerminalCondition(kubeconfig[k])
    <3>1. w' = [pc |-> "getSecret", name |-> k, kc |-> kubeconfig[k],
                secret |-> NoSecret, requeue |-> FALSE]
      BY <2>3 DEF Idle
    <3> QED
      BY <2>3, <3>1
         DEF VerdictMove, Begins, Delivers, Rejects, isInTerminalCondition
  <2> QED
    BY <2>1, <2>2, <2>3 DEF GetKubeconfig
<1>2. CASE Reads \/ \E reply \in Reply : Writes(reply)
  BY <1>2, ReadMoves, WriteMoves
<1>3. CASE UNCHANGED w \/ w' = Idle
  BY <1>3 DEF VerdictMove, Idle
<1>4. CASE UserNext \/ ClusterNext \/ CsrNext \/ Crash \/ Panic \/ UNCHANGED vars
  <2>1. CASE UserNext
    BY <1>3, <2>1 DEF UserNext, CreateKubeconfig, UpdateKubeconfig,
                      DeleteKubeconfig, AdmitKubeconfig, workers
  <2>2. CASE ClusterNext \/ UNCHANGED vars
    BY <1>3, <2>2
       DEF ClusterNext, SyncSecret, SyncCsr, SyncCrb, Resync, AdminApprove, AdminDeny,
           SignerIssue, SignerFail, CsrGone, CollectCsr, ForeignCsr, SecretGone,
           CollectSecret, ProvideSecret, ChangeCsr, ChangeSecret, SyncClusterInfo,
           PublishClusterInfo, vars, workers
  <2>3. CASE CsrNext \/ Crash \/ Panic
    BY <1>3, <2>3 DEF CsrNext, GetCsrToApprove, ApproveCSR, Crash, Panic, Restart
  <2> QED
    BY <1>4, <2>1, <2>2, <2>3
<1> QED
  BY <1>1, <1>2, <1>4 DEF Next, ReconcilerNext

-----------------------------------------------------------------------------
(* The file is the one the copy of the spec asks for.                       *)

FileAsAsked ==
  w.pc # "idle" /\ Delivers(w) =>
    /\ w.kc.status.kubeconfig.user = w.kc.spec.username
    /\ w.kc.status.kubeconfig.server = w.kc.spec.server

DeliveryInv == VerdictInv /\ FileAsAsked

LEMMA FileStep ==
  ASSUME DeliveryInv, [Next]_vars
  PROVE  FileAsAsked'
<1>1. VerdictMove /\ FileAsAsked
  BY VerdictMoves DEF DeliveryInv, VerdictInv
<1> SUFFICES ASSUME w'.pc # "idle", Delivers(w')
             PROVE  /\ w'.kc.status.kubeconfig.user = w'.kc.spec.username
                    /\ w'.kc.status.kubeconfig.server = w'.kc.spec.server
  BY DEF FileAsAsked, Delivers
<1>2. CASE UNCHANGED w \/ Continues
  BY <1>1, <1>2 DEF FileAsAsked, Continues
<1>3. CASE Templates
  BY <1>3 DEF Templates, createKubeconfig
<1>4. CASE FindsRejected \/ Begins
  BY <1>4 DEF FindsRejected, Begins
<1> QED
  BY <1>1, <1>2, <1>3, <1>4 DEF VerdictMove

-----------------------------------------------------------------------------
(* How a Kubeconfig comes to a verdict.                                     *)

\* UpdateStatus writes what the copy says to a Kubeconfig of the copy's version,
\* which is the one that was copied and has no verdict yet.
VerdictWritten(k) ==
  /\ w.pc = "updateStatus" /\ w.name = k
  /\ kubeconfig[k].exists /\ ~isInTerminalCondition(kubeconfig[k])
  /\ kubeconfig'[k].exists
  /\ kubeconfig'[k].uid = w.kc.uid
  /\ kubeconfig'[k].spec = w.kc.spec
  /\ kubeconfig'[k].status = Persisted(w.kc.status)

\* Otherwise a Kubeconfig keeps its verdict, begins without one, or goes.
VerdictKept(k) ==
  \/ ~kubeconfig'[k].exists
  \/ ~kubeconfig[k].exists /\ kubeconfig'[k].exists /\ kubeconfig'[k].status = NoStatus
  \/ kubeconfig[k].exists /\ kubeconfig'[k].exists
     /\ kubeconfig'[k].status = kubeconfig[k].status

KubeconfigMove(k) ==
  /\ \A j \in Names \ {k} : kubeconfig'[j] = kubeconfig[j]
  /\ VerdictWritten(k) \/ VerdictKept(k)

LEMMA AdmissionMoves ==
  ASSUME TypeOK, NEW k \in Names, NEW spec \in Requests, NEW lookup \in Lookup,
         CreateKubeconfig(k, spec, lookup) \/ UpdateKubeconfig(k, spec, lookup)
  PROVE  /\ \A j \in Names \ {k} : kubeconfig'[j] = kubeconfig[j]
         /\ VerdictKept(k)
<1>0. kubeconfig \in [Names -> KubeconfigSlot] /\ spec \in KubeconfigSpec
  BY ConstantsAssumption DEF TypeOK, ApiTypeOK
<1>1. CASE CreateKubeconfig(k, spec, lookup)
  <2> DEFINE asked == [NoKubeconfig EXCEPT !.spec = spec,
                                           !.uid = kubeconfig[k].rv + 1]
             kept == KeepStatus(Default(asked, Found(lookup)), NoKubeconfig)
             new == Created(kubeconfig[k], kept)
  <2>1. asked \in KubeconfigSlot /\ asked.spec \in KubeconfigSpec
    <3>1. kubeconfig[k].rv + 1 \in Nat
      BY <1>0 DEF KubeconfigSlot
    <3> QED
      BY <1>0, <3>1, BlankTypes, Zenon DEF KubeconfigSlot
  <2>2. NoKubeconfig.status = NoStatus /\ NoStatus \in KubeconfigStatus
    BY BlankTypes DEF NoKubeconfig
  <2>3. kept \in KubeconfigSlot
    BY <2>1, <2>2, FoundTypes, DefaultTypes
  <2>4. kept.status = NoStatus
    BY <2>2, <2>3 DEF KeepStatus, KubeconfigSlot
  <2> HIDE DEF kept
  <2>5. new.exists /\ new.status = NoStatus
    BY <2>3, <2>4, Zenon DEF Created, KubeconfigSlot
  <2>6. ~kubeconfig[k].exists /\ kubeconfig' = [kubeconfig EXCEPT ![k] = new]
    BY <1>1 DEF CreateKubeconfig, AdmitKubeconfig, kept
  <2> HIDE DEF new
  <2> QED
    BY <1>0, <2>5, <2>6 DEF VerdictKept
<1>2. CASE UpdateKubeconfig(k, spec, lookup)
  <2> DEFINE old == kubeconfig[k]
             asked == [old EXCEPT !.spec = spec]
             kept == KeepStatus(Default(asked, Found(lookup)), old)
             new == Stored(old, kept)
  <2>1. asked \in KubeconfigSlot /\ asked.spec \in KubeconfigSpec
    BY <1>0, Zenon DEF KubeconfigSlot
  <2>2. old \in KubeconfigSlot /\ old.status \in KubeconfigStatus
    BY <1>0 DEF KubeconfigSlot
  <2>3. kept \in KubeconfigSlot
    BY <2>1, <2>2, FoundTypes, DefaultTypes
  <2>4. kept.status = old.status
    BY <2>3 DEF KeepStatus, KubeconfigSlot
  <2> HIDE DEF kept
  <2>5. new.status = old.status
    BY <2>2, <2>3, <2>4, WritesAdvance
  <2>6. old.exists /\ kubeconfig' = [kubeconfig EXCEPT ![k] = new]
    BY <1>2 DEF UpdateKubeconfig, AdmitKubeconfig, kept
  <2> HIDE DEF new
  <2>7. new.exists \/ ~new.exists
    OBVIOUS
  <2> QED
    BY <1>0, <2>5, <2>6, <2>7 DEF VerdictKept
<1> QED
  BY <1>1, <1>2

LEMMA StatusMoves ==
  ASSUME VerdictInv, NEW reply \in Reply, UpdateStatus(reply)
  PROVE  UNCHANGED kubeconfig \/ KubeconfigMove(w.name)
<1> DEFINE k == w.name
           old == kubeconfig[k]
           updated == [old EXCEPT !.status = Persisted(w.kc.status)]
           new == Stored(old, updated)
<1>1. TypeOK /\ w.pc = "updateStatus" /\ k \in Names
  BY Busy DEF UpdateStatus, VerdictInv
<1>2. old \in KubeconfigSlot
  BY <1>1 DEF TypeOK, ApiTypeOK
<1>3. /\ updated.status = Persisted(w.kc.status)
      /\ updated.spec = old.spec /\ updated.exists = old.exists
      /\ updated.uid = old.uid
  BY <1>2 DEF KubeconfigSlot
<1> HIDE DEF updated
<1>4. kubeconfig' = [kubeconfig EXCEPT ![k] = IF reply # "error" /\ Current(w.kc, old)
                                              THEN new ELSE old]
  BY DEF UpdateStatus, updated
<1>5. CASE reply # "error" /\ Current(w.kc, old)
  <2>1. /\ old.exists /\ ~isInTerminalCondition(old)
        /\ w.kc.uid = old.uid /\ w.kc.spec = old.spec
    BY <1>1, <1>5 DEF VerdictInv, FreshCopy, Current
  <2>2. /\ new.status = Persisted(w.kc.status) /\ new.spec = w.kc.spec
        /\ new.uid = w.kc.uid /\ new.exists
    BY <1>2, <1>3, <2>1 DEF Stored, updated, KubeconfigSlot
  <2> HIDE DEF new
  <2>3. /\ kubeconfig'[k] = new
        /\ \A j \in Names \ {k} : kubeconfig'[j] = kubeconfig[j]
    BY <1>1, <1>4, <1>5 DEF TypeOK, ApiTypeOK
  <2> QED
    BY <1>1, <2>1, <2>2, <2>3 DEF KubeconfigMove, VerdictWritten
<1>6. CASE ~(reply # "error" /\ Current(w.kc, old))
  BY <1>1, <1>4, <1>6 DEF TypeOK, ApiTypeOK
<1> QED
  BY <1>5, <1>6

LEMMA KubeconfigMoves ==
  ASSUME VerdictInv, [Next]_vars
  PROVE  \/ UNCHANGED kubeconfig
         \/ UNCHANGED csr /\ \E k \in Names : KubeconfigMove(k)
<1>1. TypeOK
  BY DEF VerdictInv
<1>2. CASE UserNext
  <2>1. UNCHANGED csr
    BY <1>2 DEF UserNext, CreateKubeconfig, UpdateKubeconfig, DeleteKubeconfig,
                AdmitKubeconfig
  <2>2. \E k \in Names : KubeconfigMove(k)
    <3>1. CASE \E k \in Names : DeleteKubeconfig(k)
      BY <1>1, <3>1 DEF DeleteKubeconfig, AdmitKubeconfig, Removed, NoKubeconfig,
                        KubeconfigMove, VerdictKept, TypeOK, ApiTypeOK
    <3> QED
      BY <1>1, <1>2, <3>1, AdmissionMoves DEF UserNext, KubeconfigMove
  <2> QED
    BY <2>1, <2>2
<1>3. CASE \E reply \in Reply : UpdateStatus(reply)
  BY <1>1, <1>3, Busy, StatusMoves DEF UpdateStatus
<1>4. CASE ReconcilerNext /\ ~\E reply \in Reply : UpdateStatus(reply)
  BY <1>4 DEF ReconcilerNext, Reads, Writes, GetKubeconfig, GetExistingSecret,
              GetUserSecret, GetCrb, GetCsrNotFound, GetCsrRejected, GetCsrPending,
              GetCsrUnsigned, GetCsrSigned, CreateUserSecret, UpdateSecretKey,
              CreateCsr, UpdateSecretCert, CreateCrb, UpdateSecret, OnlyReads, stored
<1>5. CASE ClusterNext \/ CsrNext \/ Crash \/ Panic \/ UNCHANGED vars
  BY <1>5 DEF ClusterNext, CsrNext, Crash, Panic, Restart, vars, stored,
              SyncSecret, SyncCsr, SyncCrb, Resync, AdminApprove, AdminDeny,
              SignerIssue, SignerFail, CsrGone, CollectCsr, ForeignCsr, SecretGone,
              CollectSecret, ProvideSecret, ChangeCsr, ChangeSecret, SyncClusterInfo,
              PublishClusterInfo, GetCsrToApprove, ApproveCSR
<1> QED
  BY <1>2, <1>3, <1>4, <1>5 DEF Next

-----------------------------------------------------------------------------

\* The step of FinishedAsSpecified.
FinishedMove ==
  \A k \in Names : ~Finished(k, "True") /\ Finished(k, "True")' =>
    /\ kubeconfig'[k].status.kubeconfig.user = kubeconfig'[k].spec.username
    /\ kubeconfig'[k].status.kubeconfig.server = kubeconfig'[k].spec.server

\* The API server's default for the phase changes nothing else.
LEMMA PersistedFields ==
  ASSUME NEW status \in KubeconfigStatus
  PROVE  /\ Persisted(status).kubeconfig = status.kubeconfig
         /\ Persisted(status).KubeconfigFinished = status.KubeconfigFinished
BY DEF Persisted, KubeconfigStatus

LEMMA DeliveryStep ==
  ASSUME DeliveryInv, [Next]_vars
  PROVE  FinishedMove
<1>1. VerdictInv /\ TypeOK /\ FileAsAsked
  BY DEF DeliveryInv, VerdictInv
<1> SUFFICES ASSUME NEW k \in Names, ~Finished(k, "True"), Finished(k, "True")'
             PROVE  /\ kubeconfig'[k].status.kubeconfig.user =
                         kubeconfig'[k].spec.username
                    /\ kubeconfig'[k].status.kubeconfig.server =
                         kubeconfig'[k].spec.server
  BY DEF FinishedMove
<1>2. kubeconfig'[k].exists /\ kubeconfig'[k].status.KubeconfigFinished = "True"
  BY DEF Finished
<1>3. ~(kubeconfig[k].exists /\ kubeconfig[k].status.KubeconfigFinished = "True")
  BY DEF Finished
<1>4. VerdictWritten(k)
  <2>1. kubeconfig'[k] # kubeconfig[k]
    BY <1>2, <1>3
  <2>2. VerdictWritten(k) \/ VerdictKept(k)
    BY <1>1, <2>1, KubeconfigMoves DEF KubeconfigMove
  <2>3. ~VerdictKept(k)
    <3>1. NoStatus.KubeconfigFinished = "Absent"
      BY DEF NoStatus
    <3> QED
      BY <1>2, <1>3, <3>1 DEF VerdictKept
  <2> QED
    BY <2>2, <2>3
<1>5. w.pc # "idle" /\ w.kc.status \in KubeconfigStatus
  BY <1>1, <1>4, Busy DEF VerdictWritten
<1>6. /\ kubeconfig'[k].spec = w.kc.spec
      /\ kubeconfig'[k].status.kubeconfig = w.kc.status.kubeconfig
      /\ w.kc.status.KubeconfigFinished = "True"
  BY <1>2, <1>4, <1>5, PersistedFields DEF VerdictWritten
<1> QED
  BY <1>1, <1>5, <1>6 DEF FileAsAsked, Delivers

LEMMA DeliveryInit == Init => DeliveryInv
<1> SUFFICES ASSUME Init PROVE DeliveryInv
  OBVIOUS
<1>1. TypeOK /\ w.pc = "idle"
  BY TypeInit DEF Init, Idle
<1> QED
  BY <1>1 DEF DeliveryInv, VerdictInv, FreshCopy, FileAsAsked

\* The step of VerdictIsItsOwn.
OwnVerdicts ==
  \A k \in Names : ~Terminal(k) /\ Terminal(k)' =>
    w.name = k /\ w.kc.uid = kubeconfig'[k].uid

LEMMA OwnStep ==
  ASSUME VerdictInv, [Next]_vars
  PROVE  OwnVerdicts
<1> SUFFICES ASSUME NEW k \in Names, ~Terminal(k), Terminal(k)'
             PROVE  w.name = k /\ w.kc.uid = kubeconfig'[k].uid
  BY DEF OwnVerdicts
<1>1. kubeconfig'[k].exists /\ isInTerminalCondition(kubeconfig'[k])
  BY DEF Terminal, Finished, isInTerminalCondition
<1>2. ~(kubeconfig[k].exists /\ isInTerminalCondition(kubeconfig[k]))
  BY TerminalIsCondition
<1>3. VerdictWritten(k) \/ VerdictKept(k)
  BY <1>1, <1>2, KubeconfigMoves DEF KubeconfigMove
<1>4. ~VerdictKept(k)
  <2>1. NoStatus.KubeconfigFinished = "Absent"
    BY DEF NoStatus
  <2> QED
    BY <1>1, <1>2, <2>1 DEF VerdictKept, isInTerminalCondition
<1> QED
  BY <1>3, <1>4 DEF VerdictWritten

\* A verdict falls on the Kubeconfig that the reconcile has read, and not on one that
\* was created under the same name meanwhile: the copy's version is not the stored
\* one then, and the update that carries the verdict is refused.
THEOREM VerdictIsForItself == Spec => VerdictIsItsOwn
<1>1. Init => VerdictInv
  BY DeliveryInit DEF DeliveryInv
<1>2. VerdictInv /\ [Next]_vars => VerdictInv'
  BY VerdictStep
<1>3. VerdictInv /\ [Next]_vars => [OwnVerdicts]_vars
  BY OwnStep
<1>4. Spec => [][OwnVerdicts]_vars
  BY <1>1, <1>2, <1>3, PTL DEF Spec
<1> QED
  BY <1>4 DEF VerdictIsItsOwn, OwnVerdicts

\* A Kubeconfig becomes Done with a file for the user and the server that its spec
\* names at that moment, although the file was templated several calls earlier: an
\* edit in between makes the last update fail.
THEOREM FinishedMatchesSpec == Spec => FinishedAsSpecified
<1>1. DeliveryInv /\ [Next]_vars => DeliveryInv'
  BY VerdictStep, FileStep DEF DeliveryInv
<1>2. DeliveryInv /\ [Next]_vars => [FinishedMove]_vars
  BY DeliveryStep
<1>3. Spec => [][FinishedMove]_vars
  BY <1>1, <1>2, DeliveryInit, PTL DEF Spec
<1> QED
  BY <1>3 DEF FinishedAsSpecified, FinishedMove
=============================================================================
