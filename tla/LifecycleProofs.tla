--------------------------- MODULE LifecycleProofs ---------------------------
(***************************************************************************)
(* The operator implements Lifecycle: proof of KeepsPromise for any value  *)
(* of the constants.                                                       *)
(*                                                                         *)
(* A certificate and a refusal travel from the server through the cache to *)
(* a worker's copy of the status and back.  HistoryInv says that wherever  *)
(* they are, the history has them.                                         *)
(***************************************************************************)
EXTENDS DeliveryProofs, ApprovalProofs, LifecycleRefinement

\* What the CSR c of the name k says is in the history.
Remembered(k, c) ==
  /\ c.cert = NoCert \/ c.cert \in issued[k]
  /\ c.denied \/ c.failed => k \in refused

\* So is what a worker is about to deliver or to reject.
WorkerRemembered ==
  w.pc # "idle" =>
    /\ Delivers(w) => w.kc.status.kubeconfig.cert \in issued[w.name]
    /\ Rejects(w) => w.name \in refused

HistoryInv ==
  /\ VerdictInv
  /\ issued \in [Names -> SUBSET Certificate] /\ refused \subseteq Names
  /\ \A k \in Names : Remembered(k, csr[k]) /\ Remembered(k, csrCache[k])
  /\ cw.pc # "idle" => Remembered(cw.name, cw.csr)
  /\ WorkerRemembered

LEMMA HistoryStart == HistoryInit => HistoryInv
<1> SUFFICES ASSUME HistoryInit PROVE HistoryInv
  OBVIOUS
<1>1. TypeOK /\ w.pc = "idle" /\ cw.pc = "idle"
  BY TypeInit DEF HistoryInit, Init, Idle, CsrIdle
<1>2. \A k \in Names : csr[k] = NoCsr /\ csrCache[k] = NoCsr
  BY DEF HistoryInit, Init, ApiInit
<1>3. NoCsr.cert = NoCert /\ ~NoCsr.denied /\ ~NoCsr.failed
  BY DEF NoCsr
<1>4. issued \in [Names -> SUBSET Certificate] /\ refused \subseteq Names
  BY DEF HistoryInit
<1> QED
  BY <1>1, <1>2, <1>3, <1>4
     DEF HistoryInv, VerdictInv, FreshCopy, Remembered, WorkerRemembered

-----------------------------------------------------------------------------
(* The history grows.                                                       *)

LEMMA RecordGrows ==
  ASSUME HistoryInv, TypeOK', Record
  PROVE  /\ issued' \in [Names -> SUBSET Certificate] /\ refused' \subseteq Names
         /\ \A k \in Names : issued[k] \subseteq issued'[k]
         /\ refused \subseteq refused'
         /\ \A k \in Names : /\ csr'[k].cert = NoCert \/ csr'[k].cert \in issued'[k]
                             /\ csr'[k].denied \/ csr'[k].failed => k \in refused'
<1>1. \A k \in Names : csr'[k].cert \in Certificate
  BY DEF TypeOK, ApiTypeOK, CsrSlot
<1> QED
  BY <1>1 DEF Record, HistoryInv

LEMMA HistoryStep ==
  ASSUME HistoryInv, [Next]_vars, Record
  PROVE  HistoryInv'
<1>1. VerdictInv /\ TypeOK /\ WorkerRemembered
  BY DEF HistoryInv, VerdictInv
<1>2. VerdictInv' /\ TypeOK'
  BY <1>1, VerdictStep DEF VerdictInv
<1>3. /\ issued' \in [Names -> SUBSET Certificate] /\ refused' \subseteq Names
      /\ \A k \in Names : issued[k] \subseteq issued'[k]
      /\ refused \subseteq refused'
      /\ \A k \in Names : /\ csr'[k].cert = NoCert \/ csr'[k].cert \in issued'[k]
                          /\ csr'[k].denied \/ csr'[k].failed => k \in refused'
  BY <1>2, RecordGrows
<1>4. CacheMove /\ ApproverMove
  BY <1>1, AllMove
<1>5. \A k \in Names : (Remembered(k, csr[k]) /\ Remembered(k, csrCache[k]))'
  BY <1>3, <1>4 DEF CacheMove, Remembered, HistoryInv
<1>6. (cw.pc # "idle" => Remembered(cw.name, cw.csr))'
  <2>1. CASE UNCHANGED cw
    <3>1. cw.pc # "idle" => cw.name \in Names
      BY <1>1 DEF TypeOK, CsrTypeOK
    <3> QED
      BY <1>3, <2>1, <3>1 DEF HistoryInv, Remembered
  <2>2. CASE cw' = CsrIdle
    BY <2>2 DEF CsrIdle
  <2>3. CASE \E k \in Names : cw'.name = k /\ cw'.csr = csrCache[k]
    BY <1>3, <2>3 DEF HistoryInv, Remembered
  <2> QED
    BY <1>4, <2>1, <2>2, <2>3 DEF ApproverMove
<1>7. WorkerRemembered'
  <2> SUFFICES ASSUME w'.pc # "idle"
               PROVE  /\ Delivers(w') => w'.kc.status.kubeconfig.cert \in issued'[w'.name]
                      /\ Rejects(w') => w'.name \in refused'
    BY DEF WorkerRemembered, Delivers, Rejects
  <2>1. w'.name \in Names
    BY <1>2 DEF TypeOK, ReconcilerTypeOK
  <2>2. CASE UNCHANGED w \/ Continues
    BY <1>1, <1>3, <2>1, <2>2 DEF Continues, WorkerRemembered
  <2>3. CASE Templates
    <3>1. /\ w.pc # "idle" /\ w'.name = w.name /\ csrCache[w.name].cert # NoCert
          /\ w'.kc.status.kubeconfig.cert = csrCache[w.name].cert
      <4>1. w.secret \in SecretSlot
        BY <1>1, <2>3, Busy DEF Templates
      <4>2. [w.secret EXCEPT !.cert = csrCache[w.name].cert].cert =
              csrCache[w.name].cert
        BY <4>1 DEF SecretSlot
      <4> QED
        BY <2>3, <4>2 DEF Templates, createKubeconfig
    <3>2. csrCache[w.name].cert \in issued[w.name]
      BY <2>1, <3>1 DEF HistoryInv, Remembered
    <3> QED
      BY <1>1, <1>3, <2>1, <2>3, <3>1, <3>2 DEF Templates, WorkerRemembered
  <2>4. CASE FindsRejected
    <3>1. w.name \in refused
      BY <2>1, <2>4 DEF FindsRejected, Rejected, HistoryInv, Remembered
    <3> QED
      BY <1>3, <2>4, <3>1 DEF FindsRejected
  <2>5. CASE Begins
    BY <2>5 DEF Begins
  <2>6. VerdictMove
    BY <1>1, VerdictMoves
  <2> QED
    BY <2>2, <2>3, <2>4, <2>5, <2>6 DEF VerdictMove
<1> QED
  BY <1>2, <1>3, <1>5, <1>6, <1>7 DEF HistoryInv

-----------------------------------------------------------------------------
(* The steps that change the history, and those that do not.                *)

\* Every write but the signer's and the admin's denial leaves in a CSR only what
\* the history has.
LEMMA CsrRemembered ==
  ASSUME HistoryInv, [Next]_vars,
         ~\E k \in Names : SignerIssue(k) \/ SignerFail(k) \/ AdminDeny(k)
  PROVE  \A k \in Names : Remembered(k, csr'[k])
<1>1. TypeOK /\ csr \in [Names -> CsrSlot]
  BY DEF HistoryInv, VerdictInv, TypeOK, ApiTypeOK
<1>2. \A k \in Names : Remembered(k, csr[k])
  BY DEF HistoryInv
<1>3. NoCsr.cert = NoCert /\ ~NoCsr.denied /\ ~NoCsr.failed
  BY DEF NoCsr
<1>4. CASE UNCHANGED csr
  BY <1>2, <1>4
<1>5. ASSUME NEW k \in Names, NEW c, csr' = [csr EXCEPT ![k] = c],
             Remembered(k, c)
      PROVE  \A j \in Names : Remembered(j, csr'[j])
  BY <1>1, <1>2, <1>5
<1>6. ASSUME NEW k \in Names, AdminApprove(k)
      PROVE  \A j \in Names : Remembered(j, csr'[j])
  <2> DEFINE d == [csr[k] EXCEPT !.approved = "admin"]
             new == Stored(csr[k], d)
  <2>1. csr' = [csr EXCEPT ![k] = new]
    BY <1>6 DEF AdminApprove, ChangeCsr
  <2>2. d.cert = csr[k].cert /\ d.denied = csr[k].denied /\ d.failed = csr[k].failed
        /\ d \in CsrSlot
    BY <1>1 DEF CsrSlot
  <2> HIDE DEF d
  <2>3. /\ new.cert = csr[k].cert /\ new.denied = csr[k].denied
        /\ new.failed = csr[k].failed
    BY <1>1, <2>2 DEF Stored, CsrSlot
  <2>4. Remembered(k, new)
    BY <1>2, <2>3 DEF Remembered
  <2> HIDE DEF new
  <2> QED
    BY <1>5, <2>1, <2>4
<1>7. ASSUME NEW k \in Names,
             \/ CsrGone(k) \/ CollectCsr(k)
             \/ \E annotated \in BOOLEAN, owners \in SUBSET References :
                  ForeignCsr(k, annotated, owners)
      PROVE  \A j \in Names : Remembered(j, csr'[j])
  <2>1. PICK c : /\ csr' = [csr EXCEPT ![k] = c]
                 /\ \/ c = RemovedCsr(csr[k])
                    \/ \E annotated \in BOOLEAN, owners \in SUBSET References :
                         c = Created(csr[k], StrangersCsr(annotated, owners))
    BY <1>7, Zenon DEF CsrGone, CollectCsr, ForeignCsr, StrangersCsr, ChangeCsr
  <2>2. c.cert = NoCert /\ ~c.denied /\ ~c.failed
    <3>1. csr[k] \in CsrSlot
      BY <1>1 DEF TypeOK, ApiTypeOK
    <3>2. CASE c = RemovedCsr(csr[k])
      BY <3>1, <3>2, RemovedCsrFields
    <3>3. CASE c # RemovedCsr(csr[k])
      BY <2>1, <3>3 DEF StrangersCsr, Created, NoCsr
    <3> QED
      BY <3>2, <3>3
  <2>3. Remembered(k, c)
    BY <2>2 DEF Remembered
  <2> QED
    BY <1>5, <2>1, <2>3
<1>8. ASSUME NEW reply \in Reply, CreateCsr(reply)
      PROVE  \A j \in Names : Remembered(j, csr'[j])
  <2> DEFINE asked == createCsr(w.name, w.kc, w.secret.key)
             new == Created(csr[w.name], asked)
  <2>1. w.pc # "idle" /\ w.name \in Names
    BY <1>1, <1>8, Busy DEF CreateCsr
  <2>2. asked.cert = NoCert /\ ~asked.denied /\ ~asked.failed
    BY DEF createCsr, NoCsr
  <2>3. asked \in CsrSlot
    BY <1>1, <2>1, RequestTypes
  <2> HIDE DEF asked
  <2>4. new.cert = NoCert /\ ~new.denied /\ ~new.failed
    BY <2>2, <2>3 DEF Created, CsrSlot
  <2>5. csr' = csr \/ csr' = [csr EXCEPT ![w.name] = new]
    BY <1>8 DEF CreateCsr, asked
  <2>6. Remembered(w.name, new)
    BY <2>4 DEF Remembered
  <2> HIDE DEF new
  <2> QED
    BY <1>4, <1>5, <2>1, <2>5, <2>6
<1>9. ASSUME NEW reply \in Reply, ApproveCSR(reply)
      PROVE  \A j \in Names : Remembered(j, csr'[j])
  <2> DEFINE d == setStatusCondition(cw.csr)
             new == Stored(csr[cw.name], d)
  <2>1. cw.name \in Names /\ cw.csr \in CsrSlot /\ Remembered(cw.name, cw.csr)
    BY <1>1, <1>9 DEF ApproveCSR, TypeOK, CsrTypeOK, CsrWorker, HistoryInv
  <2>2. d.cert = cw.csr.cert /\ d.denied = cw.csr.denied /\ d.failed = cw.csr.failed
        /\ d \in CsrSlot
    BY <2>1 DEF setStatusCondition, CsrSlot
  <2> HIDE DEF d
  <2>3. \/ new = csr[cw.name]
        \/ /\ new.cert = d.cert /\ new.denied = d.denied /\ new.failed = d.failed
    BY <2>2 DEF Stored, CsrSlot
  <2>4. Remembered(cw.name, new)
    BY <1>2, <2>1, <2>2, <2>3 DEF Remembered
  <2>5. csr' = csr \/ csr' = [csr EXCEPT ![cw.name] = new]
    BY <1>9 DEF ApproveCSR, d
  <2> HIDE DEF new
  <2> QED
    BY <1>4, <1>5, <2>1, <2>4, <2>5
<1>10. CASE UserNext \/ Crash \/ Panic \/ UNCHANGED vars
  BY <1>4, <1>10 DEF UserNext, CreateKubeconfig, UpdateKubeconfig, DeleteKubeconfig,
                     AdmitKubeconfig, Crash, Panic, Restart, vars, stored
<1>11. CASE CsrNext
  BY <1>4, <1>9, <1>11 DEF CsrNext, GetCsrToApprove, stored
<1>12. CASE ReconcilerNext
  <2>1. UNCHANGED csr \/ \E reply \in Reply : CreateCsr(reply)
    BY <1>12
       DEF ReconcilerNext, Reads, Writes, GetKubeconfig, GetExistingSecret,
           GetUserSecret, GetCrb, GetCsrNotFound, GetCsrRejected, GetCsrPending,
           GetCsrUnsigned, GetCsrSigned, CreateUserSecret, UpdateSecretKey,
           UpdateSecretCert, CreateCrb, UpdateStatus, UpdateSecret, OnlyReads, stored
  <2> QED
    BY <1>4, <1>8, <2>1
<1>13. CASE ClusterNext
  <2>1. \/ UNCHANGED csr
        \/ \E k \in Names :
             \/ AdminApprove(k) \/ CsrGone(k) \/ CollectCsr(k)
             \/ \E annotated \in BOOLEAN, owners \in SUBSET References :
                  ForeignCsr(k, annotated, owners)
    BY <1>13 DEF ClusterNext, SyncSecret, SyncCsr, SyncCrb, Resync, SecretGone,
                 CollectSecret, ProvideSecret, ChangeSecret, SyncClusterInfo,
                 PublishClusterInfo, stored
  <2> QED
    BY <1>4, <1>6, <1>7, <2>1
<1> QED
  BY <1>10, <1>11, <1>12, <1>13 DEF Next

LEMMA HistoryStays ==
  ASSUME HistoryInv, Record, \A k \in Names : Remembered(k, csr'[k])
  PROVE  UNCHANGED <<issued, refused>>
<1>1. issued \in [Names -> SUBSET Certificate]
  BY DEF HistoryInv
<1>2. \A k \in Names : issued[k] \cup ({csr'[k].cert} \ {NoCert}) = issued[k]
  BY DEF Remembered
<1>3. issued' = [k \in Names |-> issued[k]]
  BY <1>2 DEF Record
<1> QED
  BY <1>1, <1>3 DEF Record, Remembered

-----------------------------------------------------------------------------
(* Every step is a step of Lifecycle, or none.                              *)

LEMMA LifeStays ==
  ASSUME UNCHANGED kubeconfig
  PROVE  UNCHANGED <<life, delivered>>
BY DEF life, delivered

\* The cluster's steps.
LEMMA ClusterPromise ==
  ASSUME HistoryInv, TypeOK', Record, NEW k \in Names,
         SignerIssue(k) \/ SignerFail(k) \/ AdminDeny(k)
  PROVE  Promise!Issue(k) \/ Promise!Refuse(k)
<1>1. /\ csr \in [Names -> CsrSlot] /\ issued \in [Names -> SUBSET Certificate]
      /\ \A j \in Names : Remembered(j, csr[j])
  BY DEF HistoryInv, VerdictInv, TypeOK, ApiTypeOK
<1>2. PICK d : /\ csr' = [csr EXCEPT ![k] = Stored(csr[k], d)]
               /\ \/ d = [csr[k] EXCEPT !.denied = TRUE]
                  \/ d = [csr[k] EXCEPT !.failed = TRUE]
                  \/ d = [csr[k] EXCEPT !.cert = [key |-> csr[k].key,
                                                  cn |-> csr[k].cn]]
  BY DEF SignerIssue, SignerFail, AdminDeny, ChangeCsr
<1>3. UNCHANGED <<life, delivered>>
  BY LifeStays DEF SignerIssue, SignerFail, AdminDeny, ChangeCsr
<1> DEFINE new == Stored(csr[k], d)
<1>4. csr'[k] = new /\ \A j \in Names \ {k} : csr'[j] = csr[j]
  BY <1>1, <1>2
<1>5. /\ issued' \in [Names -> SUBSET Certificate]
      /\ \A j \in Names : issued[j] \subseteq issued'[j]
  BY RecordGrows
<1>6. \A j \in Names \ {k} : issued'[j] = issued[j]
  BY <1>1, <1>4 DEF Record, Remembered
<1>7. \/ d.cert = csr[k].cert
      \/ d.denied = csr[k].denied /\ d.failed = csr[k].failed
  BY <1>1, <1>2 DEF CsrSlot
<1>8. \/ new.cert = csr[k].cert
      \/ new.denied = csr[k].denied /\ new.failed = csr[k].failed
  <2>1. [key |-> csr[k].key, cn |-> csr[k].cn] \in Certificate
    BY <1>1 DEF CsrSlot, Certificate
  <2>2. d \in CsrSlot
    BY <1>1, <1>2, <2>1 DEF CsrSlot
  <2>3. \/ new = csr[k]
        \/ new.cert = d.cert /\ new.denied = d.denied /\ new.failed = d.failed
    BY <2>2 DEF Stored, CsrSlot
  <2> QED
    BY <1>7, <2>3
<1> HIDE DEF new
<1>9. CASE new.cert = csr[k].cert
  <2>1. issued' = issued
    <3>1. issued'[k] = issued[k]
      BY <1>1, <1>4, <1>9 DEF Record, Remembered
    <3> QED
      BY <1>1, <1>5, <1>6, <3>1
  <2>2. refused' = refused \/ refused' = refused \cup {k}
    BY <1>1, <1>4 DEF Record, Remembered
  <2>3. issued' = [issued EXCEPT ![k] = issued'[k]]
    BY <1>1, <2>1
  <2> QED
    BY <1>3, <1>5, <2>1, <2>2, <2>3 DEF Promise!Refuse, Promise!Issue
<1>10. CASE new.denied = csr[k].denied /\ new.failed = csr[k].failed
  <2>1. refused' = refused
    BY <1>1, <1>4, <1>10 DEF Record, Remembered
  <2>2. issued' = [issued EXCEPT ![k] = issued'[k]]
    BY <1>1, <1>5, <1>6
  <2> QED
    BY <1>3, <1>5, <2>1, <2>2 DEF Promise!Issue
<1> QED
  BY <1>8, <1>9, <1>10

\* The user's steps and the operator's verdicts.
LEMMA KubeconfigPromise ==
  ASSUME HistoryInv, UNCHANGED <<issued, refused>>, NEW k \in Names,
         KubeconfigMove(k)
  PROVE  \/ Promise!Ask(k) \/ Promise!Withdraw(k)
         \/ Promise!Deliver(k) \/ Promise!Reject(k)
         \/ UNCHANGED <<life, delivered>>
<1> DEFINE old == kubeconfig[k]
           new == kubeconfig'[k]
<1>1. /\ life' = [life EXCEPT ![k] = LifeOf(new)]
      /\ delivered' = [delivered EXCEPT ![k] = DeliveredTo(new)]
  BY DEF life, delivered, KubeconfigMove
<1>2. life[k] = LifeOf(old) /\ delivered[k] = DeliveredTo(old)
  BY DEF life, delivered
<1>3. CASE LifeOf(new) = LifeOf(old) /\ DeliveredTo(new) = DeliveredTo(old)
  BY <1>1, <1>2, <1>3 DEF life, delivered
<1>4. CASE ~new.exists
  <2>1. LifeOf(new) = "absent" /\ DeliveredTo(new) = NoCert
    BY <1>4 DEF LifeOf, DeliveredTo
  <2>2. CASE old.exists
    <3>1. life[k] # "absent"
      BY <1>2, <2>2 DEF LifeOf
    <3> QED
      BY <1>1, <2>1, <3>1 DEF Promise!Withdraw
  <2>3. CASE ~old.exists
    <3>1. LifeOf(old) = "absent" /\ DeliveredTo(old) = NoCert
      BY <2>3 DEF LifeOf, DeliveredTo
    <3> QED
      BY <1>3, <2>1, <3>1
  <2> QED
    BY <2>2, <2>3
<1>5. CASE ~old.exists /\ new.exists /\ new.status = NoStatus
  <2>1. NoStatus.KubeconfigFinished = "Absent"
    BY DEF NoStatus
  <2>2. LifeOf(new) = "open" /\ DeliveredTo(new) = NoCert
    BY <1>5, <2>1 DEF LifeOf, DeliveredTo
  <2>3. life[k] = "absent" /\ delivered[k] = NoCert
    BY <1>2, <1>5 DEF LifeOf, DeliveredTo
  <2>4. delivered' = delivered
    BY <1>1, <2>2, <2>3 DEF delivered
  <2> QED
    BY <1>1, <2>2, <2>3, <2>4 DEF Promise!Ask
<1>6. CASE old.exists /\ new.exists /\ new.status = old.status
  BY <1>3, <1>6 DEF LifeOf, DeliveredTo
<1>7. CASE VerdictWritten(k)
  <2>1. /\ w.pc # "idle" /\ w.name = k /\ w.kc.status \in KubeconfigStatus
        /\ old.exists /\ ~isInTerminalCondition(old)
        /\ new.exists /\ new.status = Persisted(w.kc.status)
    BY <1>7, Busy DEF VerdictWritten, HistoryInv, VerdictInv
  <2>2. /\ new.status.kubeconfig = w.kc.status.kubeconfig
        /\ new.status.KubeconfigFinished = w.kc.status.KubeconfigFinished
    BY <2>1, PersistedFields
  <2>3. life[k] = "open" /\ delivered[k] = NoCert
    BY <1>2, <2>1 DEF LifeOf, DeliveredTo, isInTerminalCondition
  <2>4. CASE w.kc.status.KubeconfigFinished = "True"
    <3>1. LifeOf(new) = "delivered"
          /\ DeliveredTo(new) = w.kc.status.kubeconfig.cert
      BY <2>1, <2>2, <2>4 DEF LifeOf, DeliveredTo
    <3>2. DeliveredTo(new) \in issued[k]
      BY <2>1, <2>4, <3>1 DEF HistoryInv, WorkerRemembered, Delivers
    <3> QED
      BY <1>1, <2>3, <3>1, <3>2 DEF Promise!Deliver
  <2>5. CASE w.kc.status.KubeconfigFinished = "False"
    <3>1. LifeOf(new) = "rejected" /\ DeliveredTo(new) = NoCert
      BY <2>1, <2>2, <2>5 DEF LifeOf, DeliveredTo
    <3>2. k \in refused
      BY <2>1, <2>5 DEF HistoryInv, WorkerRemembered, Rejects
    <3>3. delivered' = delivered
      BY <1>1, <2>3, <3>1 DEF delivered
    <3> QED
      BY <1>1, <2>3, <3>1, <3>2, <3>3 DEF Promise!Reject
  <2>6. CASE w.kc.status.KubeconfigFinished \notin {"True", "False"}
    <3>1. LifeOf(new) = "open" /\ DeliveredTo(new) = NoCert
      BY <2>1, <2>2, <2>6 DEF LifeOf, DeliveredTo
    <3> QED
      BY <1>2, <1>3, <2>3, <3>1
  <2> QED
    BY <2>4, <2>5, <2>6
<1> QED
  BY <1>4, <1>5, <1>6, <1>7 DEF KubeconfigMove, VerdictKept

LEMMA PromiseStep ==
  ASSUME HistoryInv, [Next /\ Record]_<<vars, history>>
  PROVE  [Promise!Next]_Promise!lifecycleVars
<1>1. CASE UNCHANGED <<vars, history>>
  BY <1>1, LifeStays DEF vars, stored, history, Promise!lifecycleVars
<1>2. CASE Next /\ Record
  <2>1. VerdictInv /\ TypeOK'
    BY <1>2, VerdictStep DEF HistoryInv, VerdictInv
  <2>2. CASE \E k \in Names : SignerIssue(k) \/ SignerFail(k) \/ AdminDeny(k)
    BY <1>2, <2>1, <2>2, ClusterPromise DEF Promise!Next
  <2>3. CASE ~\E k \in Names : SignerIssue(k) \/ SignerFail(k) \/ AdminDeny(k)
    <3>1. UNCHANGED <<issued, refused>>
      BY <1>2, <2>3, CsrRemembered, HistoryStays
    <3>2. UNCHANGED kubeconfig \/ \E k \in Names : KubeconfigMove(k)
      BY <1>2, <2>1, KubeconfigMoves
    <3> QED
      BY <3>1, <3>2, LifeStays, KubeconfigPromise
         DEF Promise!Next, Promise!lifecycleVars
  <2> QED
    BY <2>2, <2>3
<1> QED
  BY <1>1, <1>2

LEMMA PromiseInit == HistoryInit => Promise!Init
<1> SUFFICES ASSUME HistoryInit PROVE Promise!Init
  OBVIOUS
<1>1. \A k \in Names : kubeconfig[k] = NoKubeconfig
  BY DEF HistoryInit, Init, ApiInit
<1>2. LifeOf(NoKubeconfig) = "absent" /\ DeliveredTo(NoKubeconfig) = NoCert
  BY DEF LifeOf, DeliveredTo, NoKubeconfig
<1> QED
  BY <1>1, <1>2 DEF HistoryInit, Promise!Init, life, delivered

\* The operator implements Lifecycle: a Kubeconfig is delivered or rejected once and
\* then left alone, delivered only with a certificate the signer issued for a CSR of
\* its name, rejected only if a CSR of its name was denied or failed, whatever
\* caches lag, copies are overtaken, calls fail and processes crash.
THEOREM PromiseKept == HistorySpec => KeepsPromise
<1>1. HistoryInit => HistoryInv /\ Promise!Init
  BY HistoryStart, PromiseInit
<1>2. HistoryInv /\ [Next /\ Record]_<<vars, history>> => HistoryInv'
  <2>1. CASE UNCHANGED <<vars, history>>
    <3>1. ASSUME HistoryInv, UNCHANGED <<vars, history>>
          PROVE  HistoryInv'
      <4>1. VerdictInv'
        BY <3>1, VerdictStep DEF HistoryInv, vars
      <4> QED
        BY <3>1, <4>1 DEF HistoryInv, Remembered, WorkerRemembered, Delivers, Rejects,
                          vars, stored, caches, workers, history
    <3> QED
      BY <2>1, <3>1
  <2>2. CASE Next /\ Record
    BY <2>2, HistoryStep
  <2> QED
    BY <2>1, <2>2
<1>3. HistoryInv /\ [Next /\ Record]_<<vars, history>>
        => [Promise!Next]_Promise!lifecycleVars
  BY PromiseStep
<1> QED
  BY <1>1, <1>2, <1>3, PTL DEF HistorySpec, KeepsPromise, Promise!Spec
=============================================================================
