----------------------------- MODULE VerdictProofs -----------------------------
(***************************************************************************)
(* A verdict is final: proof of TerminalIsFinal for any value of the       *)
(* constants.                                                              *)
(*                                                                         *)
(* The danger is a status update made from an old copy.  The invariant     *)
(* FreshCopy says that a worker's copy is either of a version the server   *)
(* no longer has, and then its update is refused, or of one without a      *)
(* verdict, and it is the one the copy was read from.  The latter makes    *)
(* every verdict that of the Kubeconfig it is written to, VerdictIsItsOwn. *)
(***************************************************************************)
EXTENDS OperatorProofs

\* The copy of the Kubeconfig a worker carries is not ahead of the stored one,
\* and if it is of the stored version, that one is the same Kubeconfig, has no
\* verdict yet and has the same spec.
FreshCopy ==
  w.pc # "idle" =>
    LET slot == kubeconfig[w.name]
    IN /\ w.kc.rv <= slot.rv
       /\ Current(w.kc, slot) => /\ ~isInTerminalCondition(slot)
                                 /\ w.kc.uid = slot.uid
                                 /\ w.kc.spec = slot.spec

VerdictInv == TypeOK /\ FreshCopy

\* A verdict in the code's words and in the property's.
LEMMA TerminalIsCondition ==
  ASSUME NEW k \in Names
  PROVE  Terminal(k) <=> kubeconfig[k].exists /\ isInTerminalCondition(kubeconfig[k])
BY DEF Terminal, Finished, isInTerminalCondition

-----------------------------------------------------------------------------
(* What a step does to a Kubeconfig and to the worker's copy of it.         *)

\* The worker stays with its copy, of which it changes only the status, or rests.
SameCopy == w'.pc # "idle" => /\ w.pc # "idle"
                              /\ w'.name = w.name
                              /\ w'.kc.rv = w.kc.rv
                              /\ w'.kc.uid = w.kc.uid
                              /\ w'.kc.spec = w.kc.spec

\* Every Kubeconfig stays as it is or gets a higher version.
Advances == \A k \in Names : \/ kubeconfig'[k] = kubeconfig[k]
                             \/ kubeconfig'[k].rv > kubeconfig[k].rv

\* A verdict stays until the Kubeconfig is deleted.
VerdictsStay ==
  \A k \in Names : Terminal(k) =>
    ~kubeconfig'[k].exists \/ kubeconfig'[k].status = kubeconfig[k].status

LEMMA FreshStep ==
  ASSUME VerdictInv, TypeOK', SameCopy, Advances
  PROVE  FreshCopy'
<1> SUFFICES ASSUME w'.pc # "idle"
             PROVE  LET slot == kubeconfig'[w'.name]
                    IN /\ w'.kc.rv <= slot.rv
                       /\ Current(w'.kc, slot) => /\ ~isInTerminalCondition(slot)
                                                  /\ w'.kc.uid = slot.uid
                                                  /\ w'.kc.spec = slot.spec
  BY DEF FreshCopy, Current, isInTerminalCondition
<1>1. /\ w.pc # "idle" /\ w'.name = w.name /\ w'.kc.rv = w.kc.rv
      /\ w'.kc.uid = w.kc.uid /\ w'.kc.spec = w.kc.spec
      /\ w.name \in Names /\ w.kc.rv \in Nat
  BY Busy DEF SameCopy, VerdictInv
<1>2. kubeconfig[w.name].rv \in Nat /\ kubeconfig'[w.name].rv \in Nat
  BY <1>1 DEF VerdictInv, TypeOK, ApiTypeOK, KubeconfigSlot
<1>3. /\ w.kc.rv <= kubeconfig[w.name].rv
      /\ Current(w.kc, kubeconfig[w.name]) =>
           /\ ~isInTerminalCondition(kubeconfig[w.name])
           /\ w.kc.uid = kubeconfig[w.name].uid
           /\ w.kc.spec = kubeconfig[w.name].spec
  BY <1>1 DEF VerdictInv, FreshCopy
<1>4. CASE kubeconfig'[w.name] = kubeconfig[w.name]
  BY <1>1, <1>3, <1>4 DEF Current
<1>5. CASE kubeconfig'[w.name].rv > kubeconfig[w.name].rv
  BY <1>1, <1>2, <1>3, <1>5 DEF Current
<1> QED
  BY <1>1, <1>4, <1>5 DEF Advances

LEMMA UnchangedAdvances ==
  ASSUME UNCHANGED kubeconfig
  PROVE  Advances /\ VerdictsStay
BY DEF Advances, VerdictsStay

\* Writing a Kubeconfig slot, in each of the three ways.
LEMMA WritesAdvance ==
  ASSUME NEW slot \in KubeconfigSlot, NEW new \in KubeconfigSlot
  PROVE  /\ Created(slot, new).rv > slot.rv
         /\ Removed(slot, new).rv > slot.rv /\ Removed(slot, new).exists = new.exists
         /\ Stored(slot, new) = slot \/ Stored(slot, new).rv > slot.rv
         /\ new.status = slot.status => Stored(slot, new).status = slot.status
<1>1. slot.rv \in Nat /\ slot.rv + 1 > slot.rv
  BY DEF KubeconfigSlot
<1>2. Created(slot, new).rv = slot.rv + 1
  BY Zenon DEF Created, KubeconfigSlot
<1>3. /\ [new EXCEPT !.rv = slot.rv + 1].rv = slot.rv + 1
      /\ [new EXCEPT !.rv = slot.rv + 1].exists = new.exists
      /\ [new EXCEPT !.rv = slot.rv + 1].status = new.status
  BY DEF KubeconfigSlot
<1> QED
  BY <1>1, <1>2, <1>3 DEF Removed, Stored

\* One Kubeconfig is written.
LEMMA OneWrite ==
  ASSUME TypeOK, NEW k \in Names, NEW new,
         kubeconfig' = [kubeconfig EXCEPT ![k] = new],
         new = kubeconfig[k] \/ new.rv > kubeconfig[k].rv,
         Terminal(k) => ~new.exists \/ new.status = kubeconfig[k].status
  PROVE  Advances /\ VerdictsStay
BY DEF TypeOK, ApiTypeOK, Advances, VerdictsStay

LEMMA UserKeepsVerdicts ==
  ASSUME VerdictInv, UserNext
  PROVE  SameCopy /\ Advances /\ VerdictsStay
<1>1. SameCopy
  BY DEF UserNext, CreateKubeconfig, UpdateKubeconfig, DeleteKubeconfig,
         AdmitKubeconfig, SameCopy, workers
<1>2. TypeOK /\ kubeconfig \in [Names -> KubeconfigSlot]
  BY DEF VerdictInv, TypeOK, ApiTypeOK
<1>3. ASSUME NEW k \in Names, NEW spec \in Requests, NEW lookup \in Lookup,
             CreateKubeconfig(k, spec, lookup)
      PROVE  Advances /\ VerdictsStay
  <2> DEFINE asked == [NoKubeconfig EXCEPT !.spec = spec,
                                           !.uid = kubeconfig[k].rv + 1]
             kept == KeepStatus(Default(asked, Found(lookup)), NoKubeconfig)
  <2>1. kept \in KubeconfigSlot
    <3>1. spec \in KubeconfigSpec /\ kubeconfig[k].rv + 1 \in Nat
      BY <1>2, ConstantsAssumption DEF KubeconfigSlot
    <3>2. asked \in KubeconfigSlot /\ asked.spec \in KubeconfigSpec
      BY <3>1, BlankTypes, Zenon DEF KubeconfigSlot
    <3>3. NoKubeconfig.status \in KubeconfigStatus
      BY BlankTypes DEF KubeconfigSlot
    <3> QED
      BY <1>2, <3>2, <3>3, FoundTypes, DefaultTypes
  <2> HIDE DEF kept
  <2>2. /\ ~kubeconfig[k].exists
        /\ kubeconfig' = [kubeconfig EXCEPT ![k] = Created(kubeconfig[k], kept)]
    BY <1>3 DEF CreateKubeconfig, AdmitKubeconfig, kept
  <2>3. ~Terminal(k)
    BY <2>2, TerminalIsCondition
  <2> QED
    BY <1>2, <2>1, <2>2, <2>3, WritesAdvance, OneWrite
<1>4. ASSUME NEW k \in Names, NEW spec \in Requests, NEW lookup \in Lookup,
             UpdateKubeconfig(k, spec, lookup)
      PROVE  Advances /\ VerdictsStay
  <2> DEFINE old == kubeconfig[k]
             asked == [old EXCEPT !.spec = spec]
             kept == KeepStatus(Default(asked, Found(lookup)), old)
  <2>1. kept \in KubeconfigSlot
    <3>1. spec \in KubeconfigSpec
      BY ConstantsAssumption
    <3>2. asked \in KubeconfigSlot /\ asked.spec \in KubeconfigSpec
      BY <1>2, <3>1, Zenon DEF KubeconfigSlot
    <3>3. old.status \in KubeconfigStatus
      BY <1>2 DEF KubeconfigSlot
    <3> QED
      BY <1>2, <3>2, <3>3, FoundTypes, DefaultTypes
  <2>2. kept.status = old.status
    BY <2>1 DEF KeepStatus, KubeconfigSlot
  <2> HIDE DEF kept
  <2>3. kubeconfig' = [kubeconfig EXCEPT ![k] = Stored(old, kept)]
    BY <1>4 DEF UpdateKubeconfig, AdmitKubeconfig, kept
  <2> QED
    BY <1>2, <2>1, <2>2, <2>3, WritesAdvance, OneWrite
<1>5. ASSUME NEW k \in Names, DeleteKubeconfig(k)
      PROVE  Advances /\ VerdictsStay
  <2> DEFINE gone == Removed(kubeconfig[k], NoKubeconfig)
  <2>1. kubeconfig' = [kubeconfig EXCEPT ![k] = gone]
    BY <1>5 DEF DeleteKubeconfig, AdmitKubeconfig
  <2>2. gone.rv > kubeconfig[k].rv /\ ~gone.exists
    BY <1>2, BlankTypes, WritesAdvance DEF NoKubeconfig
  <2> HIDE DEF gone
  <2> QED
    BY <1>2, <2>1, <2>2, OneWrite
<1> QED
  BY <1>1, <1>3, <1>4, <1>5 DEF UserNext

\* The update of the status: refused if the copy is old, and if it is not, the
\* Kubeconfig has no verdict that could be overwritten.
LEMMA UpdateStatusKeepsVerdicts ==
  ASSUME VerdictInv, NEW reply \in Reply, UpdateStatus(reply)
  PROVE  SameCopy /\ Advances /\ VerdictsStay
<1> DEFINE k == w.name
           old == kubeconfig[k]
           updated == [old EXCEPT !.status = Persisted(w.kc.status)]
           new == IF reply # "error" /\ Current(w.kc, old)
                  THEN Stored(old, updated) ELSE old
<1>1. TypeOK /\ w.pc # "idle" /\ k \in Names /\ w.kc.status \in KubeconfigStatus
  BY Busy DEF UpdateStatus, VerdictInv
<1>2. old \in KubeconfigSlot
  BY <1>1 DEF TypeOK, ApiTypeOK
<1>3. updated \in KubeconfigSlot
  <2>1. [w.kc.status EXCEPT !.phase = "Unknown"] \in KubeconfigStatus
    BY <1>1, Zenon DEF KubeconfigStatus, Phase
  <2>2. Persisted(w.kc.status) \in KubeconfigStatus
    BY <1>1, <2>1 DEF Persisted
  <2> QED
    BY <1>2, <2>2 DEF KubeconfigSlot
<1> HIDE DEF updated
<1>4. new = old \/ new.rv > old.rv
  BY <1>2, <1>3, WritesAdvance
<1>5. Terminal(k) => new = old
  <2>1. Current(w.kc, old) => ~isInTerminalCondition(old)
    BY <1>1 DEF VerdictInv, FreshCopy
  <2> QED
    BY <1>1, <2>1, TerminalIsCondition
<1>6. kubeconfig' = [kubeconfig EXCEPT ![k] = new] /\ w' = Idle
  BY DEF UpdateStatus, updated
<1> HIDE DEF new
<1>7. SameCopy
  BY <1>6 DEF SameCopy, Idle
<1> QED
  BY <1>1, <1>4, <1>5, <1>6, <1>7, OneWrite

\* Every other step of the reconcile leaves the Kubeconfigs alone.
LEMMA MovesKeepCopy ==
  ASSUME TypeOK, w.pc # "idle",
         \/ \E requeue : Return(requeue)
         \/ \E pc, s, status : GoOn(pc, s, status)
         \/ \E status, requeue : EndWith(status, requeue)
  PROVE  SameCopy
<1>1. w \in Worker /\ w.kc \in KubeconfigSlot
  BY Busy DEF TypeOK, ReconcilerTypeOK
<1>2. CASE \E requeue : Return(requeue)
  BY <1>2 DEF Return, SameCopy, Idle
<1>3. CASE \E pc, s, status : GoOn(pc, s, status)
  <2>1. PICK pc, s, status : w' = [w EXCEPT !.pc = pc, !.secret = s,
                                            !.kc.status = status]
    BY <1>3 DEF GoOn
  <2>2. /\ w'.name = w.name /\ w'.kc.rv = w.kc.rv
        /\ w'.kc.uid = w.kc.uid /\ w'.kc.spec = w.kc.spec
    BY <1>1, <2>1, Zenon DEF Worker, KubeconfigSlot
  <2> QED
    BY <2>2 DEF SameCopy
<1>4. CASE \E status, requeue : EndWith(status, requeue)
  <2>1. PICK status, requeue :
          w' = [w EXCEPT !.pc = "updateStatus", !.secret = NoSecret,
                         !.kc.status = status, !.requeue = requeue]
    BY <1>4 DEF EndWith
  <2>2. /\ w'.name = w.name /\ w'.kc.rv = w.kc.rv
        /\ w'.kc.uid = w.kc.uid /\ w'.kc.spec = w.kc.spec
    BY <1>1, <2>1, Zenon DEF Worker, KubeconfigSlot
  <2> QED
    BY <2>2 DEF SameCopy
<1> QED
  BY <1>2, <1>3, <1>4

LEMMA ReconcilerKeepsVerdicts ==
  ASSUME VerdictInv, \/ Reads
                     \/ \E reply \in Reply : Writes(reply)
  PROVE  SameCopy /\ Advances /\ VerdictsStay
<1>1. TypeOK
  BY DEF VerdictInv
<1>2. CASE Reads
  <2>1. w.pc # "idle" /\ UNCHANGED kubeconfig
    BY <1>2 DEF Reads, OnlyReads, stored, GetExistingSecret, GetUserSecret, GetCrb,
                GetCsrNotFound, GetCsrRejected, GetCsrPending, GetCsrUnsigned,
                GetCsrSigned
  <2>2. \/ \E requeue : Return(requeue)
        \/ \E pc, s, status : GoOn(pc, s, status)
        \/ \E status, requeue : EndWith(status, requeue)
    BY <1>2, Zenon
       DEF Reads, GetExistingSecret, GetUserSecret, GetCrb, Complete,
           GetCsrNotFound, GetCsrRejected, GetCsrPending, GetCsrUnsigned,
           GetCsrSigned
  <2> QED
    BY <1>1, <2>1, <2>2, MovesKeepCopy, UnchangedAdvances
<1>3. ASSUME NEW reply \in Reply,
             \/ CreateUserSecret(reply) \/ UpdateSecretKey(reply)
             \/ CreateCsr(reply) \/ UpdateSecretCert(reply) \/ CreateCrb(reply)
      PROVE  SameCopy /\ Advances /\ VerdictsStay
  <2>1. w.pc # "idle" /\ UNCHANGED kubeconfig
    BY <1>3 DEF CreateUserSecret, UpdateSecretKey, CreateCsr, UpdateSecretCert,
                CreateCrb, UpdateSecret
  <2>2. \/ \E requeue : Return(requeue)
        \/ \E pc, s, status : GoOn(pc, s, status)
        \/ \E status, requeue : EndWith(status, requeue)
    BY <1>3, Zenon DEF CreateUserSecret, UpdateSecretKey, CreateCsr,
                       UpdateSecretCert, CreateCrb, Complete
  <2> QED
    BY <1>1, <2>1, <2>2, MovesKeepCopy, UnchangedAdvances
<1> QED
  BY <1>2, <1>3, UpdateStatusKeepsVerdicts DEF Writes

\* A reconcile that begins takes a copy without a verdict.
LEMMA GetKubeconfigIsFresh ==
  ASSUME VerdictInv, NEW k \in Names, GetKubeconfig(k)
  PROVE  FreshCopy' /\ VerdictsStay
<1>1. UNCHANGED kubeconfig /\ w.pc = "idle"
  BY DEF GetKubeconfig, OnlyReads, stored
<1>2. VerdictsStay
  BY <1>1, UnchangedAdvances
<1>3. CASE UNCHANGED w
  BY <1>1, <1>2, <1>3 DEF FreshCopy, Current, isInTerminalCondition
<1>4. CASE /\ kubeconfig[k].exists /\ ~isInTerminalCondition(kubeconfig[k])
           /\ w' = [Idle EXCEPT !.pc = "getSecret", !.name = k, !.kc = kubeconfig[k]]
  <2>1. w' = [pc |-> "getSecret", name |-> k, kc |-> kubeconfig[k],
              secret |-> NoSecret, requeue |-> FALSE]
    BY <1>4 DEF Idle
  <2>2. kubeconfig[k].rv \in Nat
    BY DEF VerdictInv, TypeOK, ApiTypeOK, KubeconfigSlot
  <2> QED
    BY <1>1, <1>2, <1>4, <2>1, <2>2 DEF FreshCopy, isInTerminalCondition
<1> QED
  BY <1>2, <1>3, <1>4 DEF GetKubeconfig

\* Nobody else writes Kubeconfigs, and a new process has no copy.
LEMMA OthersKeepVerdicts ==
  ASSUME VerdictInv, ClusterNext \/ CsrNext \/ Crash \/ Panic \/ UNCHANGED vars
  PROVE  SameCopy /\ Advances /\ VerdictsStay
<1>1. UNCHANGED kubeconfig /\ (UNCHANGED w \/ w' = Idle)
  <2>1. CASE ClusterNext
    BY <2>1 DEF ClusterNext, SyncSecret, SyncCsr, SyncCrb, Resync, AdminApprove,
                AdminDeny, SignerIssue, SignerFail, CsrGone, CollectCsr, ForeignCsr,
                SecretGone, CollectSecret, ProvideSecret, ChangeCsr, ChangeSecret,
                SyncClusterInfo, PublishClusterInfo, stored, workers
  <2>2. CASE CsrNext
    BY <2>2 DEF CsrNext, GetCsrToApprove, ApproveCSR, stored
  <2>3. CASE Crash \/ Panic
    BY <2>3 DEF Crash, Panic, Restart, stored
  <2>4. CASE UNCHANGED vars
    BY <2>4 DEF vars, stored, workers
  <2> QED
    BY <2>1, <2>2, <2>3, <2>4
<1>2. SameCopy
  BY <1>1 DEF SameCopy, Idle
<1> QED
  BY <1>1, <1>2, UnchangedAdvances

LEMMA VerdictStep ==
  ASSUME VerdictInv, [Next]_vars
  PROVE  VerdictInv' /\ VerdictsStay
<1>1. TypeOK'
  BY TypeStep DEF VerdictInv
<1>2. CASE \E k \in Names : GetKubeconfig(k)
  BY <1>1, <1>2, GetKubeconfigIsFresh DEF VerdictInv
<1>3. CASE SameCopy /\ Advances /\ VerdictsStay
  BY <1>1, <1>3, FreshStep DEF VerdictInv
<1> QED
  BY <1>2, <1>3, UserKeepsVerdicts, ReconcilerKeepsVerdicts, OthersKeepVerdicts
     DEF Next, ReconcilerNext

\* Once a reconcile has ended a Kubeconfig (KubeconfigFinished is True or False),
\* nothing changes its status until it is deleted: neither the update of a copy
\* read before, nor an edit that passes the webhook, nor a restarted manager.
THEOREM VerdictIsFinal == Spec => TerminalIsFinal
<1>1. Init => VerdictInv
  BY TypeInit DEF VerdictInv, FreshCopy, Init, Idle
<1>2. VerdictInv /\ [Next]_vars => VerdictInv'
  BY VerdictStep
<1>3. VerdictInv /\ [Next]_vars => [VerdictsStay]_vars
  BY VerdictStep
<1>4. Spec => [][VerdictsStay]_vars
  BY <1>1, <1>2, <1>3, PTL DEF Spec
<1> QED
  BY <1>4 DEF TerminalIsFinal, VerdictsStay
=============================================================================
