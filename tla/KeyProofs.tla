------------------------------ MODULE KeyProofs ------------------------------
(***************************************************************************)
(* What a verdict rests on: proofs of VerdictFollowsCsr, DoneMeansDelivered, *)
(* CsrKeyStored and KeyPairKept for any value of the constants.            *)
(*                                                                         *)
(* Each is about a run in which certain events have not happened.  The     *)
(* invariant has a part for each such set of events, and a part about the  *)
(* copies in the caches and in the workers that holds always.              *)
(***************************************************************************)
EXTENDS SubjectProofs

-----------------------------------------------------------------------------
(* The steps of a reconcile, with what each has seen.                       *)

\* The worker goes from one of these places to another, with this secret.
Carries(from, pc, s) ==
  /\ w.pc \in from /\ w'.pc = pc /\ w'.secret = s
  /\ w'.name = w.name /\ w'.kc.spec = w.kc.spec /\ w'.kc.uid = w.kc.uid

SameFile ==
  /\ w'.kc.status.kubeconfig = w.kc.status.kubeconfig
  /\ w'.kc.status.KubeconfigFinished = w.kc.status.KubeconfigFinished

TakesUp(k) ==
  /\ w.pc = "idle"
  /\ kubeconfig[k].exists /\ ~isInTerminalCondition(kubeconfig[k])
  /\ w' = [pc |-> "getSecret", name |-> k, kc |-> kubeconfig[k],
           secret |-> NoSecret, requeue |-> FALSE]

FindsNoSecret ==
  /\ Carries({"getSecret"}, "createSecret", NoSecret) /\ SameFile
  /\ w.kc.spec.existingCSR = None

FindsSecret ==
  \E s : /\ Carries({"getSecret"}, "getCsr", s) /\ SameFile
         /\ \/ s = NoSecret
            \/ s = secretCache[userSecretName]
            \/ s = SetControllerReference(secretCache[userSecretName],
                                          w.name, w.kc.uid)

MakesSecret ==
  LET new == Created(secret[w.name], createUserSecret(w.name, w.kc)) IN
  /\ Carries({"createSecret"}, "getCsr", new) /\ SameFile
  /\ ~secret[w.name].exists
  /\ secret' = [secret EXCEPT ![w.name] = new]

MakesKey ==
  /\ Carries({"getCsr"}, "updateKey", [w.secret EXCEPT !.key = lastKey + 1])
  /\ SameFile
  /\ w.secret.data /\ ~csrCache[w.name].exists
  /\ csr[w.name].exists => used'["stale"] # 0

\* The update of the secret succeeds.
Stores ==
  /\ Current(w.secret, secret[userSecretName])
  /\ secret' = [secret EXCEPT ![userSecretName] =
                                Stored(secret[userSecretName], w.secret)]

StoresKey == Carries({"updateKey"}, "createCsr", w.secret) /\ SameFile /\ Stores

EndsWithout ==
  /\ Carries({"createSecret", "getCsr", "createCsr"}, "updateStatus", NoSecret)
  /\ w'.kc.status.KubeconfigFinished = "True"
       => w.kc.status.KubeconfigFinished = "True"

Signed == [w.secret EXCEPT !.cert = csrCache[w.name].cert]

Signs ==
  LET file == createKubeconfig(w.kc, Signed) IN
  /\ Carries({"getCsr"}, "updateCert", [Signed EXCEPT !.kubeconfig = file])
  /\ w'.kc.status.kubeconfig = file
  /\ w'.kc.status.KubeconfigFinished = w.kc.status.KubeconfigFinished
  /\ w.secret.data
  /\ csrCache[w.name].exists /\ csrCache[w.name].cert # NoCert

StoresCert == Carries({"updateCert"}, "getCrb", NoSecret) /\ SameFile /\ Stores

MissesCrb == Carries({"getCrb"}, "createCrb", NoSecret) /\ SameFile

Completes ==
  /\ Carries({"getCrb", "createCrb"}, "updateStatus", NoSecret)
  /\ w'.kc.status.kubeconfig = w.kc.status.kubeconfig
  /\ w'.kc.status.KubeconfigFinished = "True"
  /\ LET u == w.kc.spec.username IN crbCache[u].exists \/ crb'[u].exists

WorkerStep ==
  \/ UNCHANGED w \/ w' = Idle \/ \E k \in Names : TakesUp(k)
  \/ FindsNoSecret \/ FindsSecret \/ MakesSecret
  \/ MakesKey \/ StoresKey \/ EndsWithout
  \/ Signs \/ StoresCert \/ MissesCrb \/ Completes

LEMMA GoOnCarries ==
  ASSUME TypeOK, w.pc # "idle", NEW pc, NEW s, NEW status \in KubeconfigStatus,
         GoOn(pc, s, status)
  PROVE  Carries({w.pc}, pc, s) /\ w'.kc.status = status
<1>1. w \in Worker /\ w.kc \in KubeconfigSlot
  BY Busy DEF TypeOK, ReconcilerTypeOK
<1> QED
  BY <1>1, Zenon DEF GoOn, Worker, KubeconfigSlot, Carries

LEMMA EndWithCarries ==
  ASSUME TypeOK, w.pc # "idle", NEW status \in KubeconfigStatus, NEW requeue,
         EndWith(status, requeue)
  PROVE  Carries({w.pc}, "updateStatus", NoSecret) /\ w'.kc.status = status
<1>1. w \in Worker /\ w.kc \in KubeconfigSlot
  BY Busy DEF TypeOK, ReconcilerTypeOK
<1> QED
  BY <1>1, Zenon DEF EndWith, Worker, KubeconfigSlot, Carries

LEMMA GoesOnSame ==
  ASSUME TypeOK, w.pc # "idle", NEW status, Quietly(status), NEW pc, NEW s,
         GoOn(pc, s, status)
  PROVE  Carries({w.pc}, pc, s) /\ SameFile
BY GoOnCarries DEF Quietly, SameFile

LEMMA EndsSame ==
  ASSUME TypeOK, w.pc # "idle", NEW status, Quietly(status), NEW requeue,
         EndWith(status, requeue)
  PROVE  Carries({w.pc}, "updateStatus", NoSecret) /\ SameFile
BY EndWithCarries DEF Quietly, SameFile

LEMMA SecretReads ==
  ASSUME TypeOK, GetExistingSecret \/ GetUserSecret
  PROVE  WorkerStep
<1>1. w.pc = "getSecret"
  BY DEF GetExistingSecret, GetUserSecret
<1> DEFINE found == [w.kc.status EXCEPT !.userSecret = TRUE]
           lost == [w.kc.status EXCEPT !.userSecret = FALSE]
           read == secretCache[userSecretName]
           owned == SetControllerReference(read, w.name, w.kc.uid)
<1>2. Quietly(found) /\ Quietly(lost) /\ Quietly(w.kc.status)
  BY <1>1, QuietStatus
<1>3. \/ \E requeue : Return(requeue)
      \/ GoOn("createSecret", NoSecret, w.kc.status) /\ w.kc.spec.existingCSR = None
      \/ \E status \in {found, lost, w.kc.status} : \E s \in {NoSecret, read, owned} :
            GoOn("getCsr", s, status)
  BY DEF GetExistingSecret, GetUserSecret, userSecretName
<1> HIDE DEF found, lost, read, owned
<1>4. CASE GoOn("createSecret", NoSecret, w.kc.status) /\ w.kc.spec.existingCSR = None
  BY <1>1, <1>2, <1>4, GoesOnSame DEF WorkerStep, FindsNoSecret
<1>5. ASSUME NEW status \in {found, lost, w.kc.status},
             NEW s \in {NoSecret, read, owned},
             GoOn("getCsr", s, status)
      PROVE  WorkerStep
  BY <1>1, <1>2, <1>5, GoesOnSame DEF WorkerStep, FindsSecret, read, owned
<1> QED
  BY <1>3, <1>4, <1>5 DEF Return, WorkerStep

LEMMA CsrReads ==
  ASSUME TypeOK, \/ GetCsrNotFound \/ GetCsrRejected \/ GetCsrPending
                 \/ GetCsrUnsigned
  PROVE  WorkerStep
<1>1. w.pc = "getCsr"
  BY DEF GetCsrNotFound, GetCsrRejected, GetCsrPending, GetCsrUnsigned
<1>2. CASE GetCsrNotFound
  <2> DEFINE missed == IF csr[w.name].exists THEN {"stale"} ELSE {}
             keyed == [w.secret EXCEPT !.key = createCSR]
  <2>1. \/ Return(FALSE)
        \/ /\ w.secret.data /\ Spend(missed) /\ ~csrCache[w.name].exists
           /\ GoOn("updateKey", keyed, w.kc.status)
    BY <1>2 DEF GetCsrNotFound
  <2>2. CASE /\ w.secret.data /\ Spend(missed) /\ ~csrCache[w.name].exists
             /\ GoOn("updateKey", keyed, w.kc.status)
    <3>1. Carries({"getCsr"}, "updateKey", keyed) /\ SameFile
      BY <1>1, <2>2, QuietStatus, GoesOnSame
    <3>2. "stale" \in Kinds
      BY DEF Kinds
    <3>3. csr[w.name].exists => used'["stale"] # 0
      BY <2>2, <3>2, Spent
    <3> QED
      BY <2>2, <3>1, <3>3 DEF WorkerStep, MakesKey, createCSR
  <2> QED
    BY <2>1, <2>2 DEF Return, WorkerStep
<1>3. CASE GetCsrRejected
  <2> DEFINE status == [w.kc.status EXCEPT !.CSRApproved = "False",
                                           !.KubeconfigFinished = "False",
                                           !.phase = "Failed"]
  <2>1. EndWith(status, FALSE)
    BY <1>3 DEF GetCsrRejected
  <2>2. status \in KubeconfigStatus /\ status.KubeconfigFinished = "False"
    BY <1>1, Busy, Zenon DEF KubeconfigStatus, ConditionStatus, Phase
  <2> HIDE DEF status
  <2> QED
    BY <1>1, <2>1, <2>2, EndWithCarries DEF WorkerStep, EndsWithout, Carries
<1>4. CASE GetCsrPending
  BY <1>4 DEF GetCsrPending, Return, WorkerStep
<1>5. CASE GetCsrUnsigned
  <2> DEFINE status == [w.kc.status EXCEPT !.CSRApproved = "True"]
  <2>1. EndWith(status, TRUE) /\ Quietly(status)
    BY <1>1, <1>5, QuietStatus DEF GetCsrUnsigned
  <2> HIDE DEF status
  <2> QED
    BY <1>1, <2>1, EndsSame DEF WorkerStep, EndsWithout, SameFile, Carries
<1> QED
  BY <1>2, <1>3, <1>4, <1>5

LEMMA SignedReads ==
  ASSUME TypeOK, GetCsrSigned
  PROVE  WorkerStep
<1> DEFINE file == createKubeconfig(w.kc, Signed)
           filled == [Signed EXCEPT !.kubeconfig = file]
           status == [w.kc.status EXCEPT !.CSRApproved = "True",
                                         !.kubeconfig = file]
<1>1. /\ w.pc = "getCsr" /\ w.name \in Names /\ w.kc.status \in KubeconfigStatus
      /\ w.secret \in SecretSlot /\ w.kc.spec \in StoredSpec
      /\ csrCache[w.name].cert # NoCert /\ csrCache[w.name].exists /\ w.secret.data
  BY Busy DEF GetCsrSigned, Approved
<1>2. csrCache[w.name].cert \in Certificate
  BY <1>1 DEF TypeOK, ApiTypeOK, CsrSlot
<1>3. file \in KubeconfigFile
  <2>1. Signed.key \in Nat /\ Signed.cert \in Certificate
    BY <1>1, <1>2 DEF SecretSlot, Signed
  <2> QED
    BY <1>1, <2>1 DEF createKubeconfig, KubeconfigFile, StoredSpec
<1> HIDE DEF file
<1>4. /\ status \in KubeconfigStatus /\ status.kubeconfig = file
      /\ status.KubeconfigFinished = w.kc.status.KubeconfigFinished
  BY <1>1, <1>3, Zenon DEF KubeconfigStatus, ConditionStatus
<1> HIDE DEF status
<1>5. GoOn("updateCert", filled, status) \/ Return(TRUE)
  BY DEF GetCsrSigned, Signed, file, filled, status
<1>6. CASE GoOn("updateCert", filled, status)
  BY <1>1, <1>4, <1>6, GoOnCarries DEF WorkerStep, Signs, file
<1> QED
  BY <1>5, <1>6 DEF Return, WorkerStep

LEMMA CompleteCarries ==
  ASSUME TypeOK, w.pc \in {"getCrb", "createCrb"}, Complete,
         LET u == w.kc.spec.username IN crbCache[u].exists \/ crb'[u].exists
  PROVE  WorkerStep
<1> DEFINE status == [w.kc.status EXCEPT !.KubeconfigFinished = "True",
                                         !.phase = "Done"]
<1>1. /\ status \in KubeconfigStatus /\ status.kubeconfig = w.kc.status.kubeconfig
      /\ status.KubeconfigFinished = "True"
  BY Busy, Zenon DEF KubeconfigStatus, ConditionStatus, Phase
<1> HIDE DEF status
<1>2. EndWith(status, FALSE)
  BY DEF Complete, status
<1>3. Carries({w.pc}, "updateStatus", NoSecret) /\ w'.kc.status = status
  BY <1>1, <1>2, EndWithCarries
<1> QED
  BY <1>1, <1>3 DEF WorkerStep, Completes, Carries

LEMMA BindingReads ==
  ASSUME TypeOK, GetCrb
  PROVE  WorkerStep
<1>1. /\ w.pc = "getCrb"
      /\ \/ crbCache[w.kc.spec.username].exists /\ Complete
         \/ GoOn("createCrb", NoSecret, w.kc.status)
         \/ Return(TRUE)
  BY DEF GetCrb
<1>2. CASE GoOn("createCrb", NoSecret, w.kc.status)
  BY <1>1, <1>2, QuietStatus, GoesOnSame DEF WorkerStep, MissesCrb
<1> QED
  BY <1>1, <1>2, CompleteCarries DEF Return, WorkerStep

LEMMA SecretWrites ==
  ASSUME TypeOK, NEW reply \in Reply,
         CreateUserSecret(reply) \/ UpdateSecretKey(reply) \/ UpdateSecretCert(reply)
  PROVE  WorkerStep
<1>1. CASE CreateUserSecret(reply)
  <2> DEFINE new == Created(secret[w.name], createUserSecret(w.name, w.kc))
             made == [w.kc.status EXCEPT !.userSecret = TRUE,
                                         !.UserSecretCreated = "True"]
             failed == [w.kc.status EXCEPT !.UserSecretCreated = "False",
                                           !.phase = "Failed"]
  <2>1. w.pc = "createSecret"
    BY <1>1 DEF CreateUserSecret
  <2>2. Quietly(made) /\ Quietly(failed)
    BY <2>1, QuietStatus
  <2> HIDE DEF made, failed, new
  <2>3. \/ EndWith(failed, TRUE)
        \/ /\ GoOn("getCsr", new, made) /\ ~secret[w.name].exists
           /\ secret' = [secret EXCEPT ![w.name] = new]
    BY <1>1 DEF CreateUserSecret, made, failed, new
  <2>4. CASE EndWith(failed, TRUE)
    BY <2>1, <2>2, <2>4, EndsSame DEF WorkerStep, EndsWithout, SameFile, Carries
  <2>5. CASE /\ GoOn("getCsr", new, made) /\ ~secret[w.name].exists
             /\ secret' = [secret EXCEPT ![w.name] = new]
    BY <2>1, <2>2, <2>5, GoesOnSame DEF WorkerStep, MakesSecret, new
  <2> QED
    BY <2>3, <2>4, <2>5
<1>2. CASE UpdateSecretKey(reply)
  <2>1. /\ w.pc = "updateKey"
        /\ Return(TRUE) \/ (GoOn("createCsr", w.secret, w.kc.status) /\ Stores)
    BY <1>2 DEF UpdateSecretKey, UpdateSecret, SecretUpdated, Stores
  <2>2. CASE GoOn("createCsr", w.secret, w.kc.status) /\ Stores
    BY <2>1, <2>2, QuietStatus, GoesOnSame DEF WorkerStep, StoresKey
  <2> QED
    BY <2>1, <2>2 DEF Return, WorkerStep
<1>3. CASE UpdateSecretCert(reply)
  <2> DEFINE status == [w.kc.status EXCEPT !.UserSecretFinished = "True"]
  <2>1. /\ w.pc = "updateCert"
        /\ Return(TRUE) \/ (GoOn("getCrb", NoSecret, status) /\ Stores)
    BY <1>3 DEF UpdateSecretCert, UpdateSecret, SecretUpdated, Stores
  <2>2. Quietly(status)
    BY <2>1, QuietStatus
  <2> HIDE DEF status
  <2>3. CASE GoOn("getCrb", NoSecret, status) /\ Stores
    BY <2>1, <2>2, <2>3, GoesOnSame DEF WorkerStep, StoresCert
  <2> QED
    BY <2>1, <2>3 DEF Return, WorkerStep
<1> QED
  BY <1>1, <1>2, <1>3

LEMMA OtherWrites ==
  ASSUME TypeOK, NEW reply \in Reply,
         CreateCsr(reply) \/ CreateCrb(reply) \/ UpdateStatus(reply)
  PROVE  WorkerStep
<1>1. CASE CreateCsr(reply)
  <2> DEFINE status == [w.kc.status EXCEPT !.csr = TRUE, !.CSRCreated = "True",
                                           !.phase = "Awaiting Approval"]
  <2>1. w.pc = "createCsr" /\ (EndWith(status, FALSE) \/ Return(TRUE))
    BY <1>1 DEF CreateCsr
  <2>2. Quietly(status)
    BY <2>1, QuietStatus
  <2> HIDE DEF status
  <2>3. CASE EndWith(status, FALSE)
    BY <2>1, <2>2, <2>3, EndsSame DEF WorkerStep, EndsWithout, SameFile, Carries
  <2> QED
    BY <2>1, <2>3 DEF Return, WorkerStep
<1>2. CASE CreateCrb(reply)
  <2> DEFINE u == w.kc.spec.username
             binding == createClusterRoleBinding(w.kc)
             new == Created(crb[u], binding)
  <2>1. w.pc = "createCrb" /\ crb \in [Users -> CrbSlot] /\ u \in Users
    BY <1>2, Busy DEF CreateCrb, TypeOK, ApiTypeOK
  <2>2. binding \in CrbSlot
    BY <2>1, Busy, BlankTypes DEF createClusterRoleBinding, CrbSlot, StoredSpec
  <2>3. new.exists
    <3>1. binding \in CrbSlot
      BY <2>2
    <3> HIDE DEF binding
    <3> QED
      BY <3>1, Zenon DEF Created, CrbSlot
  <2>4. \/ Return(TRUE)
        \/ Complete /\ crb' = [crb EXCEPT ![u] = new]
    BY <1>2 DEF CreateCrb
  <2> HIDE DEF new
  <2>5. CASE Complete /\ crb' = [crb EXCEPT ![u] = new]
    <3>1. crb'[u].exists
      BY <2>1, <2>3, <2>5
    <3> QED
      BY <2>1, <2>5, <3>1, CompleteCarries
  <2> QED
    BY <2>4, <2>5 DEF Return, WorkerStep
<1>3. CASE UpdateStatus(reply)
  BY <1>3 DEF UpdateStatus, WorkerStep
<1> QED
  BY <1>1, <1>2, <1>3

LEMMA WorkerSteps == ASSUME TypeOK, [Next]_vars PROVE WorkerStep
<1>1. ASSUME NEW k \in Names, GetKubeconfig(k)
      PROVE  WorkerStep
  BY <1>1 DEF GetKubeconfig, WorkerStep, TakesUp, Idle
<1>2. CASE Reads \/ \E reply \in Reply : Writes(reply)
  BY <1>2, SecretReads, CsrReads, SignedReads, BindingReads, SecretWrites, OtherWrites
     DEF Reads, Writes
<1>3. CASE UserNext \/ ClusterNext \/ CsrNext \/ Crash \/ Panic \/ UNCHANGED vars
  <2>1. CASE UserNext
    BY <2>1 DEF UserNext, CreateKubeconfig, UpdateKubeconfig, DeleteKubeconfig,
                AdmitKubeconfig, workers, WorkerStep
  <2>2. CASE ClusterNext \/ UNCHANGED vars
    BY <2>2
       DEF ClusterNext, SyncSecret, SyncCsr, SyncCrb, Resync, AdminApprove, AdminDeny,
           SignerIssue, SignerFail, CsrGone, CollectCsr, ForeignCsr, SecretGone,
           CollectSecret, ProvideSecret, ChangeCsr, ChangeSecret, SyncClusterInfo,
           PublishClusterInfo, vars, workers, WorkerStep
  <2>3. CASE CsrNext \/ Crash \/ Panic
    BY <2>3 DEF CsrNext, GetCsrToApprove, ApproveCSR, Crash, Panic, Restart, WorkerStep
  <2> QED
    BY <1>3, <2>1, <2>2, <2>3
<1> QED
  BY <1>1, <1>2, <1>3 DEF Next, ReconcilerNext

-----------------------------------------------------------------------------
(* The secrets and their copies.                                            *)

\* A copy is not newer than the slot, and if it has its version, it is the slot.
CopyOf(copy, slot) ==
  copy.rv <= slot.rv /\ (copy.rv = slot.rv => copy = slot)

\* A copy has no other key than the slot of its version.
KeyAgrees(copy, slot) ==
  copy.rv <= slot.rv /\ (copy.rv = slot.rv /\ slot.exists => copy.key = slot.key)

HasData(s) == s.data => s.exists

SecretCopies ==
  \A s \in SecretNames : /\ HasData(secret[s]) /\ HasData(secretCache[s])
                         /\ CopyOf(secretCache[s], secret[s])

\* What a busy worker has in its hands, wherever it is.
WorkerSound ==
  w.pc # "idle" =>
    /\ HasData(w.secret)
    /\ w.pc \in {"updateKey", "createCsr"} => w.secret.key # NoKey
    /\ w.pc \in {"updateKey", "createCsr", "updateCert"} => w.secret.exists
    /\ w.pc = "createSecret" => w.kc.spec.existingCSR = None
    /\ w.kc.status.KubeconfigFinished = "True" => w.pc = "updateStatus"
    /\ w.pc \in {"getCsr", "updateCert"} /\ w.secret.exists =>
         KeyAgrees(w.secret, secret[userSecretName])

\* The four things that happen to a secret c, which becomes d: a user or the
\* worker makes it, the worker updates it, it goes.
SecretMade(s, c, d) ==
  /\ ~c.exists /\ d.exists /\ d.rv = c.rv + 1
  /\ \/ d.owners = {} /\ s \in ExistingSecrets
     \/ w.pc = "createSecret" /\ w.name = s /\ d.owners = {<<w.name, w.kc.uid>>}

SecretStored(s, c, d) ==
  /\ w.pc \in {"updateKey", "updateCert"} /\ s = userSecretName
  /\ Current(w.secret, c) /\ d = Stored(c, w.secret)

SecretWent(c, d) ==
  /\ c.exists /\ d = Removed(c, NoSecret)
  /\ used'["secretGone"] # 0 \/ Orphaned(c)

SecretChange(s) ==
  \/ secret'[s] = secret[s]
  \/ SecretMade(s, secret[s], secret'[s])
  \/ SecretStored(s, secret[s], secret'[s])
  \/ SecretWent(secret[s], secret'[s])

LEMMA OneSecretChanges ==
  ASSUME TypeOK, NEW s \in SecretNames, NEW new, secret' = [secret EXCEPT ![s] = new],
         \/ new = secret[s] \/ SecretMade(s, secret[s], new)
         \/ SecretStored(s, secret[s], new) \/ SecretWent(secret[s], new)
  PROVE  \A t \in SecretNames : SecretChange(t)
<1>1. secret'[s] = new /\ \A t \in SecretNames \ {s} : secret'[t] = secret[t]
  BY DEF TypeOK, ApiTypeOK
<1> QED
  BY <1>1 DEF SecretChange

\* The first owner of a secret is the one who asks for it.
LEMMA OwnedSecret ==
  ASSUME NEW s \in SecretSlot, NEW k, NEW uid, NEW d,
         d = SetControllerReference(s, k, uid)
  PROVE  /\ d.exists = s.exists /\ d.rv = s.rv /\ d.data = s.data /\ d.key = s.key
         /\ d.owners = s.owners \/ d.owners = {<<k, uid>>}
         /\ s.owners = {} => d.owners = {<<k, uid>>}
<1>1. d = s \/ d = [s EXCEPT !.owners = {<<k, uid>>}]
  BY DEF SetControllerReference
<1>2. s.owners = {} => d = [s EXCEPT !.owners = {<<k, uid>>}]
  BY DEF SetControllerReference
<1> QED
  BY <1>1, <1>2 DEF SecretSlot

LEMMA UserSecretChanges ==
  ASSUME TypeOK, NEW reply \in Reply, CreateUserSecret(reply)
  PROVE  \A t \in SecretNames : SecretChange(t)
<1> DEFINE blank == [NoSecret EXCEPT !.data = TRUE]
           asked == createUserSecret(w.name, w.kc)
           new == Created(secret[w.name], asked)
<1>1. /\ w.pc = "createSecret" /\ w.name \in Names /\ w.name \in SecretNames
      /\ w.kc.uid \in Nat
  BY Busy DEF CreateUserSecret, SecretNames
<1>2. blank \in SecretSlot
  BY BlankTypes DEF SecretSlot
<1>3. blank.owners = {}
  BY DEF NoSecret
<1> HIDE DEF blank
<1>4. asked = SetControllerReference(blank, w.name, w.kc.uid)
  BY DEF createUserSecret, blank
<1>5. asked \in SecretSlot /\ asked.owners = {<<w.name, w.kc.uid>>}
  BY <1>1, <1>2, <1>3, <1>4, OwnerTypes, OwnedSecret
<1> HIDE DEF asked
<1>6. new.exists /\ new.rv = secret[w.name].rv + 1 /\ new.owners = asked.owners
  BY <1>5, Zenon DEF Created, SecretSlot
<1>7. CASE secret' = secret
  BY <1>7 DEF SecretChange
<1>8. CASE secret' = [secret EXCEPT ![w.name] = new] /\ ~secret[w.name].exists
  <2>1. SecretMade(w.name, secret[w.name], new)
    BY <1>1, <1>5, <1>6, <1>8 DEF SecretMade
  <2> HIDE DEF new
  <2> QED
    BY <1>1, <1>8, <2>1, OneSecretChanges
<1> QED
  BY <1>7, <1>8 DEF CreateUserSecret, asked

LEMMA UpdateChanges ==
  ASSUME TypeOK, NEW reply \in Reply, UpdateSecretKey(reply) \/ UpdateSecretCert(reply)
  PROVE  \A t \in SecretNames : SecretChange(t)
<1> DEFINE s == userSecretName
           new == Stored(secret[s], w.secret)
<1>1. w.pc \in {"updateKey", "updateCert"} /\ s \in SecretNames
  BY Busy DEF UpdateSecretKey, UpdateSecretCert
<1>2. \/ secret' = secret
      \/ secret' = [secret EXCEPT ![s] = new] /\ Current(w.secret, secret[s])
  BY DEF UpdateSecretKey, UpdateSecretCert, UpdateSecret, SecretUpdated
<1>3. CASE secret' = secret
  BY <1>3 DEF SecretChange
<1>4. CASE secret' = [secret EXCEPT ![s] = new] /\ Current(w.secret, secret[s])
  <2>1. SecretStored(s, secret[s], new)
    BY <1>1, <1>4 DEF SecretStored
  <2> HIDE DEF s, new
  <2> QED
    BY <1>1, <1>4, <2>1, OneSecretChanges
<1> QED
  BY <1>2, <1>3, <1>4

LEMMA ClientChanges ==
  ASSUME TypeOK, NEW s \in SecretNames,
         \/ SecretGone(s) \/ CollectSecret(s)
         \/ s \in ExistingSecrets /\ \E filled \in BOOLEAN : ProvideSecret(s, filled)
  PROVE  \A t \in SecretNames : SecretChange(t)
<1>1. CASE SecretGone(s) \/ CollectSecret(s)
  <2>1. "secretGone" \in Kinds
    BY DEF Kinds
  <2>2. SecretWent(secret[s], Removed(secret[s], NoSecret))
    BY <1>1, <2>1, Spent DEF SecretGone, CollectSecret, SecretWent, Orphaned
  <2>3. secret' = [secret EXCEPT ![s] = Removed(secret[s], NoSecret)]
    BY <1>1 DEF SecretGone, CollectSecret, ChangeSecret
  <2> QED
    BY <2>2, <2>3, OneSecretChanges
<1>2. ASSUME s \in ExistingSecrets, NEW filled \in BOOLEAN, ProvideSecret(s, filled)
      PROVE  \A t \in SecretNames : SecretChange(t)
  <2> DEFINE key == IF filled THEN UserKey ELSE NoKey
             asked == [NoSecret EXCEPT !.data = filled, !.key = key]
             new == Created(secret[s], asked)
  <2>1. asked \in SecretSlot
    <3>1. key \in Nat
      BY DEF UserKey, NoKey
    <3> QED
      BY <3>1, BlankTypes, Zenon DEF SecretSlot
  <2>2. asked.owners = {}
    BY BlankTypes, Zenon DEF NoSecret
  <2> HIDE DEF asked
  <2>3. new.exists /\ new.rv = secret[s].rv + 1 /\ new.owners = asked.owners
    BY <2>1, Zenon DEF Created, SecretSlot
  <2>4. secret' = [secret EXCEPT ![s] = new] /\ ~secret[s].exists
    BY <1>2 DEF ProvideSecret, ChangeSecret, asked
  <2>5. SecretMade(s, secret[s], new)
    BY <1>2, <2>2, <2>3, <2>4 DEF SecretMade
  <2> HIDE DEF new
  <2> QED
    BY <2>4, <2>5, OneSecretChanges
<1> QED
  BY <1>1, <1>2

LEMMA SecretsChange ==
  ASSUME TypeOK, [Next]_vars
  PROVE  \A s \in SecretNames : SecretChange(s)
<1>1. CASE UNCHANGED secret
  BY <1>1 DEF SecretChange
<1>2. CASE UserNext \/ CsrNext \/ Crash \/ Panic \/ UNCHANGED vars
  BY <1>1, <1>2 DEF UserNext, CreateKubeconfig, UpdateKubeconfig, DeleteKubeconfig,
                    AdmitKubeconfig, CsrNext, GetCsrToApprove, ApproveCSR,
                    Crash, Panic, Restart, vars, stored
<1>3. CASE ReconcilerNext
  <2>1. \/ UNCHANGED secret
        \/ \E reply \in Reply : \/ CreateUserSecret(reply)
                               \/ UpdateSecretKey(reply) \/ UpdateSecretCert(reply)
    BY <1>3
       DEF ReconcilerNext, Reads, Writes, GetKubeconfig, GetExistingSecret,
           GetUserSecret, GetCrb, GetCsrNotFound, GetCsrRejected, GetCsrPending,
           GetCsrUnsigned, GetCsrSigned, CreateCsr, CreateCrb, UpdateStatus,
           OnlyReads, stored
  <2> QED
    BY <1>1, <2>1, UserSecretChanges, UpdateChanges
<1>4. CASE ClusterNext
  <2>1. \/ UNCHANGED secret
        \/ \E s \in SecretNames :
             \/ SecretGone(s) \/ CollectSecret(s)
             \/ s \in ExistingSecrets /\ \E filled \in BOOLEAN : ProvideSecret(s, filled)
    BY <1>4 DEF ClusterNext, SyncSecret, SyncCsr, SyncCrb, Resync, AdminApprove,
                AdminDeny, SignerIssue, SignerFail, CsrGone, CollectCsr, ForeignCsr,
                ChangeCsr, SyncClusterInfo, PublishClusterInfo, stored, SecretNames
  <2> QED
    BY <1>1, <2>1, ClientChanges
<1> QED
  BY <1>2, <1>3, <1>4 DEF Next

\* The caches copy what is stored.
LEMMA SecretCacheMoves ==
  ASSUME TypeOK, [Next]_vars
  PROVE  /\ \A s \in SecretNames : secretCache'[s] \in {secretCache[s], secret[s]}
         /\ \A u \in Users : crbCache'[u] \in {crbCache[u], crb[u]}
<1>1. CASE UNCHANGED <<secretCache, crbCache>>
  BY <1>1
<1>2. CASE UserNext \/ CsrNext \/ UNCHANGED vars
  BY <1>1, <1>2 DEF UserNext, CreateKubeconfig, UpdateKubeconfig, DeleteKubeconfig,
                    AdmitKubeconfig, CsrNext, GetCsrToApprove, ApproveCSR,
                    vars, caches
<1>3. CASE Crash \/ Panic
  BY <1>3 DEF Crash, Panic, Restart
<1>4. CASE ReconcilerNext
  BY <1>1, <1>4
     DEF ReconcilerNext, Reads, Writes, GetKubeconfig, GetExistingSecret,
         GetUserSecret, GetCrb, GetCsrNotFound, GetCsrRejected, GetCsrPending,
         GetCsrUnsigned, GetCsrSigned, CreateUserSecret, UpdateSecretKey,
         UpdateSecretCert, UpdateSecret, CreateCsr, CreateCrb, UpdateStatus,
         OnlyReads, caches
<1>5. CASE ClusterNext
  BY <1>5 DEF ClusterNext, SyncSecret, SyncCsr, SyncCrb, Resync, AdminApprove,
              AdminDeny, SignerIssue, SignerFail, CsrGone, CollectCsr, ForeignCsr,
              ChangeCsr, SecretGone, CollectSecret, ProvideSecret, ChangeSecret,
              SyncClusterInfo, PublishClusterInfo, caches, TypeOK, ApiTypeOK
<1> QED
  BY <1>2, <1>3, <1>4, <1>5 DEF Next

-----------------------------------------------------------------------------
(* The copies of a CSR.                                                     *)

\* A CSR that was denied is not approved, and what is issued is for its key.
CsrSound(c) ==
  /\ ~c.exists => c.approved = "no" /\ ~c.denied /\ ~c.failed /\ c.cert = NoCert
  /\ c.exists => c.key # NoKey
  /\ c.approved # "no" => ~c.denied
  /\ c.cert # NoCert => c.approved # "no" /\ c.cert.key = c.key

CsrCopies ==
  /\ \A k \in Names : /\ CsrSound(csr[k]) /\ CsrSound(csrCache[k])
                      /\ CopyOf(csrCache[k], csr[k])
  /\ cw.pc # "idle" => CopyOf(cw.csr, csr[cw.name]) /\ isPending(cw.csr)

\* The four things that happen to a CSR c, which becomes d: it is made by a
\* stranger or by the worker; it is decided or signed; it goes.
Unsigned(d) == d.approved = "no" /\ ~d.denied /\ ~d.failed /\ d.cert = NoCert

MadeByStranger == used'["foreign"] # 0

MadeByWorker(k, d) ==
  /\ w.pc = "createCsr" /\ w.name = k /\ w'.pc # "createCsr"
  /\ d.key = w.secret.key /\ d.owners = {<<k, w.kc.uid>>}

CsrMade(k, c, d) ==
  /\ ~c.exists /\ d.exists /\ d.rv = c.rv + 1 /\ d.key # NoKey /\ Unsigned(d)
  /\ MadeByStranger \/ MadeByWorker(k, d)

CsrDecided(c, d) ==
  /\ c.exists /\ d.exists /\ d.rv = c.rv + 1
  /\ d.key = c.key /\ d.owners = c.owners
  /\ c.denied => d.denied
  /\ c.failed => d.failed
  /\ c.approved # "no" => d.approved # "no"
  /\ d.approved # "no" => ~d.denied
  /\ \/ d.cert = c.cert
     \/ c.cert = NoCert /\ d.cert.key = c.key /\ d.approved # "no"

CsrWent(c, d) ==
  /\ c.exists /\ d = RemovedCsr(c)
  /\ used'["csrGone"] # 0 \/ Orphaned(c)

CsrChange(k) ==
  \/ csr'[k] = csr[k]
  \/ CsrMade(k, csr[k], csr'[k])
  \/ CsrDecided(csr[k], csr'[k])
  \/ CsrWent(csr[k], csr'[k])

\* A version is written from the stored one.
LEMMA StoredCsr ==
  ASSUME NEW slot \in CsrSlot, NEW d \in CsrSlot, NEW new, new = Stored(slot, d)
  PROVE  \/ new = slot
         \/ /\ new.rv = slot.rv + 1 /\ new.exists = d.exists /\ new.key = d.key
            /\ new.owners = d.owners /\ new.denied = d.denied
            /\ new.failed = d.failed /\ new.approved = d.approved
            /\ new.cert = d.cert
<1>1. slot.rv + 1 \in Nat
  BY DEF CsrSlot
<1> QED
  BY <1>1 DEF Stored, CsrSlot

\* One CSR is written.
LEMMA OneCsrChanges ==
  ASSUME TypeOK, NEW k \in Names, NEW new, csr' = [csr EXCEPT ![k] = new],
         \/ new = csr[k] \/ CsrMade(k, csr[k], new)
         \/ CsrDecided(csr[k], new) \/ CsrWent(csr[k], new)
  PROVE  \A j \in Names : CsrChange(j)
<1>1. csr'[k] = new /\ \A j \in Names \ {k} : csr'[j] = csr[j]
  BY DEF TypeOK, ApiTypeOK
<1> QED
  BY <1>1 DEF CsrChange

LEMMA DecisionsChange ==
  ASSUME TypeOK, CsrCopies, NEW k \in Names,
         AdminApprove(k) \/ AdminDeny(k) \/ SignerIssue(k) \/ SignerFail(k)
  PROVE  \A j \in Names : CsrChange(j)
<1> DEFINE c == csr[k]
           issued == [key |-> c.key, cn |-> c.cn]
<1>1. c \in CsrSlot /\ CsrSound(c) /\ issued \in Certificate /\ c.exists
  BY DEF TypeOK, ApiTypeOK, CsrSlot, Certificate, CsrCopies, AdminApprove, AdminDeny,
         SignerIssue, SignerFail, Undecided, Signable
<1>2. PICK d : /\ csr' = [csr EXCEPT ![k] = Stored(c, d)]
               /\ \/ /\ d = [c EXCEPT !.approved = "admin"]
                     /\ c.approved = "no" /\ ~c.denied
                  \/ d = [c EXCEPT !.denied = TRUE] /\ c.approved = "no"
                  \/ /\ d = [c EXCEPT !.cert = issued]
                     /\ c.approved # "no" /\ c.cert = NoCert
                  \/ d = [c EXCEPT !.failed = TRUE]
  BY DEF AdminApprove, AdminDeny, SignerIssue, SignerFail, ChangeCsr, Undecided,
         Signable
<1>3. d \in CsrSlot /\ d.exists /\ d.key = c.key /\ d.owners = c.owners
  BY <1>1, <1>2 DEF CsrSlot
<1>4. /\ c.denied => d.denied
      /\ c.failed => d.failed
      /\ c.approved # "no" => d.approved # "no"
      /\ d.approved # "no" => ~d.denied
  BY <1>1, <1>2 DEF CsrSlot, CsrSound
<1>5. \/ d.cert = c.cert
      \/ c.cert = NoCert /\ d.cert.key = c.key /\ d.approved # "no"
  BY <1>1, <1>2 DEF CsrSlot
<1>6. Stored(c, d) = c \/ CsrDecided(c, Stored(c, d))
  BY <1>1, <1>3, <1>4, <1>5, StoredCsr DEF CsrDecided
<1> QED
  BY <1>2, <1>6, OneCsrChanges

LEMMA ApprovalChanges ==
  ASSUME TypeOK, CsrCopies, NEW reply \in Reply, ApproveCSR(reply)
  PROVE  \A j \in Names : CsrChange(j)
<1> DEFINE c == csr[cw.name]
           d == setStatusCondition(cw.csr)
<1>1. cw.pc # "idle" /\ cw.name \in Names /\ cw.csr \in CsrSlot /\ c \in CsrSlot
  BY DEF ApproveCSR, TypeOK, CsrTypeOK, CsrWorker, ApiTypeOK
<1>2. CASE csr' = csr
  BY <1>2 DEF CsrChange
<1>3. CASE csr' = [csr EXCEPT ![cw.name] = Stored(c, d)] /\ Current(cw.csr, c)
  <2>1. cw.csr = c /\ c.exists /\ isPending(c) /\ CsrSound(c)
    BY <1>1, <1>3 DEF Current, CsrCopies, CopyOf
  <2>2. /\ d \in CsrSlot /\ d.exists /\ d.key = c.key /\ d.owners = c.owners
        /\ ~d.denied /\ ~d.failed /\ d.approved = "operator" /\ d.cert = c.cert
    BY <1>1, <2>1 DEF setStatusCondition, CsrSlot, isPending
  <2> HIDE DEF d
  <2>3. \/ Stored(c, d) = c
        \/ /\ Stored(c, d).rv = c.rv + 1 /\ Stored(c, d).exists
           /\ Stored(c, d).key = c.key /\ Stored(c, d).owners = c.owners
           /\ ~Stored(c, d).denied /\ ~Stored(c, d).failed
           /\ Stored(c, d).approved = "operator" /\ Stored(c, d).cert = c.cert
    BY <1>1, <2>2, StoredCsr
  <2>4. Stored(c, d) = c \/ CsrDecided(c, Stored(c, d))
    BY <2>1, <2>3 DEF CsrDecided, isPending
  <2> QED
    BY <1>1, <1>3, <2>4, OneCsrChanges
<1> QED
  BY <1>2, <1>3 DEF ApproveCSR

LEMMA CreationChanges ==
  ASSUME TypeOK, WorkerSound, NEW reply \in Reply, CreateCsr(reply)
  PROVE  \A j \in Names : CsrChange(j)
<1> DEFINE asked == createCsr(w.name, w.kc, w.secret.key)
           new == Created(csr[w.name], asked)
<1>1. /\ w.pc = "createCsr" /\ w.name \in Names /\ w.secret.key # NoKey
  BY Busy DEF CreateCsr, WorkerSound
<1>2. asked \in CsrSlot /\ csr[w.name] \in CsrSlot
  BY <1>1, RequestTypes DEF TypeOK, ApiTypeOK
<1>3. asked.key = w.secret.key
  BY DEF createCsr, NoCsr
<1>4. asked.owners = {<<w.name, w.kc.uid>>}
  BY DEF createCsr, NoCsr
<1>5. Unsigned(asked)
  BY DEF createCsr, NoCsr, Unsigned
<1> HIDE DEF asked
<1>6. /\ new.exists /\ new.rv = csr[w.name].rv + 1
      /\ new.owners = asked.owners /\ new.key = asked.key
      /\ new.approved = asked.approved /\ new.denied = asked.denied
      /\ new.failed = asked.failed /\ new.cert = asked.cert
  BY <1>2, Zenon DEF Created, CsrSlot
<1>7. CASE csr' = csr
  BY <1>7 DEF CsrChange
<1>8. CASE csr' = [csr EXCEPT ![w.name] = new] /\ ~csr[w.name].exists
  <2>0. w'.pc # "createCsr"
    <3>1. Return(TRUE) \/ \E status : EndWith(status, FALSE)
      BY Zenon DEF CreateCsr
    <3>2. w \in Worker /\ w.kc \in KubeconfigSlot
      BY <1>1, Busy DEF TypeOK, ReconcilerTypeOK
    <3>3. ASSUME NEW status, EndWith(status, FALSE)
          PROVE  w'.pc = "updateStatus"
      BY <3>2, <3>3, Zenon DEF EndWith, Worker, KubeconfigSlot
    <3>4. CASE Return(TRUE)
      BY <3>4 DEF Return, Idle
    <3> QED
      BY <3>1, <3>3, <3>4
  <2>1. CsrMade(w.name, csr[w.name], new)
    BY <1>1, <1>3, <1>4, <1>5, <1>6, <1>8, <2>0 DEF CsrMade, MadeByWorker, Unsigned
  <2> HIDE DEF new
  <2> QED
    BY <1>1, <1>8, <2>1, OneCsrChanges
<1> QED
  BY <1>7, <1>8 DEF CreateCsr, asked

LEMMA StrangerChanges ==
  ASSUME TypeOK, NEW k \in Names,
         \/ CsrGone(k) \/ CollectCsr(k)
         \/ \E annotated \in BOOLEAN, owners \in SUBSET References :
              ForeignCsr(k, annotated, owners)
  PROVE  \A j \in Names : CsrChange(j)
<1>1. CASE CsrGone(k) \/ CollectCsr(k)
  <2>1. "csrGone" \in Kinds
    BY DEF Kinds
  <2>2. CsrWent(csr[k], RemovedCsr(csr[k]))
    BY <1>1, <2>1, Spent DEF CsrGone, CollectCsr, CsrWent, Orphaned
  <2>3. csr' = [csr EXCEPT ![k] = RemovedCsr(csr[k])]
    BY <1>1 DEF CsrGone, CollectCsr, ChangeCsr
  <2> QED
    BY <2>2, <2>3, OneCsrChanges
<1>2. ASSUME NEW annotated \in BOOLEAN, NEW owners \in SUBSET References,
             ForeignCsr(k, annotated, owners)
      PROVE  \A j \in Names : CsrChange(j)
  <2> DEFINE asked == StrangersCsr(annotated, owners)
             new == Created(csr[k], asked)
  <2>1. asked \in CsrSlot /\ csr[k] \in CsrSlot
    BY StrangersFields DEF TypeOK, ApiTypeOK
  <2>2. asked.key # NoKey
    BY StrangersFields DEF UserKey, NoKey
  <2>3. Unsigned(asked)
    BY StrangersFields DEF Unsigned
  <2> HIDE DEF asked
  <2>4. /\ new.exists /\ new.rv = csr[k].rv + 1
        /\ new.owners = asked.owners /\ new.key = asked.key
        /\ new.approved = asked.approved /\ new.denied = asked.denied
        /\ new.failed = asked.failed /\ new.cert = asked.cert
    BY <2>1, Zenon DEF Created, CsrSlot
  <2>5. /\ csr' = [csr EXCEPT ![k] = new] /\ ~csr[k].exists /\ Spend({"foreign"})
    BY <1>2 DEF ForeignCsr, ChangeCsr, StrangersCsr, asked
  <2>6. used'["foreign"] # 0
    <3>1. "foreign" \in Kinds /\ "foreign" \in {"foreign"}
      BY DEF Kinds
    <3> QED
      BY <2>5, <3>1, Spent
  <2>7. CsrMade(k, csr[k], new)
    BY <2>2, <2>3, <2>4, <2>5, <2>6 DEF CsrMade, MadeByStranger, Unsigned
  <2> HIDE DEF new
  <2> QED
    BY <2>5, <2>7, OneCsrChanges
<1> QED
  BY <1>1, <1>2

LEMMA CsrsChange ==
  ASSUME TypeOK, WorkerSound, CsrCopies, [Next]_vars
  PROVE  \A k \in Names : CsrChange(k)
<1>1. CASE UNCHANGED csr
  BY <1>1 DEF CsrChange
<1>2. CASE UserNext \/ Crash \/ Panic \/ UNCHANGED vars
  BY <1>1, <1>2 DEF UserNext, CreateKubeconfig, UpdateKubeconfig, DeleteKubeconfig,
                    AdmitKubeconfig, Crash, Panic, Restart, vars, stored
<1>3. CASE CsrNext
  BY <1>1, <1>3, ApprovalChanges DEF CsrNext, GetCsrToApprove, stored
<1>4. CASE ReconcilerNext
  <2>1. UNCHANGED csr \/ \E reply \in Reply : CreateCsr(reply)
    BY <1>4
       DEF ReconcilerNext, Reads, Writes, GetKubeconfig, GetExistingSecret,
           GetUserSecret, GetCrb, GetCsrNotFound, GetCsrRejected, GetCsrPending,
           GetCsrUnsigned, GetCsrSigned, CreateUserSecret, UpdateSecretKey,
           UpdateSecretCert, CreateCrb, UpdateStatus, UpdateSecret, OnlyReads, stored
  <2> QED
    BY <1>1, <2>1, CreationChanges
<1>5. CASE ClusterNext
  <2>1. \/ UNCHANGED csr
        \/ \E k \in Names :
             \/ AdminApprove(k) \/ AdminDeny(k) \/ SignerIssue(k) \/ SignerFail(k)
             \/ CsrGone(k) \/ CollectCsr(k)
             \/ \E annotated \in BOOLEAN, owners \in SUBSET References :
                  ForeignCsr(k, annotated, owners)
    BY <1>5 DEF ClusterNext, SyncSecret, SyncCsr, SyncCrb, Resync, SecretGone,
                CollectSecret, ProvideSecret, ChangeSecret, SyncClusterInfo,
                PublishClusterInfo, stored
  <2> QED
    BY <1>1, <2>1, DecisionsChange, StrangerChanges
<1> QED
  BY <1>2, <1>3, <1>4, <1>5 DEF Next

-----------------------------------------------------------------------------
(* The copies stay what they are.                                           *)

LEMMA SecretsAdvance ==
  ASSUME TypeOK, NEW s \in SecretNames, SecretChange(s)
  PROVE  /\ secret[s].rv \in Nat
         /\ secret'[s] = secret[s] \/ secret'[s].rv = secret[s].rv + 1
<1>1. secret[s] \in SecretSlot /\ secret[s].rv \in Nat
  BY DEF TypeOK, ApiTypeOK, SecretSlot
<1>2. CASE SecretStored(s, secret[s], secret'[s])
  <2>1. w.secret \in SecretSlot
    BY <1>2, Busy DEF SecretStored
  <2> QED
    BY <1>1, <1>2, <2>1 DEF SecretStored, Stored, SecretSlot
<1>3. CASE SecretWent(secret[s], secret'[s])
  BY <1>1, <1>3 DEF SecretWent, Removed, NoSecret
<1> QED
  BY <1>1, <1>2, <1>3 DEF SecretChange, SecretMade

LEMMA SecretCopiesStep ==
  ASSUME TypeOK, TypeOK', WorkerSound, SecretCopies, [Next]_vars
  PROVE  SecretCopies'
<1> SUFFICES ASSUME NEW s \in SecretNames
             PROVE  /\ HasData(secret'[s]) /\ HasData(secretCache'[s])
                    /\ CopyOf(secretCache'[s], secret'[s])
  BY DEF SecretCopies
<1>1. /\ HasData(secret[s]) /\ HasData(secretCache[s])
      /\ CopyOf(secretCache[s], secret[s])
  BY DEF SecretCopies
<1>2. SecretChange(s) /\ secret[s] \in SecretSlot /\ secret'[s] \in SecretSlot
  BY SecretsChange DEF TypeOK, ApiTypeOK
<1>3. HasData(secret'[s])
  <2>1. CASE SecretStored(s, secret[s], secret'[s])
    <3>1. w.secret \in SecretSlot /\ HasData(w.secret) /\ w.secret.exists
      BY <2>1, Busy DEF SecretStored, WorkerSound
    <3> QED
      BY <1>1, <1>2, <2>1, <3>1 DEF SecretStored, Stored, SecretSlot, HasData
  <2>2. CASE SecretWent(secret[s], secret'[s])
    BY <2>2 DEF SecretWent, Removed, NoSecret, HasData
  <2> QED
    BY <1>1, <1>2, <2>1, <2>2 DEF SecretChange, SecretMade, HasData
<1>4. secretCache'[s] \in {secretCache[s], secret[s]}
  BY SecretCacheMoves
<1>5. /\ secret[s].rv \in Nat
      /\ secret'[s] = secret[s] \/ secret'[s].rv = secret[s].rv + 1
  BY <1>2, SecretsAdvance
<1>6. secretCache[s].rv \in Nat
  BY DEF TypeOK, ApiTypeOK, SecretSlot
<1> QED
  BY <1>1, <1>3, <1>4, <1>5, <1>6 DEF CopyOf

\* The worker keeps its Kubeconfig, and with it the name of the secret.
LEMMA CarriesName ==
  ASSUME NEW from, NEW pc, NEW s, Carries(from, pc, s)
  PROVE  userSecretName' = userSecretName
BY DEF Carries, userSecretName

LEMMA AgreesStill ==
  ASSUME TypeOK, [Next]_vars, NEW s \in SecretNames,
         NEW copy \in SecretSlot, KeyAgrees(copy, secret[s])
  PROVE  KeyAgrees(copy, secret'[s])
<1>1. /\ secret[s].rv \in Nat
      /\ secret'[s] = secret[s] \/ secret'[s].rv = secret[s].rv + 1
  BY SecretsChange, SecretsAdvance
<1>2. copy.rv \in Nat
  BY DEF SecretSlot
<1> QED
  BY <1>1, <1>2 DEF KeyAgrees

LEMMA WorkerSoundStep ==
  ASSUME TypeOK, TypeOK', WorkerSound, SecretCopies, [Next]_vars
  PROVE  WorkerSound'
<1> DEFINE Agrees == w'.secret.exists => KeyAgrees(w'.secret, secret'[userSecretName'])
<1> SUFFICES ASSUME w'.pc # "idle"
             PROVE  /\ HasData(w'.secret)
                    /\ w'.pc \in {"updateKey", "createCsr"} => w'.secret.key # NoKey
                    /\ w'.pc \in {"updateKey", "createCsr", "updateCert"}
                         => w'.secret.exists
                    /\ w'.pc = "createSecret" => w'.kc.spec.existingCSR = None
                    /\ w'.kc.status.KubeconfigFinished = "True"
                         => w'.pc = "updateStatus"
                    /\ w'.pc \in {"getCsr", "updateCert"} => Agrees
  BY DEF WorkerSound, HasData, KeyAgrees
<1>1. CASE UNCHANGED w
  <2>1. /\ w.pc # "idle" /\ userSecretName \in SecretNames
        /\ userSecretName' = userSecretName /\ w.secret \in SecretSlot
    BY <1>1, Busy DEF userSecretName
  <2>2. w.pc \in {"getCsr", "updateCert"} => Agrees
    BY <1>1, <2>1, AgreesStill DEF WorkerSound
  <2> QED
    BY <1>1, <2>1, <2>2 DEF WorkerSound
<1>2. ASSUME NEW k \in Names, TakesUp(k)
      PROVE  WorkerSound'
  BY <1>2 DEF TakesUp, WorkerSound, HasData, NoSecret, isInTerminalCondition
<1>3. CASE FindsSecret
  <2>1. PICK s : /\ Carries({"getSecret"}, "getCsr", s) /\ SameFile
                 /\ \/ s = NoSecret
                    \/ s = secretCache[userSecretName]
                    \/ s = SetControllerReference(secretCache[userSecretName],
                                                  w.name, w.kc.uid)
    BY <1>3 DEF FindsSecret
  <2>2. w.pc = "getSecret" /\ userSecretName \in SecretNames
    BY <2>1, Busy DEF Carries
  <2>3. /\ HasData(secretCache[userSecretName])
        /\ secretCache[userSecretName] \in SecretSlot
        /\ CopyOf(secretCache[userSecretName], secret[userSecretName])
    BY <2>2 DEF SecretCopies, TypeOK, ApiTypeOK
  <2>4. HasData(s) /\ (s.exists => KeyAgrees(s, secret[userSecretName]))
    <3>1. HasData(NoSecret) /\ ~NoSecret.exists
      BY DEF HasData, NoSecret
    <3> QED
      BY <2>1, <2>3, <3>1, OwnedSecret DEF HasData, KeyAgrees, CopyOf
  <2>5. s \in SecretSlot /\ w'.secret = s /\ w'.pc = "getCsr"
    BY <2>1, Busy DEF Carries, TypeOK, ReconcilerTypeOK, Worker
  <2>6. s.exists => KeyAgrees(s, secret'[userSecretName])
    BY <2>2, <2>4, <2>5, AgreesStill
  <2>7. w'.kc.status.KubeconfigFinished # "True"
    BY <2>1, <2>2 DEF SameFile, WorkerSound
  <2> QED
    BY <2>1, <2>4, <2>5, <2>6, <2>7, CarriesName
<1>4. CASE MakesSecret
  <2> DEFINE new == Created(secret[w.name], createUserSecret(w.name, w.kc))
  <2>1. /\ Carries({"createSecret"}, "getCsr", new) /\ SameFile
        /\ secret' = [secret EXCEPT ![w.name] = new]
    BY <1>4 DEF MakesSecret
  <2> HIDE DEF new
  <2>2. w.pc = "createSecret" /\ w.name \in SecretNames
    BY <2>1, Busy DEF Carries, SecretNames
  <2>3. userSecretName' = w.name
    BY <2>1, <2>2, CarriesName DEF WorkerSound, userSecretName
  <2>4. secret'[w.name] = new /\ w'.secret = new /\ w'.pc = "getCsr" /\ new \in SecretSlot
    BY <2>1, <2>2 DEF Carries, TypeOK, ApiTypeOK
  <2>5. createUserSecret(w.name, w.kc) \in SecretSlot
    <3>1. [NoSecret EXCEPT !.data = TRUE] \in SecretSlot
      BY BlankTypes DEF SecretSlot
    <3> QED
      BY <2>2, <3>1, Busy, OwnerTypes DEF createUserSecret
  <2>6. new.exists
    BY <2>5, Zenon DEF new, Created, SecretSlot
  <2>7. w'.kc.status.KubeconfigFinished # "True"
    BY <2>1, <2>2 DEF SameFile, WorkerSound
  <2>8. HasData(new) /\ KeyAgrees(new, secret'[userSecretName'])
    <3>1. new.rv \in Nat
      BY <2>4 DEF SecretSlot
    <3> QED
      BY <2>3, <2>4, <2>6, <3>1 DEF HasData, KeyAgrees
  <2> QED
    BY <2>4, <2>7, <2>8
<1>5. CASE MakesKey
  <2> DEFINE keyed == [w.secret EXCEPT !.key = lastKey + 1]
  <2>1. /\ Carries({"getCsr"}, "updateKey", keyed) /\ SameFile /\ w.secret.data
    BY <1>5 DEF MakesKey
  <2>2. /\ w.pc = "getCsr" /\ w.secret \in SecretSlot /\ lastKey \in Nat
        /\ w.secret.exists
    BY <2>1, Busy DEF Carries, TypeOK, ApiTypeOK, WorkerSound, HasData
  <2>3. keyed.exists = w.secret.exists /\ keyed.key = lastKey + 1
    BY <2>2 DEF SecretSlot
  <2>4. keyed.exists /\ keyed.key # NoKey
    BY <2>2, <2>3 DEF NoKey
  <2>5. w'.kc.status.KubeconfigFinished # "True"
    BY <2>1, <2>2 DEF SameFile, WorkerSound
  <2> QED
    BY <2>1, <2>4, <2>5 DEF Carries, HasData
<1>6. CASE StoresKey
  BY <1>6 DEF StoresKey, Carries, SameFile, WorkerSound
<1>7. CASE Signs
  <2> DEFINE filled == [Signed EXCEPT !.kubeconfig = createKubeconfig(w.kc, Signed)]
  <2>1. /\ Carries({"getCsr"}, "updateCert", filled) /\ w.secret.data
        /\ w'.kc.status.KubeconfigFinished = w.kc.status.KubeconfigFinished
    BY <1>7 DEF Signs
  <2>2. /\ w.pc = "getCsr" /\ w.secret \in SecretSlot /\ w.secret.exists
        /\ userSecretName \in SecretNames
    BY <2>1, Busy DEF Carries, WorkerSound, HasData
  <2>3. /\ filled.exists = w.secret.exists /\ filled.key = w.secret.key
        /\ filled.rv = w.secret.rv
    BY <2>2 DEF SecretSlot, Signed
  <2> HIDE DEF filled
  <2>4. KeyAgrees(filled, secret[userSecretName])
    BY <2>2, <2>3 DEF WorkerSound, KeyAgrees
  <2>5. filled \in SecretSlot
    BY <2>1, Busy DEF Carries, TypeOK, ReconcilerTypeOK, Worker
  <2>6. KeyAgrees(filled, secret'[userSecretName])
    BY <2>2, <2>4, <2>5, AgreesStill
  <2>7. w'.kc.status.KubeconfigFinished # "True"
    BY <2>1, <2>2 DEF WorkerSound
  <2> QED
    BY <2>1, <2>2, <2>3, <2>6, <2>7, CarriesName DEF Carries, HasData
<1>8. CASE FindsNoSecret \/ EndsWithout \/ StoresCert \/ MissesCrb \/ Completes
  <2>1. HasData(NoSecret)
    BY DEF HasData, NoSecret
  <2> QED
    BY <1>8, <2>1 DEF FindsNoSecret, EndsWithout, StoresCert, MissesCrb, Completes,
                      Carries, SameFile, WorkerSound
<1>9. CASE w' = Idle
  BY <1>9 DEF Idle
<1> QED
  BY <1>1, <1>2, <1>3, <1>4, <1>5, <1>6, <1>7, <1>8, <1>9, WorkerSteps
     DEF WorkerStep, WorkerSound

\* The approving worker takes up what is not decided yet.
LEMMA ApproverTakes ==
  ASSUME [Next]_vars
  PROVE  \/ UNCHANGED cw \/ cw' = CsrIdle
         \/ \E k \in Names : /\ cw'.name = k /\ cw'.csr = csrCache[k]
                             /\ isPending(csrCache[k])
<1>1. CASE UserNext \/ ClusterNext \/ Crash \/ Panic \/ UNCHANGED vars
  <2>1. CASE UserNext
    BY <2>1 DEF UserNext, CreateKubeconfig, UpdateKubeconfig, DeleteKubeconfig,
                AdmitKubeconfig, workers
  <2>2. CASE ClusterNext \/ UNCHANGED vars
    BY <2>2
       DEF ClusterNext, SyncSecret, SyncCsr, SyncCrb, Resync, AdminApprove, AdminDeny,
           SignerIssue, SignerFail, CsrGone, CollectCsr, ForeignCsr, SecretGone,
           CollectSecret, ProvideSecret, ChangeCsr, ChangeSecret, SyncClusterInfo,
           PublishClusterInfo, vars, workers
  <2>3. CASE Crash \/ Panic
    BY <2>3 DEF Crash, Panic, Restart
  <2> QED
    BY <1>1, <2>1, <2>2, <2>3
<1>2. CASE CsrNext
  BY <1>2 DEF CsrNext, GetCsrToApprove, ApproveCSR
<1>3. CASE ReconcilerNext
  BY <1>3
     DEF ReconcilerNext, Reads, Writes, GetKubeconfig, GetExistingSecret,
         GetUserSecret, GetCrb, GetCsrNotFound, GetCsrRejected, GetCsrPending,
         GetCsrUnsigned, GetCsrSigned, CreateUserSecret, UpdateSecretKey,
         UpdateSecretCert, UpdateSecret, CreateCsr, CreateCrb, UpdateStatus,
         OnlyReads
<1> QED
  BY <1>1, <1>2, <1>3 DEF Next

LEMMA CsrsAdvance ==
  ASSUME TypeOK, CsrCopies, NEW k \in Names, CsrChange(k)
  PROVE  /\ csr[k].rv \in Nat
         /\ csr'[k] = csr[k] \/ csr'[k].rv = csr[k].rv + 1
         /\ CsrSound(csr'[k])
<1>1. csr[k].rv \in Nat /\ CsrSound(csr[k]) /\ csr[k] \in CsrSlot
  BY DEF TypeOK, ApiTypeOK, CsrSlot, CsrCopies
<1>2. CASE CsrMade(k, csr[k], csr'[k])
  BY <1>1, <1>2 DEF CsrMade, Unsigned, CsrSound
<1>3. CASE CsrDecided(csr[k], csr'[k])
  BY <1>1, <1>3 DEF CsrDecided, CsrSound
<1>4. CASE CsrWent(csr[k], csr'[k])
  BY <1>1, <1>4, RemovedCsrFields DEF CsrWent, CsrSound
<1> QED
  BY <1>1, <1>2, <1>3, <1>4 DEF CsrChange

LEMMA CsrCopiesStep ==
  ASSUME TypeOK, TypeOK', WorkerSound, CsrCopies, [Next]_vars
  PROVE  CsrCopies'
<1>1. ASSUME NEW k \in Names, NEW c \in CsrSlot, CopyOf(c, csr[k])
      PROVE  CopyOf(c, csr'[k])
  <2>1. /\ csr[k].rv \in Nat
        /\ csr'[k] = csr[k] \/ csr'[k].rv = csr[k].rv + 1
    BY CsrsChange, CsrsAdvance
  <2>2. c.rv \in Nat
    BY DEF CsrSlot
  <2> QED
    BY <1>1, <2>1, <2>2 DEF CopyOf
<1>2. ASSUME NEW k \in Names
      PROVE  /\ CsrSound(csr'[k]) /\ CsrSound(csrCache'[k])
             /\ CopyOf(csrCache'[k], csr'[k])
  <2>1. csrCache'[k] = csrCache[k] \/ csrCache'[k] = csr[k]
    BY AllMove DEF CacheMove
  <2>2. csrCache[k] \in CsrSlot /\ csr[k] \in CsrSlot /\ csr[k].rv \in Nat
    BY DEF TypeOK, ApiTypeOK, CsrSlot
  <2>3. CopyOf(csr[k], csr[k]) /\ CopyOf(csrCache[k], csr[k])
    BY <2>2 DEF CopyOf, CsrCopies
  <2> QED
    BY <1>1, <2>1, <2>2, <2>3, CsrsChange, CsrsAdvance DEF CsrCopies
<1>3. ASSUME cw'.pc # "idle"
      PROVE  CopyOf(cw'.csr, csr'[cw'.name]) /\ isPending(cw'.csr)
  <2>1. CASE UNCHANGED cw
    <3>1. cw.name \in Names /\ cw.csr \in CsrSlot
      BY <1>3, <2>1 DEF TypeOK, CsrTypeOK, CsrWorker
    <3> QED
      BY <1>1, <1>3, <2>1, <3>1 DEF CsrCopies
  <2>2. CASE \E k \in Names : /\ cw'.name = k /\ cw'.csr = csrCache[k]
                              /\ isPending(csrCache[k])
    BY <1>1, <2>2 DEF CsrCopies, TypeOK, ApiTypeOK
  <2>3. CASE cw' = CsrIdle
    BY <1>3, <2>3 DEF CsrIdle
  <2> QED
    BY <2>1, <2>2, <2>3, ApproverTakes
<1> QED
  BY <1>2, <1>3 DEF CsrCopies, isPending

-----------------------------------------------------------------------------
(* While nothing is deleted, a Kubeconfig stays, and so does what it owns;  *)
(* CSRs only if no stranger's refers to a Kubeconfig that never was.        *)

Staying == Quiet({"delete"})

\* The owners of a slot are among these Kubeconfigs.
OwnersLive(kcs, slot) ==
  \A o \in slot.owners : kcs[o[1]].exists /\ kcs[o[1]].uid = o[2]

\* A worker's Kubeconfig is there, uses the same secret and has no verdict.
Present ==
  w.pc # "idle" =>
    /\ kubeconfig[w.name].exists
    /\ kubeconfig[w.name].uid = w.kc.uid
    /\ kubeconfig[w.name].spec.existingCSR = w.kc.spec.existingCSR
    /\ ~isInTerminalCondition(kubeconfig[w.name])

CsrsOwned == \A k \in Names : OwnersLive(kubeconfig, csr[k])

SecretsOwned ==
  /\ \A s \in SecretNames : /\ OwnersLive(kubeconfig, secret[s])
                            /\ OwnersLive(kubeconfig, secretCache[s])
  /\ w.pc # "idle" => OwnersLive(kubeconfig, w.secret)

KubeconfigsStay ==
  \A k \in Names : kubeconfig[k].exists =>
    /\ kubeconfig'[k].exists
    /\ kubeconfig'[k].uid = kubeconfig[k].uid
    /\ kubeconfig'[k].spec.existingCSR = kubeconfig[k].spec.existingCSR
    /\ kubeconfig'[k].status = kubeconfig[k].status \/ w' = Idle

LEMMA EditStays ==
  ASSUME VerdictInv, NEW k \in Names, NEW spec \in Requests, NEW lookup \in Lookup,
         UpdateKubeconfig(k, spec, lookup)
  PROVE  KubeconfigsStay
<1> DEFINE old == kubeconfig[k]
           asked == [old EXCEPT !.spec = spec]
           kept == KeepStatus(Default(asked, Found(lookup)), old)
           new == Stored(old, kept)
<1>1. /\ TypeOK /\ kubeconfig \in [Names -> KubeconfigSlot]
      /\ spec \in KubeconfigSpec /\ old.status \in KubeconfigStatus
  BY ConstantsAssumption DEF VerdictInv, TypeOK, ApiTypeOK, KubeconfigSlot
<1>2. asked \in KubeconfigSlot /\ asked.spec \in KubeconfigSpec
  BY <1>1, Zenon DEF KubeconfigSlot
<1>3. asked.uid = old.uid /\ asked.exists = old.exists
  BY <1>1 DEF KubeconfigSlot
<1>4. kept \in KubeconfigSlot
  BY <1>1, <1>2, FoundTypes, DefaultTypes
<1> HIDE DEF asked
<1>5. kept.uid = old.uid /\ kept.exists = old.exists /\ kept.status = old.status
  BY <1>2, <1>3, <1>4, Zenon DEF KeepStatus, Default, KubeconfigSlot
<1>6. /\ old.exists /\ kept.spec.existingCSR = old.spec.existingCSR
      /\ kubeconfig' = [kubeconfig EXCEPT ![k] = new]
  BY DEF UpdateKubeconfig, AdmitKubeconfig, ValidateUpdate, asked
<1> HIDE DEF kept
<1>7. /\ new.exists /\ new.uid = old.uid /\ new.status = old.status
      /\ new.spec.existingCSR = old.spec.existingCSR
  BY <1>1, <1>4, <1>5, <1>6 DEF Stored, KubeconfigSlot
<1> HIDE DEF new
<1> QED
  BY <1>1, <1>6, <1>7 DEF KubeconfigsStay

LEMMA UserStays ==
  ASSUME VerdictInv, UserNext, Staying'
  PROVE  KubeconfigsStay
<1>1. TypeOK /\ kubeconfig \in [Names -> KubeconfigSlot]
  BY DEF VerdictInv, TypeOK, ApiTypeOK
<1>2. ASSUME NEW k \in Names, DeleteKubeconfig(k)
      PROVE  FALSE
  <2>1. "delete" \in Kinds /\ "delete" \in {"delete"} /\ Spend({"delete"})
    BY <1>2 DEF Kinds, DeleteKubeconfig
  <2> QED
    BY <1>1, <2>1, Spent DEF Staying, Quiet
<1>3. ASSUME NEW k \in Names, NEW spec \in Requests, NEW lookup \in Lookup,
             CreateKubeconfig(k, spec, lookup)
      PROVE  KubeconfigsStay
  <2>1. ~kubeconfig[k].exists /\ \A j \in Names \ {k} : kubeconfig'[j] = kubeconfig[j]
    BY <1>1, <1>3 DEF CreateKubeconfig, AdmitKubeconfig
  <2> QED
    BY <2>1 DEF KubeconfigsStay
<1> QED
  BY <1>2, <1>3, EditStays DEF UserNext

LEMMA StatusStays ==
  ASSUME VerdictInv, NEW reply \in Reply, UpdateStatus(reply)
  PROVE  KubeconfigsStay
<1> DEFINE k == w.name
           old == kubeconfig[k]
           updated == [old EXCEPT !.status = Persisted(w.kc.status)]
           new == IF reply # "error" /\ Current(w.kc, old)
                  THEN Stored(old, updated) ELSE old
<1>1. /\ TypeOK /\ k \in Names /\ kubeconfig \in [Names -> KubeconfigSlot]
  BY Busy DEF UpdateStatus, VerdictInv, TypeOK, ApiTypeOK
<1>2. updated.exists = old.exists /\ updated.uid = old.uid /\ updated.spec = old.spec
  BY <1>1 DEF KubeconfigSlot
<1>3. kubeconfig' = [kubeconfig EXCEPT ![k] = new] /\ w' = Idle
  BY DEF UpdateStatus
<1>4. new.exists = old.exists /\ new.uid = old.uid /\ new.spec = old.spec
  BY <1>1, <1>2 DEF Stored, KubeconfigSlot
<1> HIDE DEF new
<1> QED
  BY <1>1, <1>3, <1>4 DEF KubeconfigsStay

LEMMA AllStay ==
  ASSUME VerdictInv, [Next]_vars, Staying'
  PROVE  KubeconfigsStay
<1>1. CASE UNCHANGED kubeconfig
  BY <1>1 DEF KubeconfigsStay
<1>2. CASE ReconcilerNext /\ ~\E reply \in Reply : UpdateStatus(reply)
  BY <1>1, <1>2
     DEF ReconcilerNext, Reads, Writes, GetKubeconfig, GetExistingSecret,
         GetUserSecret, GetCrb, GetCsrNotFound, GetCsrRejected, GetCsrPending,
         GetCsrUnsigned, GetCsrSigned, CreateUserSecret, UpdateSecretKey, CreateCsr,
         UpdateSecretCert, CreateCrb, UpdateSecret, OnlyReads, stored
<1>3. CASE ClusterNext \/ CsrNext \/ Crash \/ Panic \/ UNCHANGED vars
  BY <1>1, <1>3
     DEF ClusterNext, CsrNext, Crash, Panic, Restart, vars, stored,
         SyncSecret, SyncCsr, SyncCrb, Resync, AdminApprove, AdminDeny, SignerIssue,
         SignerFail, CsrGone, CollectCsr, ForeignCsr, SecretGone, CollectSecret,
         ProvideSecret, ChangeCsr, ChangeSecret, SyncClusterInfo, PublishClusterInfo,
         GetCsrToApprove, ApproveCSR
<1> QED
  BY <1>2, <1>3, UserStays, StatusStays DEF Next

LEMMA PresentStep ==
  ASSUME VerdictInv, Present, KubeconfigsStay, [Next]_vars
  PROVE  Present'
<1>1. CASE SameCopy
  <2> SUFFICES ASSUME w'.pc # "idle"
               PROVE  /\ kubeconfig'[w'.name].exists
                      /\ kubeconfig'[w'.name].uid = w'.kc.uid
                      /\ kubeconfig'[w'.name].spec.existingCSR = w'.kc.spec.existingCSR
                      /\ ~isInTerminalCondition(kubeconfig'[w'.name])
    BY DEF Present, isInTerminalCondition
  <2>1. /\ w.pc # "idle" /\ w'.name = w.name /\ w'.kc.uid = w.kc.uid
        /\ w'.kc.spec = w.kc.spec /\ w.name \in Names /\ w' # Idle
    BY <1>1, Busy DEF SameCopy, VerdictInv, Idle
  <2> QED
    BY <2>1 DEF Present, KubeconfigsStay, isInTerminalCondition
<1>2. ASSUME NEW k \in Names, GetKubeconfig(k)
      PROVE  Present'
  <2>1. UNCHANGED kubeconfig
    BY <1>2 DEF GetKubeconfig, OnlyReads, stored
  <2>2. UNCHANGED w \/ TakesUp(k)
    BY <1>2 DEF GetKubeconfig, TakesUp, Idle
  <2> QED
    BY <2>1, <2>2 DEF Present, TakesUp, isInTerminalCondition
<1> QED
  BY <1>1, <1>2, UserKeepsVerdicts, ReconcilerKeepsVerdicts, OthersKeepVerdicts
     DEF Next, ReconcilerNext

LEMMA OwnersStay ==
  ASSUME KubeconfigsStay, NEW slot, slot.owners \subseteq Owner,
         OwnersLive(kubeconfig, slot)
  PROVE  OwnersLive(kubeconfig', slot)
BY DEF OwnersLive, KubeconfigsStay, Owner

LEMMA WorkerOwns ==
  ASSUME TypeOK, Present, KubeconfigsStay, w.pc # "idle", NEW slot,
         slot.owners = {<<w.name, w.kc.uid>>}
  PROVE  OwnersLive(kubeconfig', slot)
BY Busy DEF OwnersLive, KubeconfigsStay, Present

LEMMA CsrsOwnedStep ==
  ASSUME TypeOK, WorkerSound, CsrCopies, Present, CsrsOwned, KubeconfigsStay,
         Quiet({"foreign"})', [Next]_vars
  PROVE  CsrsOwned'
<1> SUFFICES ASSUME NEW k \in Names PROVE OwnersLive(kubeconfig', csr'[k])
  BY DEF CsrsOwned, OwnersLive
<1>1. /\ csr[k].owners \subseteq Owner /\ OwnersLive(kubeconfig, csr[k])
      /\ csr[k] \in CsrSlot
  BY DEF CsrsOwned, TypeOK, ApiTypeOK, CsrSlot
<1>2. OwnersLive(kubeconfig', csr[k])
  BY <1>1, OwnersStay
<1>3. CASE CsrMade(k, csr[k], csr'[k])
  BY <1>3, WorkerOwns DEF CsrMade, MadeByStranger, MadeByWorker, Quiet, OwnersLive
<1>4. CASE csr'[k] = csr[k] \/ CsrDecided(csr[k], csr'[k])
  BY <1>2, <1>4 DEF CsrDecided, OwnersLive
<1>5. CASE CsrWent(csr[k], csr'[k])
  BY <1>1, <1>2, <1>5, RemovedCsrFields DEF CsrWent, OwnersLive
<1> QED
  BY <1>3, <1>4, <1>5, CsrsChange DEF CsrChange

LEMMA SecretsOwnedStep ==
  ASSUME TypeOK, TypeOK', Present, SecretsOwned, KubeconfigsStay, [Next]_vars
  PROVE  SecretsOwned'
<1> DEFINE Live(slot) == OwnersLive(kubeconfig', slot)
<1>1. ASSUME NEW s \in SecretNames
      PROVE  Live(secret[s]) /\ Live(secretCache[s])
  BY OwnersStay DEF SecretsOwned, TypeOK, ApiTypeOK, SecretSlot
<1>2. w.pc # "idle" => Live(w.secret) /\ w.secret \in SecretSlot
  BY OwnersStay, Busy DEF SecretsOwned, SecretSlot
<1>3. Live(NoSecret)
  BY DEF NoSecret, OwnersLive
<1>4. ASSUME NEW s \in SecretNames
      PROVE  Live(secret'[s])
  <2>1. secret[s] \in SecretSlot
    BY DEF TypeOK, ApiTypeOK
  <2>2. CASE SecretMade(s, secret[s], secret'[s])
    BY <2>2, WorkerOwns DEF SecretMade, OwnersLive
  <2>3. CASE SecretStored(s, secret[s], secret'[s])
    <3>1. \/ secret'[s] = secret[s]
          \/ secret'[s].owners = w.secret.owners
      BY <1>2, <2>1, <2>3 DEF SecretStored, Stored, SecretSlot
    <3> QED
      BY <1>1, <1>2, <2>3, <3>1 DEF OwnersLive, SecretStored
  <2>4. CASE SecretWent(secret[s], secret'[s])
    BY <2>4 DEF SecretWent, Removed, NoSecret, OwnersLive
  <2> QED
    BY <1>1, <2>2, <2>3, <2>4, SecretsChange DEF SecretChange
<1>5. ASSUME NEW s \in SecretNames
      PROVE  Live(secretCache'[s])
  BY <1>1, SecretCacheMoves
<1>6. ASSUME w'.pc # "idle"
      PROVE  Live(w'.secret)
  <2>1. CASE UNCHANGED w
    BY <1>2, <1>6, <2>1
  <2>2. ASSUME NEW k \in Names, TakesUp(k)
        PROVE  Live(w'.secret)
    BY <1>3, <2>2 DEF TakesUp
  <2>3. CASE FindsSecret
    <3>1. PICK s : /\ w'.secret = s /\ w.pc = "getSecret"
                   /\ \/ s = NoSecret
                      \/ s = secretCache[userSecretName]
                      \/ s = SetControllerReference(secretCache[userSecretName],
                                                    w.name, w.kc.uid)
      BY <2>3 DEF FindsSecret, Carries
    <3>2. userSecretName \in SecretNames /\ secretCache[userSecretName] \in SecretSlot
      BY <3>1, Busy DEF TypeOK, ApiTypeOK
    <3>3. CASE s = SetControllerReference(secretCache[userSecretName], w.name, w.kc.uid)
      <4>1. \/ s.owners = secretCache[userSecretName].owners
            \/ s.owners = {<<w.name, w.kc.uid>>}
        BY <3>2, <3>3, OwnedSecret
      <4>2. CASE s.owners = {<<w.name, w.kc.uid>>}
        BY <3>1, <4>2, WorkerOwns
      <4>3. CASE s.owners = secretCache[userSecretName].owners
        BY <1>1, <3>1, <3>2, <4>3 DEF OwnersLive
      <4> QED
        BY <4>1, <4>2, <4>3
    <3> QED
      BY <1>1, <1>3, <3>1, <3>2, <3>3
  <2>4. CASE MakesSecret
    <3>1. w.name \in SecretNames /\ w'.secret = secret'[w.name]
      BY <2>4, Busy DEF MakesSecret, Carries, SecretNames, TypeOK, ApiTypeOK
    <3> QED
      BY <1>4, <3>1
  <2>5. CASE MakesKey \/ Signs
    <3>1. w.pc # "idle" /\ w'.secret.owners = w.secret.owners
      BY <1>2, <2>5 DEF MakesKey, Signs, Carries, Signed, SecretSlot
    <3> QED
      BY <1>2, <3>1 DEF OwnersLive
  <2>6. CASE StoresKey
    BY <1>2, <2>6 DEF StoresKey, Carries
  <2>7. CASE FindsNoSecret \/ EndsWithout \/ StoresCert \/ MissesCrb \/ Completes
    BY <1>3, <2>7 DEF FindsNoSecret, EndsWithout, StoresCert, MissesCrb, Completes,
                      Carries
  <2>8. CASE w' = Idle
    BY <1>6, <2>8 DEF Idle
  <2> QED
    BY <2>1, <2>2, <2>3, <2>4, <2>5, <2>6, <2>7, <2>8, WorkerSteps DEF WorkerStep
<1> QED
  BY <1>4, <1>5, <1>6 DEF SecretsOwned, OwnersLive

-----------------------------------------------------------------------------
(* A verdict and the CSR it was read from.                                  *)

VerdictCalm == Quiet({"csrGone", "foreign", "delete"})

\* What a copy of a CSR says of its end, the CSR c says too.
Older(copy, c) ==
  /\ copy.denied \/ copy.failed => c.denied \/ c.failed
  /\ copy.cert # NoCert => c.cert = copy.cert

\* The file has the certificate of the CSR c.
Certified(file, c) == file.cert # NoCert /\ c.cert = file.cert

Verdicts ==
  /\ \A k \in Names : Older(csrCache[k], csr[k])
  /\ w.pc # "idle" =>
       /\ Rejects(w) => csr[w.name].denied \/ csr[w.name].failed
       /\ Delivers(w) => Certified(w.kc.status.kubeconfig, csr[w.name])
  /\ \A k \in Names :
       /\ Finished(k, "False") => csr[k].denied \/ csr[k].failed
       /\ Finished(k, "True") => Certified(kubeconfig[k].status.kubeconfig, csr[k])

\* A CSR that stays says what it said.
LEMMA CsrsStay ==
  ASSUME TypeOK, WorkerSound, CsrCopies, CsrsOwned, VerdictCalm', [Next]_vars,
         NEW k \in Names
  PROVE  Older(csr[k], csr'[k])
<1>1. CsrChange(k) /\ CsrSound(csr[k])
  BY CsrsChange DEF CsrCopies
<1>2. CASE CsrMade(k, csr[k], csr'[k])
  BY <1>1, <1>2 DEF CsrMade, CsrSound, Older
<1>3. CASE CsrDecided(csr[k], csr'[k])
  BY <1>3 DEF CsrDecided, Older
<1>4. CASE CsrWent(csr[k], csr'[k])
  <2>1. used'["csrGone"] = 0
    BY DEF VerdictCalm, Quiet
  <2>2. OwnersLive(kubeconfig, csr[k]) /\ csr[k].owners \subseteq Owner
    BY DEF CsrsOwned, TypeOK, ApiTypeOK, CsrSlot
  <2> QED
    BY <1>4, <2>1, <2>2 DEF CsrWent, Orphaned, Alive, OwnersLive
<1> QED
  BY <1>1, <1>2, <1>3, <1>4 DEF CsrChange, Older

LEMMA VerdictsStep ==
  ASSUME DeliveryInv, WorkerSound, CsrCopies, CsrsOwned, Verdicts, VerdictCalm',
         [Next]_vars
  PROVE  Verdicts'
<1>1. VerdictInv /\ TypeOK
  BY DEF DeliveryInv, VerdictInv
<1>2. \A k \in Names : Older(csr[k], csr'[k])
  BY <1>1, CsrsStay
<1>3. ASSUME NEW k \in Names
      PROVE  Older(csrCache'[k], csr'[k])
  <2>1. csrCache'[k] = csrCache[k] \/ csrCache'[k] = csr[k]
    BY <1>1, AllMove DEF CacheMove
  <2> QED
    BY <1>2, <2>1 DEF Verdicts, Older
<1>4. ASSUME w'.pc # "idle"
      PROVE  /\ Rejects(w') => csr'[w'.name].denied \/ csr'[w'.name].failed
             /\ Delivers(w') => Certified(w'.kc.status.kubeconfig, csr'[w'.name])
  <2>1. VerdictMove
    BY <1>1, VerdictMoves
  <2>2. CASE UNCHANGED w \/ Continues
    <3>1. w.pc # "idle" /\ w.name \in Names /\ w'.name = w.name
      BY <1>1, <1>4, <2>2, Busy DEF Continues
    <3> QED
      BY <1>2, <2>2, <3>1 DEF Continues, Verdicts, Older, Certified
  <2>3. CASE Templates
    <3>1. /\ w.pc # "idle" /\ w.name \in Names /\ w'.name = w.name
          /\ w.secret \in SecretSlot
      BY <1>1, <2>3, Busy DEF Templates
    <3>2. [w.secret EXCEPT !.cert = csrCache[w.name].cert].cert = csrCache[w.name].cert
      BY <3>1 DEF SecretSlot
    <3>3. w'.kc.status.kubeconfig.cert = csrCache[w.name].cert
      BY <2>3, <3>2 DEF Templates, createKubeconfig
    <3> QED
      BY <1>2, <2>3, <3>1, <3>3 DEF Templates, Verdicts, Older, Certified
  <2>4. CASE FindsRejected
    <3>1. w.pc # "idle" /\ w.name \in Names /\ w'.name = w.name
      BY <1>1, <2>4, Busy DEF FindsRejected
    <3> QED
      BY <1>2, <2>4, <3>1 DEF FindsRejected, Rejected, Verdicts, Older
  <2>5. CASE Begins
    BY <2>5 DEF Begins
  <2> QED
    BY <1>4, <2>1, <2>2, <2>3, <2>4, <2>5 DEF VerdictMove
<1>5. ASSUME NEW k \in Names, kubeconfig'[k].exists
      PROVE  LET status == kubeconfig'[k].status
             IN /\ status.KubeconfigFinished = "False" =>
                     csr'[k].denied \/ csr'[k].failed
                /\ status.KubeconfigFinished = "True" =>
                     Certified(status.kubeconfig, csr'[k])
  <2>1. CASE /\ kubeconfig[k].exists
             /\ kubeconfig'[k].status = kubeconfig[k].status
    BY <1>2, <1>5, <2>1 DEF Verdicts, Finished, Older, Certified
  <2>2. CASE VerdictWritten(k)
    <3>1. w.pc # "idle" /\ w.kc.status \in KubeconfigStatus /\ w.name = k
      BY <1>1, <2>2, Busy DEF VerdictWritten
    <3>2. /\ kubeconfig'[k].status.kubeconfig = w.kc.status.kubeconfig
          /\ kubeconfig'[k].status.KubeconfigFinished = w.kc.status.KubeconfigFinished
      BY <2>2, <3>1, PersistedFields DEF VerdictWritten
    <3> QED
      BY <1>2, <3>1, <3>2 DEF Verdicts, Rejects, Delivers, Older, Certified
  <2>3. CASE VerdictKept(k)
    <3>1. NoStatus.KubeconfigFinished = "Absent"
      BY DEF NoStatus
    <3> QED
      BY <1>5, <2>1, <2>3, <3>1 DEF VerdictKept
  <2> QED
    BY <1>1, <1>5, <2>1, <2>2, <2>3, KubeconfigMoves DEF KubeconfigMove
<1> QED
  BY <1>3, <1>4, <1>5 DEF Verdicts, Older, Certified, Rejects, Delivers, Finished

-----------------------------------------------------------------------------
(* Bindings are never taken away.                                           *)

Bound(user) == user \in Users /\ crb[user].exists

Bindings ==
  /\ \A u \in Users : crbCache[u].exists => Bound(u)
  /\ w.pc # "idle" =>
       /\ w.kc.status.KubeconfigFinished = "True" => Bound(w.kc.spec.username)
       /\ w.pc = "updateCert" => w.secret.kubeconfig = w.kc.status.kubeconfig
  /\ \A k \in Names :
       Finished(k, "True") => Bound(kubeconfig[k].status.kubeconfig.user)

LEMMA BindingsStay ==
  ASSUME TypeOK, [Next]_vars, NEW u, Bound(u)
  PROVE  Bound(u)'
<1>1. ASSUME NEW reply \in Reply, CreateCrb(reply)
      PROVE  crb'[u].exists
  <2>1. \/ crb' = crb
        \/ ~crb[w.kc.spec.username].exists
           /\ \E new : crb' = [crb EXCEPT ![w.kc.spec.username] = new]
    BY <1>1 DEF CreateCrb
  <2> QED
    BY <2>1 DEF Bound, TypeOK, ApiTypeOK
<1> QED
  BY <1>1, BindingMoves DEF Bound

\* What the steps of a worker that lead to no delivery have in common.
Undelivered ==
  \/ \E k \in Names : TakesUp(k)
  \/ FindsNoSecret \/ FindsSecret \/ MakesSecret
  \/ MakesKey \/ StoresKey \/ EndsWithout

LEMMA NotFinished ==
  ASSUME TypeOK, WorkerSound, Undelivered
  PROVE  w'.kc.status.KubeconfigFinished # "True" /\ ~Delivers(w')
<1>1. CASE \E k \in Names : TakesUp(k)
  BY <1>1 DEF TakesUp, isInTerminalCondition, Delivers
<1>2. CASE EndsWithout
  BY <1>2 DEF EndsWithout, Carries, WorkerSound, Delivers
<1>3. CASE \/ FindsNoSecret \/ FindsSecret \/ MakesSecret
           \/ MakesKey \/ StoresKey
  <2>1. /\ w.pc \in {"getSecret", "createSecret", "getCsr", "updateKey"}
        /\ w'.pc \in {"createSecret", "getCsr", "updateKey", "createCsr"}
        /\ SameFile
    BY <1>3 DEF FindsNoSecret, FindsSecret, MakesSecret, MakesKey, StoresKey, Carries
  <2> QED
    BY <2>1 DEF SameFile, WorkerSound, Delivers
<1> QED
  BY <1>1, <1>2, <1>3 DEF Undelivered

LEMMA DeliverySteps ==
  ASSUME TypeOK, [Next]_vars, w'.pc # "idle"
  PROVE  UNCHANGED w \/ Undelivered \/ Signs \/ StoresCert \/ MissesCrb \/ Completes
BY WorkerSteps DEF WorkerStep, Undelivered, Idle

LEMMA BindingsStep ==
  ASSUME DeliveryInv, WorkerSound, Bindings, [Next]_vars
  PROVE  Bindings'
<1>1. VerdictInv /\ TypeOK /\ FileAsAsked
  BY DEF DeliveryInv, VerdictInv
<1>2. \A u : Bound(u) => Bound(u)'
  BY <1>1, BindingsStay
<1>3. ASSUME NEW u \in Users, crbCache'[u].exists
      PROVE  Bound(u)'
  <2>1. crbCache'[u] \in {crbCache[u], crb[u]}
    BY <1>1, SecretCacheMoves
  <2> QED
    BY <1>2, <1>3, <2>1 DEF Bindings, Bound
<1>4. ASSUME w'.pc # "idle"
      PROVE  /\ w'.kc.status.KubeconfigFinished = "True" =>
                  w'.kc.spec.username \in Users /\ crb'[w'.kc.spec.username].exists
             /\ w'.pc = "updateCert" => w'.secret.kubeconfig = w'.kc.status.kubeconfig
  <2>1. CASE UNCHANGED w
    BY <1>2, <1>4, <2>1 DEF Bindings, Bound
  <2>2. CASE Undelivered
    BY <1>1, <2>2, NotFinished DEF Delivers
  <2>3. CASE Signs
    <3> DEFINE file == createKubeconfig(w.kc, Signed)
    <3>1. /\ Carries({"getCsr"}, "updateCert", [Signed EXCEPT !.kubeconfig = file])
          /\ w'.kc.status.kubeconfig = file
          /\ w'.kc.status.KubeconfigFinished = w.kc.status.KubeconfigFinished
      BY <2>3 DEF Signs
    <3> HIDE DEF file
    <3>2. w.secret \in SecretSlot /\ w.pc = "getCsr"
      BY <1>1, <3>1, Busy DEF Carries
    <3>3. [Signed EXCEPT !.kubeconfig = file].kubeconfig = file
      BY <3>2 DEF Signed, SecretSlot
    <3> QED
      BY <3>1, <3>2, <3>3 DEF Carries, WorkerSound
  <2>4. CASE StoresCert \/ MissesCrb
    BY <2>4 DEF StoresCert, MissesCrb, Carries, SameFile, WorkerSound
  <2>5. CASE Completes
    <3>1. /\ w.pc # "idle" /\ w'.kc.spec = w.kc.spec /\ w'.pc = "updateStatus"
          /\ crbCache[w.kc.spec.username].exists \/ crb'[w.kc.spec.username].exists
      BY <2>5 DEF Completes, Carries
    <3>2. w.kc.spec.username \in Users
      BY <1>1, <3>1, Busy
    <3> QED
      BY <1>2, <3>1, <3>2 DEF Bindings, Bound
  <2> QED
    BY <1>1, <1>4, <2>1, <2>2, <2>3, <2>4, <2>5, DeliverySteps
<1>5. ASSUME NEW k \in Names, kubeconfig'[k].exists,
             kubeconfig'[k].status.KubeconfigFinished = "True"
      PROVE  LET user == kubeconfig'[k].status.kubeconfig.user
             IN user \in Users /\ crb'[user].exists
  <2>1. CASE /\ kubeconfig[k].exists
             /\ kubeconfig'[k].status = kubeconfig[k].status
    BY <1>2, <1>5, <2>1 DEF Bindings, Finished, Bound
  <2>2. CASE VerdictWritten(k)
    <3>1. w.pc # "idle" /\ w.kc.status \in KubeconfigStatus
      BY <1>1, <2>2, Busy DEF VerdictWritten
    <3>2. /\ kubeconfig'[k].status.kubeconfig = w.kc.status.kubeconfig
          /\ w.kc.status.KubeconfigFinished = "True"
      BY <1>5, <2>2, <3>1, PersistedFields DEF VerdictWritten
    <3>3. w.kc.status.kubeconfig.user = w.kc.spec.username
      BY <1>1, <3>1, <3>2 DEF FileAsAsked, Delivers
    <3> QED
      BY <1>2, <3>1, <3>2, <3>3 DEF Bindings, Bound
  <2>3. CASE VerdictKept(k)
    <3>1. NoStatus.KubeconfigFinished = "Absent"
      BY DEF NoStatus
    <3> QED
      BY <1>5, <2>1, <2>3, <3>1 DEF VerdictKept
  <2> QED
    BY <1>1, <1>5, <2>1, <2>2, <2>3, KubeconfigMoves DEF KubeconfigMove
<1> QED
  BY <1>3, <1>4, <1>5 DEF Bindings, Bound, Finished

-----------------------------------------------------------------------------
(* A secret of one Kubeconfig is written by that Kubeconfig's reconciles.   *)

SecretsStaying == Quiet({"secretGone", "delete"})

LEMMA SecretOf ==
  ASSUME TypeOK, KubeconfigsStay, NEW k \in Names, kubeconfig[k].exists
  PROVE  /\ secretOf(k) \in SecretNames
         /\ secretOf(k)' = secretOf(k)
         /\ Unshared(k)' => Unshared(k)
<1>1. \A j \in Names : kubeconfig[j].exists =>
        secretOf(j)' = secretOf(j) /\ kubeconfig'[j].exists
  BY DEF KubeconfigsStay, secretOf
<1>2. secretOf(k) \in SecretNames
  BY DEF TypeOK, ApiTypeOK, StoredSpec, secretOf, SecretNames
<1> QED
  BY <1>1, <1>2 DEF Unshared

LEMMA WorkerSecret ==
  ASSUME TypeOK, Present, w.pc # "idle"
  PROVE  w.name \in Names /\ secretOf(w.name) = userSecretName
BY Busy DEF Present, secretOf, userSecretName

\* The worker's copy of the secret was stored.
WorkerStored(k) ==
  LET s == secretOf(k)
  IN w.name = k /\ SecretStored(s, secret[s], secret'[s])

LEMMA SecretStays ==
  ASSUME TypeOK, SecretsOwned, Present, KubeconfigsStay, SecretsStaying',
         [Next]_vars, NEW k \in Names, kubeconfig[k].exists, Unshared(k),
         secret[secretOf(k)].exists
  PROVE  secret'[secretOf(k)] = secret[secretOf(k)] \/ WorkerStored(k)
<1> DEFINE s == secretOf(k)
<1>1. s \in SecretNames
  BY SecretOf
<1>2. SecretChange(s)
  BY <1>1, SecretsChange
<1>3. ASSUME SecretWent(secret[s], secret'[s])
      PROVE  FALSE
  <2>1. used'["secretGone"] = 0
    BY DEF SecretsStaying, Quiet
  <2>2. OwnersLive(kubeconfig, secret[s]) /\ secret[s].owners \subseteq Owner
    BY <1>1 DEF SecretsOwned, TypeOK, ApiTypeOK, SecretSlot
  <2> QED
    BY <1>3, <2>1, <2>2 DEF SecretWent, Orphaned, Alive, OwnersLive
<1>4. ASSUME SecretStored(s, secret[s], secret'[s])
      PROVE  w.name = k
  <2>1. w.pc # "idle" /\ s = userSecretName
    BY <1>4 DEF SecretStored
  <2>2. w.name \in Names /\ secretOf(w.name) = s /\ kubeconfig[w.name].exists
    BY <2>1, WorkerSecret DEF Present
  <2> QED
    BY <2>2 DEF Unshared
<1> QED
  BY <1>2, <1>3, <1>4 DEF SecretChange, SecretMade, WorkerStored

\* Storing a copy leaves the slot with what the copy says.
LEMMA StoredSecret ==
  ASSUME NEW slot \in SecretSlot, NEW d \in SecretSlot, NEW new,
         new = Stored(slot, d)
  PROVE  new.exists = d.exists /\ new.key = d.key /\ new.kubeconfig = d.kubeconfig
<1>1. CASE d = [slot EXCEPT !.rv = d.rv]
  BY <1>1 DEF Stored, SecretSlot
<1>2. CASE d # [slot EXCEPT !.rv = d.rv]
  BY <1>2 DEF Stored, SecretSlot
<1> QED
  BY <1>1, <1>2

\* The worker is at k and has stored the file it is to deliver.
Delivering(k) ==
  w.pc # "idle" /\ w.name = k /\ Delivers(w) /\ w.pc # "updateCert"

LEMMA DeliveringPlace ==
  ASSUME WorkerSound, NEW k, Delivering(k)
  PROVE  w.pc \in {"getCrb", "createCrb", "updateStatus"}
BY DEF Delivering, Delivers, WorkerSound

\* A worker comes to that by storing the file, or it was there.
LEMMA DeliveringStep ==
  ASSUME TypeOK, WorkerSound, [Next]_vars, NEW k \in Names, Delivering(k)'
  PROVE  /\ w.name = k /\ w.pc # "idle"
         /\ w'.kc.status.kubeconfig = w.kc.status.kubeconfig
         /\ StoresCert \/ Delivering(k)
<1>1. w'.pc # "idle" /\ w'.name = k /\ Delivers(w') /\ w'.pc # "updateCert"
  BY DEF Delivering, Delivers
<1>2. CASE UNCHANGED w
  BY <1>1, <1>2 DEF Delivering
<1>3. CASE Undelivered
  BY <1>1, <1>3, NotFinished
<1>4. CASE Signs
  BY <1>1, <1>4 DEF Signs, Carries
<1>5. CASE StoresCert \/ MissesCrb \/ Completes
  BY <1>1, <1>5 DEF StoresCert, MissesCrb, Completes, Carries, SameFile, Delivering,
                    Delivers
<1> QED
  BY <1>1, <1>2, <1>3, <1>4, <1>5, DeliverySteps

\* A Kubeconfig that is finished was, or the worker was delivering it.
LEMMA FinishedStep ==
  ASSUME DeliveryInv, [Next]_vars, NEW k \in Names, Finished(k, "True")'
  PROVE  /\ kubeconfig[k].exists
         /\ \/ /\ Finished(k, "True")
               /\ kubeconfig'[k].status.kubeconfig = kubeconfig[k].status.kubeconfig
            \/ /\ Delivering(k) /\ w.pc = "updateStatus"
               /\ kubeconfig'[k].status.kubeconfig = w.kc.status.kubeconfig
<1>1. VerdictInv /\ TypeOK
  BY DEF DeliveryInv, VerdictInv
<1>2. kubeconfig'[k].exists /\ kubeconfig'[k].status.KubeconfigFinished = "True"
  BY DEF Finished
<1>3. CASE kubeconfig[k].exists /\ kubeconfig'[k].status = kubeconfig[k].status
  BY <1>2, <1>3 DEF Finished
<1>4. CASE VerdictWritten(k)
  <2>1. w.pc # "idle" /\ w.kc.status \in KubeconfigStatus
    BY <1>1, <1>4, Busy DEF VerdictWritten
  <2>2. /\ kubeconfig'[k].status.kubeconfig = w.kc.status.kubeconfig
        /\ w.kc.status.KubeconfigFinished = "True"
    BY <1>2, <1>4, <2>1, PersistedFields DEF VerdictWritten
  <2> QED
    BY <1>4, <2>1, <2>2 DEF VerdictWritten, Delivering, Delivers
<1>5. CASE VerdictKept(k)
  <2>1. NoStatus.KubeconfigFinished = "Absent"
    BY DEF NoStatus
  <2> QED
    BY <1>2, <1>3, <1>5, <2>1 DEF VerdictKept
<1> QED
  BY <1>1, <1>2, <1>3, <1>4, <1>5, KubeconfigMoves DEF KubeconfigMove

\* A finished Kubeconfig has no worker.
LEMMA FinishedAlone ==
  ASSUME Present, NEW k, Finished(k, "True"), w.pc # "idle"
  PROVE  w.name # k
BY DEF Present, Finished, isInTerminalCondition

-----------------------------------------------------------------------------
(* The secret holds the file that is delivered.                             *)

Holds(slot, file) == slot.exists /\ slot.kubeconfig = file

Files ==
  \A k \in Names : Unshared(k) =>
    /\ Delivering(k) => Holds(secret[secretOf(k)], w.kc.status.kubeconfig)
    /\ Finished(k, "True") =>
         Holds(secret[secretOf(k)], kubeconfig[k].status.kubeconfig)

LEMMA FilesStep ==
  ASSUME DeliveryInv, WorkerSound, Bindings, SecretsOwned, Present, Files,
         KubeconfigsStay, SecretsStaying', [Next]_vars
  PROVE  Files'
<1>1. VerdictInv /\ TypeOK
  BY DEF DeliveryInv, VerdictInv
<1> SUFFICES ASSUME NEW k \in Names, Unshared(k)'
             PROVE  /\ Delivering(k)' =>
                         Holds(secret[secretOf(k)], w.kc.status.kubeconfig)'
                    /\ Finished(k, "True")' =>
                         Holds(secret[secretOf(k)], kubeconfig[k].status.kubeconfig)'
  BY DEF Files
<1> DEFINE s == secretOf(k)
\* While k is being delivered or is finished, nobody writes its secret.
<1>2. ASSUME NEW file, kubeconfig[k].exists, Holds(secret[s], file),
             \/ Delivering(k)
             \/ Finished(k, "True")
      PROVE  Holds(secret'[secretOf(k)'], file)
  <2>1. Unshared(k) /\ secretOf(k)' = s
    BY <1>1, <1>2, SecretOf
  <2>2. secret'[s] = secret[s] \/ WorkerStored(k)
    BY <1>1, <1>2, <2>1, SecretStays DEF Holds
  <2>3. ~WorkerStored(k)
    <3>1. ASSUME WorkerStored(k)
          PROVE  w.pc \in {"updateKey", "updateCert"} /\ w.name = k
      BY <3>1 DEF WorkerStored, SecretStored
    <3> QED
      BY <1>2, <3>1, DeliveringPlace, FinishedAlone
  <2> QED
    BY <1>2, <2>1, <2>2, <2>3 DEF Holds
<1>3. ASSUME Delivering(k)'
      PROVE  Holds(secret'[secretOf(k)'], w'.kc.status.kubeconfig)
  <2>1. /\ w.name = k /\ w.pc # "idle"
        /\ w'.kc.status.kubeconfig = w.kc.status.kubeconfig
        /\ StoresCert \/ Delivering(k)
    BY <1>1, <1>3, DeliveringStep
  <2>2. kubeconfig[k].exists /\ Unshared(k) /\ secretOf(k)' = s /\ s = userSecretName
        /\ s \in SecretNames
    BY <1>1, <2>1, SecretOf, WorkerSecret DEF Present
  <2>3. CASE Delivering(k)
    BY <1>2, <2>1, <2>2, <2>3 DEF Files
  <2>4. CASE StoresCert
    <3>1. /\ w.pc = "updateCert" /\ w.secret \in SecretSlot /\ w.secret.exists
          /\ w.secret.kubeconfig = w.kc.status.kubeconfig
      BY <1>1, <2>4, Busy DEF StoresCert, Carries, WorkerSound, Bindings
    <3>2. /\ secret[s] \in SecretSlot
          /\ secret'[s] = Stored(secret[s], w.secret)
      BY <1>1, <2>2, <2>4 DEF StoresCert, Stores, TypeOK, ApiTypeOK
    <3>3. secret'[s].exists /\ secret'[s].kubeconfig = w.secret.kubeconfig
      BY <3>1, <3>2, StoredSecret
    <3> QED
      BY <2>1, <2>2, <3>1, <3>3 DEF Holds
  <2> QED
    BY <2>1, <2>3, <2>4
<1>4. ASSUME Finished(k, "True")'
      PROVE  Holds(secret'[secretOf(k)'], kubeconfig'[k].status.kubeconfig)
  <2>1. kubeconfig[k].exists
    BY <1>4, FinishedStep
  <2>2. Unshared(k)
    BY <1>1, <2>1, SecretOf
  <2> QED
    BY <1>2, <1>4, <2>1, <2>2, FinishedStep DEF Files
<1> QED
  BY <1>3, <1>4 DEF Holds

-----------------------------------------------------------------------------
(* Keys.                                                                    *)

KeyCalm == Quiet({"stale", "foreign", "secretGone", "delete"})

\* The slot of a secret has the key of the CSR c.
KeyOf(slot, c) == c.exists => slot.exists /\ slot.key = c.key

Pair(file) == file.key = file.cert.key /\ file.key # NoKey

NoRequest(k) == ~csr[k].exists /\ ~csrCache[k].exists

\* The worker is at this place of a reconcile of k.
At(k, pc) == w.pc = pc /\ w.name = k

Keys ==
  /\ \A k \in Names : kubeconfig[k].exists \/ NoRequest(k)
  /\ w.pc \in {"updateKey", "createCsr"} => NoRequest(w.name)
  /\ w.pc = "updateCert" =>
       LET file == w.kc.status.kubeconfig
       IN file.key = w.secret.key /\ file.cert.key # NoKey
  /\ \A k \in Names : Unshared(k) =>
       LET slot == secret[secretOf(k)] IN
       /\ KeyOf(slot, csr[k]) /\ KeyOf(slot, csrCache[k])
       /\ At(k, "createCsr") => slot.exists /\ slot.key = w.secret.key
       /\ At(k, "updateCert") =>
            slot.exists /\ slot.key = w.kc.status.kubeconfig.cert.key
       /\ Delivering(k) => Pair(w.kc.status.kubeconfig)
       /\ Finished(k, "True") => Pair(kubeconfig[k].status.kubeconfig)

\* A CSR is made only by the worker, at createCsr.
LEMMA CsrComes ==
  ASSUME TypeOK, WorkerSound, CsrCopies, KeyCalm', [Next]_vars, NEW k \in Names,
         csr'[k].exists
  PROVE  \/ csr[k].exists /\ csr'[k].key = csr[k].key
         \/ MadeByWorker(k, csr'[k])
<1>1. used'["foreign"] = 0
  BY DEF KeyCalm, Quiet
<1>2. CASE CsrMade(k, csr[k], csr'[k])
  BY <1>1, <1>2 DEF CsrMade, MadeByStranger
<1>3. CASE CsrWent(csr[k], csr'[k])
  <2>1. csr[k] \in CsrSlot
    BY DEF TypeOK, ApiTypeOK
  <2> QED
    BY <1>3, <2>1, RemovedCsrFields DEF CsrWent
<1> QED
  BY <1>2, <1>3, CsrsChange DEF CsrChange, CsrDecided

\* None comes where there is none and the worker is elsewhere.
LEMMA NoRequestStays ==
  ASSUME TypeOK, WorkerSound, CsrCopies, KeyCalm', [Next]_vars, NEW k \in Names,
         NoRequest(k), ~MadeByWorker(k, csr'[k])
  PROVE  NoRequest(k)'
<1>1. csrCache'[k] = csrCache[k] \/ csrCache'[k] = csr[k]
  BY AllMove DEF CacheMove
<1> QED
  BY <1>1, CsrComes DEF NoRequest

\* The copy that is stored has the key that was stored, if it should.
LEMMA StoredKey ==
  ASSUME TypeOK, WorkerSound, NEW s, s = userSecretName, w.pc # "idle",
         w.secret.exists, Current(w.secret, secret[s]),
         secret'[s] = Stored(secret[s], w.secret)
  PROVE  /\ secret'[s].exists /\ secret'[s].key = w.secret.key
         /\ w.pc = "updateCert" => w.secret.key = secret[s].key
<1>1. s \in SecretNames /\ w.secret \in SecretSlot /\ secret[s] \in SecretSlot
  BY Busy DEF TypeOK, ApiTypeOK
<1>2. secret'[s].exists /\ secret'[s].key = w.secret.key
  BY <1>1, StoredSecret
<1>3. w.pc = "updateCert" => w.secret.key = secret[s].key
  BY DEF WorkerSound, KeyAgrees, Current
<1> QED
  BY <1>2, <1>3

LEMMA WorkerStoredKey ==
  ASSUME TypeOK, WorkerSound, NEW k, WorkerStored(k)
  PROVE  LET s == secretOf(k)
         IN /\ w.name = k /\ w.pc \in {"updateKey", "updateCert"}
            /\ s = userSecretName
            /\ secret'[s].exists /\ secret'[s].key = w.secret.key
            /\ w.pc = "updateCert" => w.secret.key = secret[s].key
<1> DEFINE s == secretOf(k)
<1>1. /\ w.name = k /\ w.pc \in {"updateKey", "updateCert"} /\ s = userSecretName
      /\ Current(w.secret, secret[s]) /\ secret'[s] = Stored(secret[s], w.secret)
  BY DEF WorkerStored, SecretStored
<1>2. w.secret.exists
  BY <1>1 DEF WorkerSound
<1> HIDE DEF s
<1>3. /\ secret'[s].exists /\ secret'[s].key = w.secret.key
      /\ w.pc = "updateCert" => w.secret.key = secret[s].key
  BY <1>1, <1>2, StoredKey
<1> QED
  BY <1>1, <1>3 DEF s

\* What an unshared secret has of a key, it keeps, unless a new key is stored.
LEMMA KeyStays ==
  ASSUME TypeOK, WorkerSound, SecretsOwned, Present, KubeconfigsStay,
         SecretsStaying', [Next]_vars, NEW k \in Names, kubeconfig[k].exists,
         Unshared(k), secret[secretOf(k)].exists, ~At(k, "updateKey")
  PROVE  LET s == secretOf(k)
         IN secret'[s].exists /\ secret'[s].key = secret[s].key
<1>1. secret'[secretOf(k)] = secret[secretOf(k)] \/ WorkerStored(k)
  BY SecretStays
<1>2. CASE WorkerStored(k)
  BY <1>2, WorkerStoredKey DEF At
<1> QED
  BY <1>1, <1>2

\* The file is templated with the key in the worker's copy and the certificate in
\* the cache.
LEMMA SignedKeys ==
  ASSUME TypeOK, CsrCopies, Signs
  PROVE  LET file == w'.kc.status.kubeconfig
         IN /\ w.pc = "getCsr" /\ w'.name = w.name /\ w.name \in Names
            /\ file.key = w'.secret.key
            /\ csrCache[w.name].exists
            /\ file.cert.key = csrCache[w.name].key /\ file.cert.key # NoKey
<1> DEFINE file == createKubeconfig(w.kc, Signed)
           filled == [Signed EXCEPT !.kubeconfig = file]
           read == csrCache[w.name]
<1>1. /\ Carries({"getCsr"}, "updateCert", filled)
      /\ w'.kc.status.kubeconfig = file
      /\ read.exists /\ read.cert # NoCert
  BY DEF Signs
<1>2. /\ w.pc = "getCsr" /\ w'.name = w.name /\ w.name \in Names
      /\ w.secret \in SecretSlot /\ w'.secret = filled
  BY <1>1, Busy DEF Carries
<1>3. Signed.key = w.secret.key /\ Signed.cert = read.cert /\ filled.key = w.secret.key
  BY <1>2 DEF Signed, SecretSlot
<1>4. file.key = w.secret.key /\ file.cert = read.cert
  BY <1>3 DEF createKubeconfig
<1> HIDE DEF file, filled
<1>5. read.cert.key = read.key /\ read.key # NoKey
  BY <1>1, <1>2 DEF CsrCopies, CsrSound
<1> QED
  BY <1>1, <1>2, <1>3, <1>4, <1>5

LEMMA NoRequestsStep ==
  ASSUME TypeOK, WorkerSound, CsrCopies, Present, Keys, KubeconfigsStay, KeyCalm',
         [Next]_vars
  PROVE  /\ \A k \in Names : kubeconfig'[k].exists \/ NoRequest(k)'
         /\ w'.pc \in {"updateKey", "createCsr"} =>
              ~csr'[w'.name].exists /\ ~csrCache'[w'.name].exists
<1>1. ASSUME NEW k \in Names
      PROVE  kubeconfig'[k].exists \/ NoRequest(k)'
  <2>1. CASE kubeconfig[k].exists
    BY <2>1 DEF KubeconfigsStay
  <2>2. CASE ~kubeconfig[k].exists
    BY <2>2, NoRequestStays DEF Keys, MadeByWorker, Present
  <2> QED
    BY <2>1, <2>2
<1>2. ASSUME w'.pc \in {"updateKey", "createCsr"}
      PROVE  NoRequest(w.name)' /\ w'.name = w.name
  <2>1. w.name \in Names /\ w'.name = w.name /\ NoRequest(w.name)
        /\ (UNCHANGED w \/ w.pc # "createCsr")
    <3>1. CASE UNCHANGED w
      BY <1>2, <3>1, Busy DEF Keys
    <3>2. CASE MakesKey
      <4>1. used'["stale"] = 0
        BY DEF KeyCalm, Quiet
      <4> QED
        BY <3>2, <4>1, Busy DEF MakesKey, Carries, NoRequest
    <3>3. CASE StoresKey
      BY <3>3, Busy DEF StoresKey, Carries, Keys
    <3> QED
      BY <1>2, <3>1, <3>2, <3>3, WorkerSteps
         DEF WorkerStep, Idle, TakesUp, FindsNoSecret, FindsSecret, MakesSecret,
             EndsWithout, Signs, StoresCert, MissesCrb, Completes, Carries
  <2>2. \A k \in Names : k = w.name => ~MadeByWorker(k, csr'[k])
    BY <1>2, <2>1 DEF MadeByWorker
  <2>3. \A k \in Names : k = w.name => NoRequest(k)'
    BY <2>1, <2>2, NoRequestStays
  <2> QED
    BY <2>1, <2>3 DEF NoRequest
<1> QED
  BY <1>1, <1>2 DEF NoRequest

LEMMA UnsharedKeysStep ==
  ASSUME DeliveryInv, WorkerSound, CsrCopies, SecretsOwned, Present, Keys,
         KubeconfigsStay, KeyCalm', [Next]_vars, NEW k \in Names, Unshared(k)'
  PROVE  LET slot == secret'[secretOf(k)'] IN
         /\ KeyOf(slot, csr'[k]) /\ KeyOf(slot, csrCache'[k])
         /\ At(k, "createCsr")' => slot.exists /\ slot.key = w'.secret.key
         /\ At(k, "updateCert")' =>
              slot.exists /\ slot.key = w'.kc.status.kubeconfig.cert.key
         /\ Delivering(k)' => Pair(w'.kc.status.kubeconfig)
         /\ Finished(k, "True")' => Pair(kubeconfig'[k].status.kubeconfig)
<1> DEFINE s == secretOf(k)
           slot == secret'[secretOf(k)']
<1>1. VerdictInv /\ TypeOK /\ SecretsStaying'
  BY DEF DeliveryInv, VerdictInv, KeyCalm, SecretsStaying, Quiet
<1>2. ASSUME kubeconfig[k].exists
      PROVE  Unshared(k) /\ slot = secret'[s]
  BY <1>1, <1>2, SecretOf
<1>3. ASSUME w.pc # "idle", w.name = k
      PROVE  kubeconfig[k].exists /\ s = userSecretName
  BY <1>1, <1>3, WorkerSecret DEF Present
<1>4. ASSUME kubeconfig[k].exists, secret[s].exists, ~At(k, "updateKey")
      PROVE  slot.exists /\ slot.key = secret[s].key
  BY <1>1, <1>2, <1>4, KeyStays
<1> HIDE DEF slot
<1>5. ASSUME NEW c, c.exists,
             \/ c.key = csr[k].key /\ csr[k].exists
             \/ c = csrCache[k]
             \/ MadeByWorker(k, c)
      PROVE  slot.exists /\ slot.key = c.key
  <2>1. kubeconfig[k].exists
    BY <1>3, <1>5 DEF Keys, NoRequest, MadeByWorker
  <2>2. secret[s].exists /\ secret[s].key = c.key
    BY <1>2, <1>5, <2>1 DEF Keys, KeyOf, MadeByWorker, At
  <2>3. ~At(k, "updateKey")
    BY <1>5 DEF Keys, NoRequest, MadeByWorker, At
  <2> QED
    BY <1>4, <2>1, <2>2, <2>3
<1>6. KeyOf(slot, csr'[k])
  BY <1>1, <1>5, CsrComes DEF KeyOf
<1>7. KeyOf(slot, csrCache'[k])
  <2>1. csrCache'[k] = csrCache[k] \/ csrCache'[k] = csr[k]
    BY <1>1, AllMove DEF CacheMove
  <2> QED
    BY <1>5, <2>1 DEF KeyOf
<1>8. ASSUME w'.pc = "createCsr", w'.name = k
      PROVE  slot.exists /\ slot.key = w'.secret.key
  <2>1. CASE UNCHANGED w
    BY <1>2, <1>3, <1>4, <1>8, <2>1 DEF Keys, At
  <2>2. CASE StoresKey
    <3>1. /\ w.name = k /\ w.pc = "updateKey" /\ w'.secret = w.secret
          /\ w.secret.exists
      BY <1>8, <2>2 DEF StoresKey, Carries, WorkerSound
    <3>2. s = userSecretName /\ slot = secret'[s] /\ s \in SecretNames
      BY <1>1, <1>2, <1>3, <3>1, Busy
    <3>3. Current(w.secret, secret[s]) /\ secret'[s] = Stored(secret[s], w.secret)
      BY <1>1, <2>2, <3>2 DEF StoresKey, Stores, TypeOK, ApiTypeOK
    <3> HIDE DEF s
    <3> QED
      BY <1>1, <3>1, <3>2, <3>3, StoredKey
  <2> QED
    BY <1>1, <1>8, <2>1, <2>2, WorkerSteps
       DEF WorkerStep, Idle, TakesUp, FindsNoSecret, FindsSecret, MakesSecret, MakesKey,
           EndsWithout, Signs, StoresCert, MissesCrb, Completes, Carries
<1>9. ASSUME w'.pc = "updateCert", w'.name = k
      PROVE  slot.exists /\ slot.key = w'.kc.status.kubeconfig.cert.key
  <2>1. CASE UNCHANGED w
    BY <1>2, <1>3, <1>4, <1>9, <2>1 DEF Keys, At
  <2>2. CASE Signs
    <3>1. /\ w.pc = "getCsr" /\ w.name = k /\ csrCache[k].exists
          /\ w'.kc.status.kubeconfig.cert.key = csrCache[k].key
      BY <1>1, <1>9, <2>2, SignedKeys
    <3> QED
      BY <1>5, <3>1
  <2> QED
    BY <1>1, <1>9, <2>1, <2>2, WorkerSteps
       DEF WorkerStep, Idle, TakesUp, FindsNoSecret, FindsSecret, MakesSecret, MakesKey,
           StoresKey, EndsWithout, StoresCert, MissesCrb, Completes, Carries
<1>10. ASSUME Delivering(k)'
       PROVE  Pair(w'.kc.status.kubeconfig)
  <2>1. /\ w.name = k /\ w.pc # "idle"
        /\ w'.kc.status.kubeconfig = w.kc.status.kubeconfig
        /\ StoresCert \/ Delivering(k)
    BY <1>1, <1>10, DeliveringStep
  <2>2. Unshared(k) /\ s = userSecretName /\ s \in SecretNames
    BY <1>1, <1>2, <1>3, <2>1, Busy
  <2>3. CASE Delivering(k)
    BY <2>1, <2>2, <2>3 DEF Keys
  <2>4. CASE StoresCert
    <3>1. w.pc = "updateCert" /\ w.secret.exists
      BY <2>4 DEF StoresCert, Carries, WorkerSound
    <3>2. w.secret.key = secret[s].key
      BY <2>2, <2>4, <3>1 DEF StoresCert, Stores, Current, WorkerSound, KeyAgrees
    <3> QED
      BY <2>1, <2>2, <3>1, <3>2 DEF Keys, At, Pair
  <2> QED
    BY <2>1, <2>3, <2>4
<1>11. ASSUME Finished(k, "True")'
       PROVE  Pair(kubeconfig'[k].status.kubeconfig)
  BY <1>1, <1>2, <1>11, FinishedStep DEF Keys
<1> QED
  BY <1>6, <1>7, <1>8, <1>9, <1>10, <1>11 DEF At, slot

LEMMA KeysStep ==
  ASSUME DeliveryInv, WorkerSound, CsrCopies, SecretsOwned, Present, Keys,
         KubeconfigsStay, KeyCalm', [Next]_vars
  PROVE  Keys'
<1>1. TypeOK
  BY DEF DeliveryInv, VerdictInv
<1>2. ASSUME w'.pc = "updateCert"
      PROVE  LET file == w'.kc.status.kubeconfig
             IN file.key = w'.secret.key /\ file.cert.key # NoKey
  <2>1. CASE UNCHANGED w
    BY <1>2, <2>1 DEF Keys
  <2>2. CASE Signs
    BY <1>1, <2>2, SignedKeys
  <2> QED
    BY <1>1, <1>2, <2>1, <2>2, WorkerSteps
       DEF WorkerStep, Idle, TakesUp, FindsNoSecret, FindsSecret, MakesSecret, MakesKey,
           StoresKey, EndsWithout, StoresCert, MissesCrb, Completes, Carries
<1> QED
  BY <1>1, <1>2, NoRequestsStep, UnsharedKeysStep DEF Keys, NoRequest, KeyOf, Pair

-----------------------------------------------------------------------------
(* The whole invariant.                                                     *)

KeyInv ==
  /\ DeliveryInv
  /\ WorkerSound /\ SecretCopies /\ CsrCopies /\ Bindings
  /\ Staying => Present /\ SecretsOwned
  /\ VerdictCalm => CsrsOwned /\ Verdicts
  /\ SecretsStaying => Files
  /\ KeyCalm => Keys

LEMMA QuietEarlier ==
  ASSUME TypeOK, [Next]_vars
  PROVE  /\ Staying' => Staying
         /\ VerdictCalm' => VerdictCalm /\ Staying' /\ Quiet({"foreign"})'
         /\ SecretsStaying' => SecretsStaying /\ Staying'
         /\ KeyCalm' => KeyCalm /\ Staying' /\ SecretsStaying'
<1>1. /\ Staying' => Staying
      /\ VerdictCalm' => VerdictCalm
      /\ SecretsStaying' => SecretsStaying
      /\ KeyCalm' => KeyCalm
  BY CountsGrow DEF Staying, VerdictCalm, SecretsStaying, KeyCalm, Kinds
<1> QED
  BY <1>1 DEF Staying, VerdictCalm, SecretsStaying, KeyCalm, Quiet

LEMMA KeyStep == KeyInv /\ [Next]_vars => KeyInv'
<1> SUFFICES ASSUME KeyInv, [Next]_vars PROVE KeyInv'
  OBVIOUS
<1>1. /\ DeliveryInv /\ VerdictInv /\ TypeOK
      /\ WorkerSound /\ SecretCopies /\ CsrCopies /\ Bindings
  BY DEF KeyInv, DeliveryInv, VerdictInv
<1>2. DeliveryInv' /\ TypeOK'
  BY <1>1, VerdictStep, FileStep, TypeStep DEF DeliveryInv
<1>3. WorkerSound' /\ SecretCopies' /\ CsrCopies' /\ Bindings'
  BY <1>1, <1>2, WorkerSoundStep, SecretCopiesStep, CsrCopiesStep, BindingsStep
<1>4. Staying' => KubeconfigsStay /\ Present /\ SecretsOwned
  BY <1>1, AllStay, QuietEarlier DEF KeyInv
<1>5. Staying' => Present' /\ SecretsOwned'
  BY <1>1, <1>2, <1>4, PresentStep, SecretsOwnedStep
<1>6. VerdictCalm' => CsrsOwned' /\ Verdicts'
  BY <1>1, <1>4, QuietEarlier, CsrsOwnedStep, VerdictsStep DEF KeyInv
<1>7. SecretsStaying' => Files'
  BY <1>1, <1>4, QuietEarlier, FilesStep DEF KeyInv
<1>8. KeyCalm' => Keys'
  BY <1>1, <1>4, QuietEarlier, KeysStep DEF KeyInv
<1> QED
  BY <1>2, <1>3, <1>5, <1>6, <1>7, <1>8 DEF KeyInv

LEMMA KeyInit == Init => KeyInv
<1> SUFFICES ASSUME Init PROVE KeyInv
  OBVIOUS
<1>1. DeliveryInv /\ w = Idle /\ cw = CsrIdle
  BY DeliveryInit DEF Init
<1>2. /\ \A k \in Names : /\ kubeconfig[k] = NoKubeconfig
                          /\ csr[k] = NoCsr /\ csrCache[k] = NoCsr
      /\ \A s \in SecretNames : secret[s] = NoSecret /\ secretCache[s] = NoSecret
      /\ \A u \in Users : crbCache[u] = NoCrb
  BY DEF Init, ApiInit
<1>3. w.pc = "idle" /\ cw.pc = "idle"
  BY <1>1 DEF Idle, CsrIdle
<1>4. WorkerSound /\ SecretCopies
  BY <1>2, <1>3 DEF WorkerSound, SecretCopies, HasData, CopyOf, NoSecret
<1>5. CsrSound(NoCsr) /\ CopyOf(NoCsr, NoCsr)
  BY DEF CsrSound, CopyOf, NoCsr
<1>6. CsrCopies
  BY <1>2, <1>3, <1>5 DEF CsrCopies
<1>7. \A k \in Names : ~Finished(k, "True") /\ ~Finished(k, "False")
  <2>1. ~NoKubeconfig.exists
    BY DEF NoKubeconfig
  <2> QED
    BY <1>2, <2>1 DEF Finished
<1>8. Bindings
  BY <1>2, <1>3, <1>7 DEF Bindings, NoCrb
<1>9. Present /\ CsrsOwned /\ SecretsOwned
  BY <1>2, <1>3 DEF Present, CsrsOwned, SecretsOwned, OwnersLive, NoCsr, NoSecret
<1>10. Verdicts
  BY <1>2, <1>3, <1>7 DEF Verdicts, Older, NoCsr
<1>11. Files
  BY <1>3, <1>7 DEF Files, Delivering
<1>12. Keys
  BY <1>2, <1>3, <1>7 DEF Keys, NoRequest, KeyOf, At, Delivering, NoCsr
<1> QED
  BY <1>1, <1>4, <1>6, <1>8, <1>9, <1>10, <1>11, <1>12 DEF KeyInv

LEMMA KeySuffices ==
  KeyInv => VerdictFollowsCsr /\ DoneMeansDelivered /\ CsrKeyStored /\ KeyPairKept
<1> SUFFICES ASSUME KeyInv
             PROVE  VerdictFollowsCsr /\ DoneMeansDelivered
                    /\ CsrKeyStored /\ KeyPairKept
  OBVIOUS
<1>1. VerdictFollowsCsr
  <2>1. \A k \in Names : csr[k].cert # NoCert =>
          csr[k].approved # "no" /\ ~csr[k].denied
    BY DEF KeyInv, CsrCopies, CsrSound
  <2> QED
    BY <2>1 DEF KeyInv, VerdictCalm, Verdicts, Certified, VerdictFollowsCsr
<1>2. DoneMeansDelivered
  BY DEF KeyInv, SecretsStaying, Files, Bindings, Bound, Holds, DoneMeansDelivered
<1>3. CsrKeyStored /\ KeyPairKept
  BY DEF KeyInv, KeyCalm, Keys, KeyOf, Pair, CsrKeyStored, KeyPairKept
<1> QED
  BY <1>1, <1>2, <1>3

\* A Kubeconfig fails only if its CSR was denied or failed, and is done only with
\* the certificate of its CSR, which was approved and not denied, if no CSR and no
\* Kubeconfig is deleted and no stranger makes a CSR; whatever the caches missed and
\* whichever answers were lost in between.
THEOREM VerdictIsTheCsrs == Spec => []VerdictFollowsCsr
<1>1. Spec => []KeyInv
  BY KeyInit, KeyStep, PTL DEF Spec
<1>2. KeyInv => VerdictFollowsCsr
  BY KeySuffices
<1> QED
  BY <1>1, <1>2, PTL

\* What the status of a finished Kubeconfig shows, its secret holds, and the user
\* has a role binding: no other reconcile writes the secret, and the controller
\* creates the binding, or has seen it, before it says so.
THEOREM DeliveryIsKept == Spec => []DoneMeansDelivered
<1>1. Spec => []KeyInv
  BY KeyInit, KeyStep, PTL DEF Spec
<1>2. KeyInv => DoneMeansDelivered
  BY KeySuffices
<1> QED
  BY <1>1, <1>2, PTL

\* The private key of a CSR that exists is in the secret: it is stored before the
\* CSR is created, and no reconcile makes another while the CSR is there.
THEOREM KeyIsStored == Spec => []CsrKeyStored
<1>1. Spec => []KeyInv
  BY KeyInit, KeyStep, PTL DEF Spec
<1>2. KeyInv => CsrKeyStored
  BY KeySuffices
<1> QED
  BY <1>1, <1>2, PTL

\* Key and certificate of a delivered file are a pair, although one comes from the
\* cached secret and the other from the cached CSR: the update of the secret fails
\* if the copy with the key is not the stored one.
THEOREM KeyPairIsKept == Spec => []KeyPairKept
<1>1. Spec => []KeyInv
  BY KeyInit, KeyStep, PTL DEF Spec
<1>2. KeyInv => KeyPairKept
  BY KeySuffices
<1> QED
  BY <1>1, <1>2, PTL
=============================================================================
