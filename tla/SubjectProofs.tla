---------------------------- MODULE SubjectProofs ----------------------------
(***************************************************************************)
(* Who is served, and from where: proofs of SubjectKept, of RoleAsked and  *)
(* of ServerFound for any value of the constants.                          *)
(*                                                                         *)
(* The first two are about runs in which nothing is edited or deleted.  A  *)
(* Kubeconfig then keeps its spec, and so does the copy a worker carries   *)
(* (Settled).  The username travels from there into the CSR, through the   *)
(* cache, the approving worker and the signer into the certificate, and    *)
(* with it into the file.                                                  *)
(*                                                                         *)
(* The third is about the webhook: what a lookup finds is published by     *)
(* cluster-info, or was when something else was cached.  With it goes what *)
(* the webhook's file format promises: a Config survives being written.    *)
(***************************************************************************)
EXTENDS DeliveryProofs, ApprovalProofs, WellFoundedInduction

Settled ==
  w.pc # "idle" => /\ kubeconfig[w.name].exists
                   /\ kubeconfig[w.name].spec = w.kc.spec

\* The Kubeconfig kc is for this user.
IsFor(kc, user) == kc.exists /\ kc.spec.username = user

\* So is its CSR c, and the certificate.
SubjectOf(kc, c) ==
  /\ c.exists => IsFor(kc, c.cn)
  /\ c.cert # NoCert => IsFor(kc, c.cert.cn)

SubjectsOf ==
  /\ \A k \in Names : /\ SubjectOf(kubeconfig[k], csr[k])
                      /\ SubjectOf(kubeconfig[k], csrCache[k])
  /\ cw.pc # "idle" => SubjectOf(kubeconfig[cw.name], cw.csr)
  /\ w.pc # "idle" /\ Delivers(w) =>
       w.kc.status.kubeconfig.cert.cn = w.kc.spec.username
  /\ \A k \in Names : Finished(k, "True") =>
       LET file == kubeconfig[k].status.kubeconfig IN file.cert.cn = file.user

RolesOf ==
  \A u \in Users : crb[u].exists =>
    \E k \in Names : IsFor(kubeconfig[k], u) /\ kubeconfig[k].spec.roleRef = crb[u].role

Calm == Quiet({"edit", "delete"})
NoStrangers == Quiet({"edit", "foreign", "delete"})

SubjectInv ==
  /\ DeliveryInv
  /\ Calm => Settled /\ RolesOf
  /\ NoStrangers => SubjectsOf

LEMMA CalmFirst == NoStrangers => Calm
BY DEF NoStrangers, Calm, Quiet

LEMMA SubjectSuffices == SubjectInv => SubjectKept /\ RoleAsked
<1> SUFFICES ASSUME SubjectInv PROVE SubjectKept /\ RoleAsked
  OBVIOUS
<1>1. SubjectKept
  BY DEF SubjectInv, SubjectKept, NoStrangers, SubjectsOf
<1>2. RoleAsked
  BY DEF SubjectInv, RoleAsked, Calm, RolesOf, IsFor
<1> QED
  BY <1>1, <1>2

-----------------------------------------------------------------------------
(* Nothing that is counted becomes uncounted, and while it is calm every    *)
(* Kubeconfig stays what it is.                                             *)

LEMMA EventsAreCounted ==
  ASSUME [Next]_vars
  PROVE  UNCHANGED used \/ \E kinds : Spend(kinds)
<1>1. CASE UserNext
  BY <1>1, Zenon DEF UserNext, CreateKubeconfig, UpdateKubeconfig, DeleteKubeconfig
<1>2. CASE ClusterNext \/ CsrNext \/ Crash \/ Panic \/ UNCHANGED vars
  BY <1>2, Zenon
     DEF ClusterNext, CsrNext, Crash, Panic, Restart, vars, Answer,
         SyncSecret, SyncCsr, SyncCrb, Resync, AdminApprove, AdminDeny, SignerIssue,
         SignerFail, CsrGone, CollectCsr, ForeignCsr, SecretGone, CollectSecret,
         ProvideSecret, SyncClusterInfo, PublishClusterInfo, GetCsrToApprove,
         ApproveCSR
<1>3. CASE ReconcilerNext
  BY <1>3, Zenon
     DEF ReconcilerNext, Reads, Writes, GetKubeconfig, GetExistingSecret,
         GetUserSecret, GetCrb, GetCsrNotFound, GetCsrRejected, GetCsrPending,
         GetCsrUnsigned, GetCsrSigned, CreateUserSecret, UpdateSecretKey, CreateCsr,
         UpdateSecretCert, CreateCrb, UpdateStatus, UpdateSecret, Answer
<1> QED
  BY <1>1, <1>2, <1>3 DEF Next

LEMMA CountsGrow ==
  ASSUME TypeOK, [Next]_vars, NEW kinds \in SUBSET Kinds
  PROVE  Quiet(kinds)' => Quiet(kinds)
<1>1. \A i \in Kinds : /\ used[i] \in Nat
                       /\ used'[i] = used[i] \/ used'[i] = used[i] + 1
  BY EventsAreCounted DEF Spend, TypeOK, ApiTypeOK
<1> QED
  BY <1>1 DEF Quiet

LEMMA Spent ==
  ASSUME TypeOK, NEW kinds, Spend(kinds), NEW i \in Kinds, i \in kinds
  PROVE  used'[i] # 0
BY DEF Spend, TypeOK, ApiTypeOK

LEMMA QuietBefore ==
  ASSUME TypeOK, [Next]_vars
  PROVE  (Calm' => Calm) /\ (NoStrangers' => NoStrangers)
BY CountsGrow DEF Calm, NoStrangers, Kinds

\* Only users change what Kubeconfigs there are and what they ask for.
SpecKept == \A k \in Names : /\ kubeconfig'[k].exists = kubeconfig[k].exists
                             /\ kubeconfig'[k].spec = kubeconfig[k].spec

LEMMA OthersKeepSpecs ==
  ASSUME VerdictInv, [Next]_vars, ~UserNext
  PROVE  SpecKept
<1>0. TypeOK /\ kubeconfig \in [Names -> KubeconfigSlot]
  BY DEF VerdictInv, TypeOK, ApiTypeOK
<1>1. ASSUME NEW reply \in Reply, UpdateStatus(reply)
      PROVE  SpecKept
  <2> DEFINE old == kubeconfig[w.name]
  <2>1. \/ UNCHANGED kubeconfig
        \/ KubeconfigMove(w.name)
    BY <1>1, StatusMoves
  <2>2. w.name \in Names /\ old \in KubeconfigSlot
    BY <1>0, <1>1, Busy DEF UpdateStatus
  <2>3. \/ kubeconfig'[w.name] = old
        \/ kubeconfig'[w.name] = Stored(old, [old EXCEPT !.status =
                                                 Persisted(w.kc.status)])
    BY <1>0, <1>1, <2>2 DEF UpdateStatus
  <2>4. kubeconfig'[w.name].exists = old.exists /\ kubeconfig'[w.name].spec = old.spec
    BY <2>2, <2>3 DEF Stored, KubeconfigSlot
  <2> QED
    BY <2>1, <2>4 DEF SpecKept, KubeconfigMove
<1>2. CASE UNCHANGED kubeconfig
  BY <1>2 DEF SpecKept
<1>3. CASE ReconcilerNext /\ ~\E reply \in Reply : UpdateStatus(reply)
  BY <1>2, <1>3
     DEF ReconcilerNext, Reads, Writes, GetKubeconfig, GetExistingSecret,
         GetUserSecret, GetCrb, GetCsrNotFound, GetCsrRejected, GetCsrPending,
         GetCsrUnsigned, GetCsrSigned, CreateUserSecret, UpdateSecretKey, CreateCsr,
         UpdateSecretCert, CreateCrb, UpdateSecret, OnlyReads, stored
<1>4. CASE ClusterNext \/ CsrNext \/ Crash \/ Panic \/ UNCHANGED vars
  BY <1>2, <1>4
     DEF ClusterNext, CsrNext, Crash, Panic, Restart, vars, stored,
         SyncSecret, SyncCsr, SyncCrb, Resync, AdminApprove, AdminDeny, SignerIssue,
         SignerFail, CsrGone, CollectCsr, ForeignCsr, SecretGone, CollectSecret,
         ProvideSecret, ChangeCsr, ChangeSecret, SyncClusterInfo, PublishClusterInfo,
         GetCsrToApprove, ApproveCSR
<1> QED
  BY <1>1, <1>3, <1>4 DEF Next

SpecsStay ==
  \A k \in Names : kubeconfig[k].exists =>
    kubeconfig'[k].exists /\ kubeconfig'[k].spec = kubeconfig[k].spec

LEMMA CalmSpecs ==
  ASSUME VerdictInv, [Next]_vars, Calm'
  PROVE  SpecsStay
<1>0. /\ TypeOK /\ kubeconfig \in [Names -> KubeconfigSlot]
      /\ used \in [Kinds -> Nat]
  BY DEF VerdictInv, TypeOK, ApiTypeOK
<1>1. CASE UserNext
  <2>1. ASSUME NEW i \in {"edit", "delete"}, NEW kinds, Spend(kinds), i \in kinds
        PROVE  FALSE
    <3>1. used[i] \in Nat /\ used'[i] = used[i] + 1
      BY <1>0, <2>1 DEF Spend, Kinds
    <3> QED
      BY <2>1, <3>1 DEF Calm, Quiet
  <2>2. PICK k \in Names, spec \in Requests, lookup \in Lookup :
          CreateKubeconfig(k, spec, lookup)
    <3>1. ASSUME NEW k \in Names, DeleteKubeconfig(k) PROVE FALSE
      BY <2>1, <3>1 DEF DeleteKubeconfig
    <3>2. ASSUME NEW k \in Names, NEW spec \in Requests, NEW lookup \in Lookup,
                 UpdateKubeconfig(k, spec, lookup)
          PROVE  FALSE
      <4>1. Spend({"edit"} \cup LookupCost(lookup))
        BY <3>2 DEF UpdateKubeconfig
      <4>2. "edit" \in {"edit"} \cup LookupCost(lookup)
        OBVIOUS
      <4> QED
        BY <2>1, <4>1, <4>2
    <3> QED
      BY <1>1, <3>1, <3>2 DEF UserNext
  <2>3. ~kubeconfig[k].exists /\ \A j \in Names \ {k} : kubeconfig'[j] = kubeconfig[j]
    BY <1>0, <2>2 DEF CreateKubeconfig, AdmitKubeconfig
  <2> QED
    BY <2>3 DEF SpecsStay
<1>2. CASE ~UserNext
  BY <1>2, OthersKeepSpecs DEF SpecKept, SpecsStay
<1> QED
  BY <1>1, <1>2

LEMMA SettledStep ==
  ASSUME SubjectInv, [Next]_vars, Calm'
  PROVE  Settled'
<1>1. VerdictInv /\ TypeOK /\ Settled /\ SpecsStay
  BY QuietBefore, CalmSpecs DEF SubjectInv, DeliveryInv, VerdictInv
<1>2. CASE SameCopy
  <2> SUFFICES ASSUME w'.pc # "idle"
               PROVE  /\ kubeconfig'[w'.name].exists
                      /\ kubeconfig'[w'.name].spec = w'.kc.spec
    BY DEF Settled
  <2>1. w.pc # "idle" /\ w'.name = w.name /\ w'.kc.spec = w.kc.spec
    BY <1>2 DEF SameCopy
  <2>2. w.name \in Names
    BY <1>1, <2>1, Busy
  <2> QED
    BY <1>1, <2>1, <2>2 DEF Settled, SpecsStay
<1>3. ASSUME NEW k \in Names, GetKubeconfig(k)
      PROVE  Settled'
  <2>1. UNCHANGED kubeconfig
    BY <1>3 DEF GetKubeconfig, OnlyReads, stored
  <2>2. CASE UNCHANGED w
    BY <1>1, <2>1, <2>2 DEF Settled
  <2>3. CASE /\ kubeconfig[k].exists
             /\ w' = [Idle EXCEPT !.pc = "getSecret", !.name = k, !.kc = kubeconfig[k]]
    <3>1. w' = [pc |-> "getSecret", name |-> k, kc |-> kubeconfig[k],
                secret |-> NoSecret, requeue |-> FALSE]
      BY <2>3 DEF Idle
    <3> QED
      BY <2>1, <2>3, <3>1 DEF Settled
  <2> QED
    BY <1>3, <2>2, <2>3 DEF GetKubeconfig
<1> QED
  BY <1>1, <1>2, <1>3, UserKeepsVerdicts, ReconcilerKeepsVerdicts, OthersKeepVerdicts
     DEF Next, ReconcilerNext

-----------------------------------------------------------------------------
(* Bindings.                                                                *)

LEMMA BindingMoves ==
  ASSUME [Next]_vars
  PROVE  UNCHANGED crb \/ \E reply \in Reply : CreateCrb(reply)
<1>1. CASE ReconcilerNext
  BY <1>1, Zenon
     DEF ReconcilerNext, Reads, Writes, GetKubeconfig, GetExistingSecret,
         GetUserSecret, GetCrb, GetCsrNotFound, GetCsrRejected, GetCsrPending,
         GetCsrUnsigned, GetCsrSigned, CreateUserSecret, UpdateSecretKey, CreateCsr,
         UpdateSecretCert, UpdateStatus, UpdateSecret, OnlyReads, stored
<1>2. CASE UserNext \/ ClusterNext \/ CsrNext \/ Crash \/ Panic \/ UNCHANGED vars
  BY <1>2
     DEF UserNext, CreateKubeconfig, UpdateKubeconfig, DeleteKubeconfig,
         AdmitKubeconfig, ClusterNext, CsrNext, Crash, Panic, Restart, vars, stored,
         SyncSecret, SyncCsr, SyncCrb, Resync, AdminApprove, AdminDeny, SignerIssue,
         SignerFail, CsrGone, CollectCsr, ForeignCsr, SecretGone, CollectSecret,
         ProvideSecret, ChangeCsr, ChangeSecret, SyncClusterInfo, PublishClusterInfo,
         GetCsrToApprove, ApproveCSR
<1> QED
  BY <1>1, <1>2 DEF Next

LEMMA RolesStep ==
  ASSUME SubjectInv, [Next]_vars, Calm'
  PROVE  RolesOf'
<1>1. TypeOK /\ VerdictInv /\ Settled /\ RolesOf /\ SpecsStay
  BY QuietBefore, CalmSpecs DEF SubjectInv, DeliveryInv, VerdictInv
<1>2. \A u \in Users : crb[u].exists =>
        \E k \in Names : IsFor(kubeconfig'[k], u) /\ kubeconfig'[k].spec.roleRef = crb[u].role
  BY <1>1 DEF RolesOf, IsFor, SpecsStay
<1>3. CASE UNCHANGED crb
  BY <1>2, <1>3 DEF RolesOf
<1>4. ASSUME NEW reply \in Reply, CreateCrb(reply)
      PROVE  RolesOf'
  <2> DEFINE u == w.kc.spec.username
             made == createClusterRoleBinding(w.kc)
             new == Created(crb[u], made)
  <2>1. w.pc # "idle" /\ w.name \in Names /\ w.kc.spec \in StoredSpec
    BY <1>1, <1>4, Busy DEF CreateCrb
  <2>2. new.role = w.kc.spec.roleRef
    BY DEF Created, createClusterRoleBinding, NoCrb
  <2>3. crb' = crb \/ crb' = [crb EXCEPT ![u] = new]
    BY <1>4 DEF CreateCrb
  <2>4. IsFor(kubeconfig'[w.name], u) /\ kubeconfig'[w.name].spec.roleRef = w.kc.spec.roleRef
    BY <1>1, <2>1 DEF Settled, SpecsStay, IsFor
  <2> HIDE DEF new
  <2>5. crb \in [Users -> CrbSlot]
    BY <1>1 DEF TypeOK, ApiTypeOK
  <2>6. CASE crb' = [crb EXCEPT ![u] = new]
    <3> SUFFICES ASSUME NEW v \in Users, crb'[v].exists
                 PROVE  \E k \in Names : IsFor(kubeconfig'[k], v)
                          /\ kubeconfig'[k].spec.roleRef = crb'[v].role
      BY DEF RolesOf, IsFor
    <3>1. CASE v = u
      BY <2>1, <2>2, <2>4, <2>5, <2>6, <3>1
    <3>2. CASE v # u
      BY <1>2, <2>5, <2>6, <3>2
    <3> QED
      BY <3>1, <3>2
  <2> QED
    BY <1>3, <2>3, <2>6
<1> QED
  BY <1>3, <1>4, BindingMoves

-----------------------------------------------------------------------------
(* Requests and certificates.                                               *)

LEMMA SubjectStays ==
  ASSUME SpecsStay, NEW k \in Names, NEW c, SubjectOf(kubeconfig[k], c)
  PROVE  SubjectOf(kubeconfig'[k], c)
BY DEF SubjectOf, IsFor, SpecsStay

\* A rewritten CSR keeps its subject and its certificate.
LEMMA SubjectKeptByWrite ==
  ASSUME NEW kc, NEW slot, NEW d \in CsrSlot,
         slot.exists, d.cn = slot.cn, d.cert = slot.cert, SubjectOf(kc, slot)
  PROVE  SubjectOf(kc, Stored(slot, d))
<1>1. \/ Stored(slot, d) = slot
      \/ Stored(slot, d).cn = d.cn /\ Stored(slot, d).cert = d.cert
  BY DEF Stored, CsrSlot
<1> QED
  BY <1>1 DEF SubjectOf

LEMMA CsrSubjects ==
  ASSUME SubjectInv, [Next]_vars, NoStrangers'
  PROVE  \A k \in Names : SubjectOf(kubeconfig'[k], csr'[k])
<1>1. /\ TypeOK /\ Settled /\ SubjectsOf /\ SpecsStay
      /\ csr \in [Names -> CsrSlot] /\ used \in [Kinds -> Nat]
  BY QuietBefore, CalmSpecs, CalmFirst
     DEF SubjectInv, DeliveryInv, VerdictInv, TypeOK, ApiTypeOK, NoStrangers, Calm,
         Quiet
<1>2. \A k \in Names : SubjectOf(kubeconfig[k], csr[k])
  BY <1>1 DEF SubjectsOf
<1>3. \A k \in Names : SubjectOf(kubeconfig'[k], csr[k])
  BY <1>1, <1>2, SubjectStays
<1>4. CASE UNCHANGED csr
  BY <1>3, <1>4
<1>5. ASSUME NEW k \in Names, NEW c, csr' = [csr EXCEPT ![k] = c],
             SubjectOf(kubeconfig'[k], c)
      PROVE  \A j \in Names : SubjectOf(kubeconfig'[j], csr'[j])
  BY <1>1, <1>3, <1>5
<1>6. ASSUME NEW k \in Names, AdminApprove(k) \/ AdminDeny(k) \/ SignerFail(k)
      PROVE  \A j \in Names : SubjectOf(kubeconfig'[j], csr'[j])
  <2>1. PICK d : /\ csr' = [csr EXCEPT ![k] = Stored(csr[k], d)]
                 /\ \/ d = [csr[k] EXCEPT !.approved = "admin"]
                    \/ d = [csr[k] EXCEPT !.denied = TRUE]
                    \/ d = [csr[k] EXCEPT !.failed = TRUE]
    BY <1>6 DEF AdminApprove, AdminDeny, SignerFail, ChangeCsr
  <2>2. csr[k].exists
    BY <1>6 DEF AdminApprove, AdminDeny, SignerFail, Undecided, Signable
  <2>3. d \in CsrSlot /\ d.cn = csr[k].cn /\ d.cert = csr[k].cert
    BY <1>1, <2>1 DEF CsrSlot
  <2>4. SubjectOf(kubeconfig'[k], Stored(csr[k], d))
    BY <1>3, <2>2, <2>3, SubjectKeptByWrite
  <2> QED
    BY <1>5, <2>1, <2>4
<1>7. ASSUME NEW k \in Names, SignerIssue(k)
      PROVE  \A j \in Names : SubjectOf(kubeconfig'[j], csr'[j])
  <2> DEFINE d == [csr[k] EXCEPT !.cert = [key |-> csr[k].key, cn |-> csr[k].cn]]
             new == Stored(csr[k], d)
  <2>1. csr[k].exists /\ csr[k] \in CsrSlot
    BY <1>1, <1>7 DEF SignerIssue, Signable
  <2>2. d.cn = csr[k].cn /\ d.cert.cn = csr[k].cn /\ d \in CsrSlot
    BY <2>1 DEF CsrSlot, Certificate
  <2>3. csr' = [csr EXCEPT ![k] = new]
    BY <1>7 DEF SignerIssue, ChangeCsr
  <2> HIDE DEF d
  <2>4. new = csr[k] \/ (new.cn = d.cn /\ new.cert = d.cert)
    BY <2>2 DEF Stored, CsrSlot
  <2>5. SubjectOf(kubeconfig'[k], new)
    BY <1>3, <2>1, <2>2, <2>4 DEF SubjectOf
  <2> HIDE DEF new
  <2> QED
    BY <1>5, <2>3, <2>5
<1>8. ASSUME NEW k \in Names, CsrGone(k) \/ CollectCsr(k)
      PROVE  \A j \in Names : SubjectOf(kubeconfig'[j], csr'[j])
  <2>1. csr' = [csr EXCEPT ![k] = RemovedCsr(csr[k])]
    BY <1>8 DEF CsrGone, CollectCsr, ChangeCsr
  <2>2. csr[k] \in CsrSlot
    BY <1>1 DEF TypeOK, ApiTypeOK
  <2>3. SubjectOf(kubeconfig'[k], RemovedCsr(csr[k]))
    BY <2>2, RemovedCsrFields DEF SubjectOf
  <2> QED
    BY <1>5, <2>1, <2>3
<1>9. ASSUME NEW k \in Names, NEW annotated \in BOOLEAN, NEW owners \in SUBSET References,
             ForeignCsr(k, annotated, owners)
      PROVE  FALSE
  <2>1. used["foreign"] \in Nat /\ used'["foreign"] = used["foreign"] + 1
    BY <1>1, <1>9 DEF ForeignCsr, Spend, Kinds
  <2> QED
    BY <2>1 DEF NoStrangers, Quiet
<1>10. ASSUME NEW reply \in Reply, CreateCsr(reply)
       PROVE  \A j \in Names : SubjectOf(kubeconfig'[j], csr'[j])
  <2> DEFINE asked == createCsr(w.name, w.kc, w.secret.key)
             new == Created(csr[w.name], asked)
  <2>1. w.pc # "idle" /\ w.name \in Names
    BY <1>1, <1>10, Busy DEF CreateCsr
  <2>2. asked.cert = NoCert /\ asked.cn = w.kc.spec.username
    BY DEF createCsr, NoCsr
  <2>3. asked \in CsrSlot
    BY <1>1, <2>1, RequestTypes
  <2> HIDE DEF asked
  <2>4. new.cert = NoCert /\ new.cn = w.kc.spec.username
    BY <2>2, <2>3 DEF Created, CsrSlot
  <2>5. IsFor(kubeconfig'[w.name], w.kc.spec.username)
    BY <1>1, <2>1 DEF Settled, SpecsStay, IsFor
  <2>6. csr' = csr \/ csr' = [csr EXCEPT ![w.name] = new]
    BY <1>10 DEF CreateCsr, asked
  <2>7. SubjectOf(kubeconfig'[w.name], new)
    BY <2>4, <2>5 DEF SubjectOf
  <2> HIDE DEF new
  <2> QED
    BY <1>4, <1>5, <2>1, <2>6, <2>7
<1>11. ASSUME NEW reply \in Reply, ApproveCSR(reply)
       PROVE  \A j \in Names : SubjectOf(kubeconfig'[j], csr'[j])
  <2> DEFINE d == setStatusCondition(cw.csr)
             new == Stored(csr[cw.name], d)
  <2>1. /\ cw.name \in Names /\ cw.csr \in CsrSlot
        /\ SubjectOf(kubeconfig[cw.name], cw.csr)
    BY <1>1, <1>11 DEF ApproveCSR, TypeOK, CsrTypeOK, CsrWorker, SubjectsOf
  <2>2. SubjectOf(kubeconfig'[cw.name], cw.csr)
    BY <1>1, <2>1, SubjectStays
  <2>3. /\ d.exists = cw.csr.exists /\ d.cn = cw.csr.cn /\ d.cert = cw.csr.cert
        /\ d \in CsrSlot
    BY <2>1 DEF setStatusCondition, CsrSlot
  <2> HIDE DEF d
  <2>4. \/ new = csr[cw.name]
        \/ new.exists = d.exists /\ new.cn = d.cn /\ new.cert = d.cert
    BY <2>3 DEF Stored, CsrSlot
  <2>5. SubjectOf(kubeconfig'[cw.name], new)
    BY <1>3, <2>1, <2>2, <2>3, <2>4 DEF SubjectOf
  <2>6. csr' = csr \/ csr' = [csr EXCEPT ![cw.name] = new]
    BY <1>11 DEF ApproveCSR, d
  <2> HIDE DEF new
  <2> QED
    BY <1>4, <1>5, <2>1, <2>5, <2>6
<1>12. CASE UserNext \/ Crash \/ Panic \/ UNCHANGED vars
  BY <1>4, <1>12 DEF UserNext, CreateKubeconfig, UpdateKubeconfig, DeleteKubeconfig,
                     AdmitKubeconfig, Crash, Panic, Restart, vars, stored
<1>13. CASE CsrNext
  BY <1>4, <1>11, <1>13 DEF CsrNext, GetCsrToApprove, stored
<1>14. CASE ReconcilerNext
  <2>1. UNCHANGED csr \/ \E reply \in Reply : CreateCsr(reply)
    BY <1>14
       DEF ReconcilerNext, Reads, Writes, GetKubeconfig, GetExistingSecret,
           GetUserSecret, GetCrb, GetCsrNotFound, GetCsrRejected, GetCsrPending,
           GetCsrUnsigned, GetCsrSigned, CreateUserSecret, UpdateSecretKey,
           UpdateSecretCert, CreateCrb, UpdateStatus, UpdateSecret, OnlyReads, stored
  <2> QED
    BY <1>4, <1>10, <2>1
<1>15. CASE ClusterNext
  <2>1. \/ UNCHANGED csr
        \/ \E k \in Names :
             \/ AdminApprove(k) \/ AdminDeny(k) \/ SignerFail(k) \/ SignerIssue(k)
             \/ CsrGone(k) \/ CollectCsr(k)
             \/ \E annotated \in BOOLEAN, owners \in SUBSET References :
                  ForeignCsr(k, annotated, owners)
    BY <1>15 DEF ClusterNext, SyncSecret, SyncCsr, SyncCrb, Resync, SecretGone,
                 CollectSecret, ProvideSecret, ChangeSecret, SyncClusterInfo,
                 PublishClusterInfo, stored
  <2> QED
    BY <1>4, <1>6, <1>7, <1>8, <1>9, <2>1
<1> QED
  BY <1>12, <1>13, <1>14, <1>15 DEF Next

-----------------------------------------------------------------------------

LEMMA SubjectsStep ==
  ASSUME SubjectInv, [Next]_vars, NoStrangers'
  PROVE  SubjectsOf'
<1>1. /\ TypeOK /\ VerdictInv /\ FileAsAsked /\ Settled /\ SubjectsOf
      /\ SpecsStay /\ TypeOK'
  BY QuietBefore, CalmSpecs, CalmFirst, TypeStep
     DEF SubjectInv, DeliveryInv, VerdictInv, NoStrangers, Calm, Quiet
<1>2. CacheMove /\ ApproverMove
  BY <1>1, AllMove
<1>3. \A k \in Names : /\ SubjectOf(kubeconfig'[k], csr'[k])
                      /\ SubjectOf(kubeconfig'[k], csrCache'[k])
  <2>1. \A k \in Names : /\ SubjectOf(kubeconfig'[k], csr[k])
                        /\ SubjectOf(kubeconfig'[k], csrCache[k])
    BY <1>1, SubjectStays DEF SubjectsOf
  <2> QED
    BY <1>2, <2>1, CsrSubjects DEF CacheMove
<1>4. cw'.pc # "idle" => SubjectOf(kubeconfig'[cw'.name], cw'.csr)
  <2>1. CASE UNCHANGED cw
    <3>1. cw.pc # "idle" => cw.name \in Names
      BY <1>1 DEF TypeOK, CsrTypeOK
    <3> QED
      BY <1>1, <2>1, <3>1, SubjectStays DEF SubjectsOf
  <2>2. CASE cw' = CsrIdle
    BY <2>2 DEF CsrIdle
  <2>3. CASE \E k \in Names : cw'.name = k /\ cw'.csr = csrCache[k]
    BY <1>1, <2>3, SubjectStays DEF SubjectsOf
  <2> QED
    BY <1>2, <2>1, <2>2, <2>3 DEF ApproverMove
<1>5. ASSUME w'.pc # "idle", Delivers(w')
      PROVE  w'.kc.status.kubeconfig.cert.cn = w'.kc.spec.username
  <2>1. CASE UNCHANGED w \/ Continues
    BY <1>1, <1>5, <2>1 DEF Continues, SubjectsOf
  <2>2. CASE Templates
    <3>1. /\ w.pc # "idle" /\ w.name \in Names /\ w.secret \in SecretSlot
          /\ csrCache[w.name].cert # NoCert
      BY <1>1, <2>2, Busy DEF Templates
    <3>2. [w.secret EXCEPT !.cert = csrCache[w.name].cert].cert = csrCache[w.name].cert
      BY <3>1 DEF SecretSlot
    <3>3. w'.kc.status.kubeconfig.cert = csrCache[w.name].cert
      BY <2>2, <3>2 DEF Templates, createKubeconfig
    <3>4. IsFor(kubeconfig[w.name], csrCache[w.name].cert.cn)
      BY <1>1, <3>1 DEF SubjectsOf, SubjectOf
    <3> QED
      BY <1>1, <2>2, <3>1, <3>3, <3>4 DEF Templates, Settled, IsFor
  <2>3. CASE FindsRejected \/ Begins
    BY <1>5, <2>3 DEF FindsRejected, Begins
  <2>4. VerdictMove
    BY <1>1, VerdictMoves
  <2> QED
    BY <1>5, <2>1, <2>2, <2>3, <2>4 DEF VerdictMove
<1>6. ASSUME NEW k \in Names, kubeconfig'[k].exists,
             kubeconfig'[k].status.KubeconfigFinished = "True"
      PROVE  LET file == kubeconfig'[k].status.kubeconfig IN file.cert.cn = file.user
  <2>1. CASE kubeconfig'[k] = kubeconfig[k]
    BY <1>1, <1>6, <2>1 DEF SubjectsOf, Finished
  <2>2. CASE VerdictWritten(k)
    <3>1. w.pc # "idle" /\ w.kc.status \in KubeconfigStatus
      BY <1>1, <2>2, Busy DEF VerdictWritten
    <3>2. /\ kubeconfig'[k].status.kubeconfig = w.kc.status.kubeconfig
          /\ w.kc.status.KubeconfigFinished = "True"
      BY <1>6, <2>2, <3>1, PersistedFields DEF VerdictWritten
    <3> QED
      BY <1>1, <3>1, <3>2 DEF SubjectsOf, FileAsAsked, Delivers
  <2>3. CASE VerdictKept(k)
    <3>1. NoStatus.KubeconfigFinished = "Absent"
      BY DEF NoStatus
    <3> QED
      BY <1>1, <1>6, <2>3, <3>1 DEF VerdictKept, SubjectsOf, Finished
  <2> QED
    BY <1>1, <2>1, <2>2, <2>3, KubeconfigMoves DEF KubeconfigMove
<1> QED
  BY <1>3, <1>4, <1>5, <1>6 DEF SubjectsOf, Delivers, Finished

LEMMA SubjectInit == Init => SubjectInv
<1> SUFFICES ASSUME Init PROVE SubjectInv
  OBVIOUS
<1>1. DeliveryInv /\ w.pc = "idle" /\ cw.pc = "idle"
  BY DeliveryInit DEF Init, Idle, CsrIdle
<1>2. /\ \A k \in Names : /\ kubeconfig[k] = NoKubeconfig
                          /\ csr[k] = NoCsr /\ csrCache[k] = NoCsr
      /\ \A u \in Users : crb[u] = NoCrb
  BY DEF Init, ApiInit
<1>3. /\ ~NoKubeconfig.exists /\ ~NoCrb.exists /\ ~NoCsr.exists
      /\ NoCsr.cert = NoCert
  BY DEF NoKubeconfig, NoCrb, NoCsr
<1> QED
  BY <1>1, <1>2, <1>3
     DEF SubjectInv, Settled, RolesOf, SubjectsOf, SubjectOf, Finished

LEMMA SubjectStep == SubjectInv /\ [Next]_vars => SubjectInv'
<1> SUFFICES ASSUME SubjectInv, [Next]_vars PROVE SubjectInv'
  OBVIOUS
<1>1. DeliveryInv'
  BY VerdictStep, FileStep DEF SubjectInv, DeliveryInv
<1>2. Calm' => Settled' /\ RolesOf'
  BY SettledStep, RolesStep
<1>3. NoStrangers' => SubjectsOf'
  BY SubjectsStep
<1> QED
  BY <1>1, <1>2, <1>3 DEF SubjectInv

\* While no username is edited and no CSR of a stranger takes a name, the
\* certificate that is delivered is for the user the file names, although it came
\* through the cache, the approving worker and the signer, and the worker's copy
\* may have been overtaken meanwhile.
THEOREM SubjectIsKept == Spec => []SubjectKept
<1>1. Spec => []SubjectInv
  BY SubjectInit, SubjectStep, PTL DEF Spec
<1>2. SubjectInv => SubjectKept
  BY SubjectSuffices
<1> QED
  BY <1>1, <1>2, PTL

\* Whoever wins the race to create the binding of a user, it grants a role that a
\* Kubeconfig of that user asks for.
THEOREM RoleIsAsked == Spec => []RoleAsked
<1>1. Spec => []SubjectInv
  BY SubjectInit, SubjectStep, PTL DEF Spec
<1>2. SubjectInv => RoleAsked
  BY SubjectSuffices
<1> QED
  BY <1>1, <1>2, PTL

-----------------------------------------------------------------------------
(* The file format: a Config comes back from its file, whatever its maps     *)
(* hold and in whatever order they are written.                             *)

IsMap(map) == map = [n \in DOMAIN map |-> map[n]]

\* What NewBareConfig makes, with its maps filled and its fields set.
IsConfig(config) ==
  /\ config = [apiVersion |-> "v1", kind |-> "Config",
               preferences |-> config.preferences,
               currentContext |-> config.currentContext,
               maps |-> [s \in Sections |-> config.maps[s]]]
  /\ \A s \in Sections : IsMap(config.maps[s])

LEMMA BareIsConfig == IsConfig(NewBareConfig)
BY DEF IsConfig, IsMap, NewBareConfig, Sections

\* A map comes back from each of the lists it may be written as.
LEMMA ListedMap ==
  ASSUME NEW map, IsMap(map), NEW list \in ListsOf(map)
  PROVE  MapOf(list) = map
<1> DEFINE size == Cardinality(DOMAIN map)
           orders == {o \in [1 .. size -> DOMAIN map] :
                        \A n \in DOMAIN map : \E i \in 1 .. size :
                          o[i] = n /\ \A j \in 1 .. size : o[j] = n => j = i}
           Listed(o) == [i \in 1 .. size |-> [name |-> o[i], value |-> map[o[i]]]]
<1>0. list \in {Listed(o) : o \in orders}
  BY Zenon DEF ListsOf
<1> HIDE DEF orders, Listed
<1>1. PICK o \in orders : list = Listed(o)
  BY <1>0
<1>2. /\ o \in [1 .. size -> DOMAIN map]
      /\ list = [i \in 1 .. size |-> [name |-> o[i], value |-> map[o[i]]]]
      /\ \A n \in DOMAIN map : \E i \in 1 .. size :
           o[i] = n /\ \A j \in 1 .. size : o[j] = n => j = i
  BY <1>1 DEF orders, Listed
<1> HIDE DEF size
<1>3. /\ DOMAIN list = 1 .. size
      /\ \A i \in 1 .. size : list[i].name = o[i] /\ list[i].value = map[o[i]]
  BY <1>2
<1>4. {list[i].name : i \in DOMAIN list} = DOMAIN map
  <2>1. \A i \in DOMAIN list : list[i].name \in DOMAIN map
    BY <1>2, <1>3
  <2>2. \A n \in DOMAIN map : \E i \in DOMAIN list : n = list[i].name
    BY <1>2, <1>3
  <2> QED
    BY <2>1, <2>2, Zenon
<1>5. ASSUME NEW n \in DOMAIN map
      PROVE  MapOf(list)[n] = map[n]
  <2> DEFINE Last(i) == /\ list[i].name = n
                        /\ \A j \in DOMAIN list : list[j].name = n => j <= i
  <2>1. PICK i \in 1 .. size : o[i] = n /\ \A j \in 1 .. size : o[j] = n => j = i
    BY <1>2
  <2>2. Last(i) /\ \A j \in DOMAIN list : Last(j) => j = i
    BY <1>3, <2>1
  <2>3. (CHOOSE j \in DOMAIN list : Last(j)) = i
    <3> HIDE DEF Last
    <3> QED
      BY <1>3, <2>2
  <2>4. MapOf(list)[n] = list[CHOOSE j \in DOMAIN list : Last(j)].value
    BY <1>4 DEF MapOf
  <2> QED
    BY <1>3, <2>1, <2>3, <2>4
<1>6. MapOf(list) = [n \in DOMAIN map |-> MapOf(list)[n]]
  BY <1>4 DEF MapOf
<1> QED
  BY <1>5, <1>6 DEF IsMap

\* types.go: a Config is the same after Marshal and Unmarshal, though Go walks the
\* maps in an order of its own each time.
THEOREM ConfigComesBack ==
  ASSUME NEW config, IsConfig(config)
  PROVE  RoundTrip(config)
<1> SUFFICES ASSUME NEW file \in Marshal(config) PROVE Unmarshal(file) = config
  BY DEF RoundTrip
<1>1. PICK lists :
        /\ file = [apiVersion |-> "v1", kind |-> "Config",
                   preferences |-> config.preferences,
                   currentContext |-> config.currentContext, lists |-> lists]
        /\ \A s \in Sections : lists[s] \in ListsOf(config.maps[s])
  BY DEF Marshal
<1>2. \A s \in Sections : MapOf(lists[s]) = config.maps[s]
  BY <1>1, ListedMap DEF IsConfig
<1>3. [s \in Sections |-> MapOf(lists[s])] = [s \in Sections |-> config.maps[s]]
  BY <1>2
<1> QED
  BY <1>1, <1>3 DEF Unmarshal, IsConfig

-----------------------------------------------------------------------------
(* What ClusterEndpoint finds is what the config map publishes.             *)

\* Of the entries of a list that have some name there is a last one.
LEMMA LastOne ==
  ASSUME NEW n \in Nat, NEW T, T \subseteq 1 .. n, T # {}
  PROVE  \E i \in T : \A j \in T : j <= i
<1> DEFINE After == {n - i : i \in T}
<1>1. After \subseteq Nat /\ After # {}
  <2>1. \A i \in T : n - i \in Nat
    OBVIOUS
  <2>2. PICK i \in T : TRUE
    OBVIOUS
  <2>3. n - i \in After
    OBVIOUS
  <2> QED
    BY <2>1, <2>3
<1> HIDE DEF After
<1>2. PICK m \in After : \A k \in After : <<k, m>> \notin OpToRel(<, Nat)
  BY <1>1, WFMin, NatLessThanWellFounded, Zenon
<1>3. \A k \in After : ~(k < m)
  BY <1>1, <1>2 DEF OpToRel
<1>4. PICK i \in T : m = n - i
  BY DEF After
<1>5. ASSUME NEW j \in T PROVE j <= i
  <2>1. n - j \in After
    BY DEF After
  <2> QED
    BY <1>3, <1>4, <2>1
<1> QED
  BY <1>5

LEMMA EndpointPublished ==
  ASSUME NEW info \in ClusterInfos
  PROVE  /\ \A s \in ClusterEndpoint(info) : Publishes(info, s)
         /\ ClusterEndpoint(info) = {} => \A s : ~Publishes(info, s)
<1> DEFINE list == info.file.lists["clusters"]
           map == MapOf(list)
           Last(i) == /\ list[i].name = ""
                      /\ \A j \in DOMAIN list : list[j].name = "" => j <= i
           Usable == info.exists /\ info.keyed /\ info.parses
           found == {map[n].server : n \in DOMAIN map \cap {""}}
<1>1. DOMAIN list = 1 .. Len(list) /\ Len(list) \in Nat
  BY ClusterInfosAssumption
<1>2. ClusterEndpoint(info) = IF Usable THEN found ELSE {}
  BY DEF ClusterEndpoint, Unmarshal, Sections
<1>3. "" \in DOMAIN map <=> \E i \in DOMAIN list : list[i].name = ""
  BY DEF MapOf
<1>4. \A s : Publishes(info, s)
        <=> Usable /\ \E i \in DOMAIN list : Last(i) /\ list[i].value.server = s
  BY DEF Publishes
<1>5. ASSUME "" \in DOMAIN map
      PROVE  \E i \in DOMAIN list : Last(i) /\ map[""] = list[i].value
  <2> DEFINE T == {i \in DOMAIN list : list[i].name = ""}
  <2>1. T # {} /\ T \subseteq 1 .. Len(list)
    BY <1>1, <1>3, <1>5
  <2>2. PICK i \in T : \A j \in T : j <= i
    <3> HIDE DEF T
    <3> QED
      BY <1>1, <2>1, LastOne
  <2>3. \E j \in DOMAIN list : Last(j)
    BY <2>2
  <2>4. map[""] = list[CHOOSE j \in DOMAIN list : Last(j)].value
    BY <1>5 DEF MapOf
  <2> HIDE DEF Last
  <2> QED
    BY <2>3, <2>4
<1>6. found = IF "" \in DOMAIN map THEN {map[""].server} ELSE {}
  OBVIOUS
<1> HIDE DEF map, Last, Usable, found
<1>7. CASE "" \in DOMAIN map
  BY <1>2, <1>4, <1>5, <1>6, <1>7
<1>8. CASE "" \notin DOMAIN map
  <2>1. \A i \in DOMAIN list : ~Last(i)
    BY <1>3, <1>8 DEF Last
  <2> QED
    BY <1>2, <1>4, <1>6, <1>8, <2>1
<1> QED
  BY <1>7, <1>8

-----------------------------------------------------------------------------
(* The server of a Kubeconfig stays one that may be there, for cluster-info *)
(* counts every rewrite, and the cache lags only after one.                 *)

Infos == IF Quiet({"info"}) THEN {clusterInfo} ELSE ClusterInfos

MayServe(server) ==
  \/ server # None /\ \E asked \in Requests : asked.server = server
  \/ \E info \in Infos : Publishes(info, server)
  \/ /\ server = Localhost
     /\ \/ ~Quiet({"fault"})
        \/ \E info \in Infos : \A other \in Servers \cup {None} :
                                  ~Publishes(info, other)

ServerInv ==
  /\ VerdictInv /\ ServerFound
  /\ Quiet({"info"}) => clusterInfoCache = clusterInfo

LEMMA ServersMayServe ==
  ServerFound <=> \A k \in Names : kubeconfig[k].exists =>
                                     MayServe(kubeconfig[k].spec.server)
BY DEF ServerFound, MayServe, Infos

LEMMA InfoMoves ==
  ASSUME TypeOK, [Next]_vars
  PROVE  /\ Quiet({"info"})' => UNCHANGED clusterInfo
         /\ clusterInfoCache' = clusterInfoCache \/ clusterInfoCache' = clusterInfo
<1>1. ASSUME NEW info, PublishClusterInfo(info)
      PROVE  ~Quiet({"info"})' /\ UNCHANGED clusterInfoCache
  BY <1>1, Spent DEF PublishClusterInfo, Quiet, Kinds, caches
<1>2. CASE ClusterNext /\ ~\E info \in ClusterInfos : PublishClusterInfo(info)
  BY <1>2 DEF ClusterNext, stored, caches,
              SyncSecret, SyncCsr, SyncCrb, Resync, AdminApprove, AdminDeny,
              SignerIssue, SignerFail, CsrGone, CollectCsr, ForeignCsr, SecretGone,
              CollectSecret, ProvideSecret, ChangeCsr, ChangeSecret, SyncClusterInfo
<1>3. CASE UserNext
  BY <1>3 DEF UserNext, CreateKubeconfig, UpdateKubeconfig, DeleteKubeconfig,
              AdmitKubeconfig, caches
<1>4. CASE ReconcilerNext
  BY <1>4 DEF ReconcilerNext, Reads, Writes, GetKubeconfig, GetExistingSecret,
              GetUserSecret, GetCrb, GetCsrNotFound, GetCsrRejected, GetCsrPending,
              GetCsrUnsigned, GetCsrSigned, CreateUserSecret, UpdateSecretKey,
              CreateCsr, UpdateSecretCert, CreateCrb, UpdateStatus, UpdateSecret,
              OnlyReads, stored, caches
<1>5. CASE CsrNext \/ Crash \/ Panic \/ UNCHANGED vars
  BY <1>5 DEF CsrNext, Crash, Panic, Restart, vars, stored, caches,
              GetCsrToApprove, ApproveCSR
<1> QED
  BY <1>1, <1>2, <1>3, <1>4, <1>5 DEF Next, ClusterNext

LEMMA ServersStay ==
  ASSUME TypeOK, [Next]_vars, NEW server, MayServe(server)
  PROVE  MayServe(server)'
<1>1. Infos \subseteq Infos'
  <2>1. clusterInfo \in ClusterInfos /\ clusterInfo' \in ClusterInfos
    BY TypeStep DEF TypeOK, ApiTypeOK
  <2>2. Quiet({"info"})' => Quiet({"info"})
    BY CountsGrow DEF Kinds
  <2> QED
    BY <2>1, <2>2, InfoMoves DEF Infos
<1>2. Quiet({"fault"})' => Quiet({"fault"})
  BY CountsGrow DEF Kinds
<1> QED
  BY <1>1, <1>2 DEF MayServe

\* What the webhook decides on may serve.
LEMMA DefaultMayServe ==
  ASSUME ServerInv, [Next]_vars, NEW spec \in Requests, NEW lookup \in Lookup,
         NEW kinds, Spend(kinds \cup LookupCost(lookup)), UNCHANGED clusterInfo
  PROVE  \A server : server = DefaultServer(spec.server, Found(lookup))
                       => MayServe(server)'
<1> SUFFICES ASSUME NEW server, server = DefaultServer(spec.server, Found(lookup))
             PROVE  MayServe(server)'
  OBVIOUS
<1>1. TypeOK /\ clusterInfoCache \in ClusterInfos
  BY DEF ServerInv, VerdictInv, TypeOK, ApiTypeOK
<1>2. clusterInfoCache \in Infos'
  BY <1>1, CountsGrow DEF ServerInv, Infos, Kinds
<1>3. CASE spec.server # None
  BY <1>3 DEF DefaultServer, MayServe
<1>4. CASE spec.server = None /\ Found(lookup) # {}
  <2>1. server \in ClusterEndpoint(clusterInfoCache)
    BY <1>4 DEF DefaultServer, Found
  <2>2. Publishes(clusterInfoCache, server)
    BY <1>1, <2>1, EndpointPublished
  <2> QED
    BY <1>2, <2>2 DEF MayServe
<1>5. CASE spec.server = None /\ Found(lookup) = {}
  <2>1. server = Localhost
    BY <1>5 DEF DefaultServer
  <2>2. CASE lookup = "ok"
    BY <1>1, <1>2, <1>5, <2>1, <2>2, EndpointPublished DEF Found, MayServe
  <2>3. CASE lookup # "ok"
    <3>1. "fault" \in kinds \cup LookupCost(lookup)
      BY <2>3 DEF LookupCost
    <3>2. used'["fault"] # 0
      BY <1>1, <3>1, Spent DEF Kinds
    <3> QED
      BY <2>1, <3>2 DEF MayServe, Quiet
  <2> QED
    BY <2>2, <2>3
<1> QED
  BY <1>3, <1>4, <1>5

LEMMA DefaultServes ==
  ASSUME NEW slot \in KubeconfigSlot, NEW spec \in KubeconfigSpec, slot.spec = spec,
         NEW found, NEW old
  PROVE  KeepStatus(Default(slot, found), old).spec.server
           = DefaultServer(spec.server, found)
<1>1. DefaultSpec(spec, found).server = DefaultServer(spec.server, found)
  BY Zenon DEF DefaultSpec, KubeconfigSpec
<1>2. Default(slot, found).spec = DefaultSpec(spec, found)
  BY Zenon DEF Default, KubeconfigSlot
<1> QED
  BY <1>1, <1>2, Zenon DEF KeepStatus, Default, KubeconfigSlot

LEMMA AdmittedMayServe ==
  ASSUME ServerInv, [Next]_vars, NEW k \in Names, NEW spec \in Requests,
         NEW lookup \in Lookup,
         CreateKubeconfig(k, spec, lookup) \/ UpdateKubeconfig(k, spec, lookup)
  PROVE  \A server : server = kubeconfig'[k].spec.server => MayServe(server)'
<1> DEFINE old == kubeconfig[k]
           found == Found(lookup)
           Wanted == DefaultServer(spec.server, found)
<1>0. /\ TypeOK /\ kubeconfig \in [Names -> KubeconfigSlot]
      /\ old \in KubeconfigSlot /\ spec \in KubeconfigSpec
  BY ConstantsAssumption DEF ServerInv, VerdictInv, TypeOK, ApiTypeOK
<1>1. \A server : server = Wanted => MayServe(server)'
  <2>1. PICK kinds : Spend(kinds \cup LookupCost(lookup)) /\ UNCHANGED clusterInfo
    BY DEF CreateKubeconfig, UpdateKubeconfig, AdmitKubeconfig
  <2> QED
    BY <2>1, DefaultMayServe
<1>2. kubeconfig'[k].spec.server = Wanted
  <2>1. CASE CreateKubeconfig(k, spec, lookup)
    <3> DEFINE asked == [NoKubeconfig EXCEPT !.spec = spec, !.uid = old.rv + 1]
               kept == KeepStatus(Default(asked, found), NoKubeconfig)
    <3>1. asked \in KubeconfigSlot /\ asked.spec = spec /\ asked.spec \in KubeconfigSpec
      <4>1. old.rv + 1 \in Nat
        BY <1>0 DEF KubeconfigSlot
      <4> QED
        BY <1>0, <4>1, BlankTypes, Zenon DEF KubeconfigSlot
    <3> HIDE DEF asked, found
    <3>2. kept.spec.server = Wanted
      BY <1>0, <3>1, DefaultServes
    <3>3. kubeconfig' = [kubeconfig EXCEPT ![k] = Created(old, kept)]
      BY <2>1 DEF CreateKubeconfig, AdmitKubeconfig, asked, found
    <3>4. kept \in KubeconfigSlot
      <4>1. NoKubeconfig.status = NoStatus /\ NoStatus \in KubeconfigStatus
        BY BlankTypes DEF NoKubeconfig
      <4> QED
        BY <1>0, <3>1, <4>1, FoundTypes, DefaultTypes DEF found
    <3> HIDE DEF kept, Wanted
    <3>5. Created(old, kept).spec = kept.spec
      BY <3>4 DEF Created, KubeconfigSlot
    <3> QED
      BY <1>0, <3>2, <3>3, <3>5
  <2>2. CASE UpdateKubeconfig(k, spec, lookup)
    <3> DEFINE asked == [old EXCEPT !.spec = spec]
               kept == KeepStatus(Default(asked, found), old)
    <3>1. asked \in KubeconfigSlot /\ asked.spec = spec /\ asked.spec \in KubeconfigSpec
      BY <1>0, Zenon DEF KubeconfigSlot
    <3> HIDE DEF asked, found
    <3>2. kept.spec.server = Wanted
      BY <1>0, <3>1, DefaultServes
    <3>3. kubeconfig' = [kubeconfig EXCEPT ![k] = Stored(old, kept)]
      BY <2>2 DEF UpdateKubeconfig, AdmitKubeconfig, asked, found
    <3>4. kept \in KubeconfigSlot
      <4>1. old.status \in KubeconfigStatus
        BY <1>0 DEF KubeconfigSlot
      <4> QED
        BY <1>0, <3>1, <4>1, FoundTypes, DefaultTypes DEF found
    <3> HIDE DEF kept, Wanted
    <3>5. Stored(old, kept).spec = kept.spec
      BY <1>0, <3>4 DEF Stored, KubeconfigSlot
    <3> QED
      BY <1>0, <3>2, <3>3, <3>5
  <2> QED
    BY <2>1, <2>2
<1> QED
  BY <1>1, <1>2

LEMMA ServerStep == ServerInv /\ [Next]_vars => ServerInv'
<1> SUFFICES ASSUME ServerInv, [Next]_vars PROVE ServerInv'
  OBVIOUS
<1>1. TypeOK /\ VerdictInv
  BY DEF ServerInv, VerdictInv
<1>2. Quiet({"info"})' => clusterInfoCache' = clusterInfo'
  BY <1>1, InfoMoves, CountsGrow DEF ServerInv, Kinds
<1>3. ASSUME NEW k \in Names, kubeconfig'[k].exists,
             NEW server, server = kubeconfig'[k].spec.server
      PROVE  MayServe(server)'
  <2>1. CASE kubeconfig[k].exists /\ kubeconfig'[k].spec = kubeconfig[k].spec
    BY <1>1, <1>3, <2>1, ServersMayServe, ServersStay DEF ServerInv
  <2>2. CASE ~UserNext
    BY <1>1, <1>3, <2>1, <2>2, OthersKeepSpecs DEF SpecKept
  <2>3. CASE UserNext
    <3>1. PICK j \in Names :
            \/ \E spec \in Requests, lookup \in Lookup :
                 CreateKubeconfig(j, spec, lookup) \/ UpdateKubeconfig(j, spec, lookup)
            \/ DeleteKubeconfig(j)
      BY <2>3 DEF UserNext
    <3>2. CASE j # k
      BY <1>1, <1>3, <2>1, <3>1, <3>2
         DEF CreateKubeconfig, UpdateKubeconfig, DeleteKubeconfig, AdmitKubeconfig,
             TypeOK, ApiTypeOK
    <3>3. ~DeleteKubeconfig(k)
      BY <1>1, <1>3 DEF DeleteKubeconfig, AdmitKubeconfig, Removed, NoKubeconfig,
                        TypeOK, ApiTypeOK
    <3> QED
      BY <1>3, <3>1, <3>2, <3>3, AdmittedMayServe
  <2> QED
    BY <2>2, <2>3
<1>4. ServerFound'
  <2>1. \A k \in Names : kubeconfig'[k].exists =>
          MayServe(kubeconfig[k].spec.server)'
    BY <1>3
  <2> QED
    BY <2>1 DEF ServerFound, MayServe, Infos
<1> QED
  BY <1>1, <1>2, <1>4, VerdictStep DEF ServerInv

\* The server of a Kubeconfig is one the user asked for or cluster-info names, and
\* the fallback only where there is none, whatever the file lists and however often
\* it is looked up.
THEOREM ServerIsFound == Spec => []ServerFound
<1>1. Init => ServerInv
  BY TypeInit DEF Init, ApiInit, NoKubeconfig, Idle, ServerInv, VerdictInv,
                  FreshCopy, ServerFound
<1>2. Spec => []ServerInv
  BY <1>1, ServerStep, PTL DEF Spec
<1>3. ServerInv => ServerFound
  BY DEF ServerInv
<1> QED
  BY <1>2, <1>3, PTL
=============================================================================
