------------------------- MODULE KubeconfigReconciler -------------------------
(***************************************************************************)
(* KubeconfigReconciler.Reconcile, one action per API call and what the    *)
(* code does with its answer up to the next call.  The controller has one  *)
(* worker; w is its position and the local copies it carries.              *)
(***************************************************************************)
EXTENDS ApiServer

Idle == [pc |-> "idle", name |-> None, kc |-> NoKubeconfig, secret |-> NoSecret,
         requeue |-> FALSE]

Positions == {"idle", "getSecret", "createSecret", "getCsr", "updateKey",
              "createCsr", "updateCert", "getCrb", "createCrb", "updateStatus"}

\* kc and secret are kubeconfig and userSecret in the code, requeue is what
\* the reconcile returns once it has written the status.
Worker == [pc : Positions, name : Names \cup {None}, kc : KubeconfigSlot,
           secret : SecretSlot, requeue : BOOLEAN]

ReconcilerTypeOK ==
  /\ w \in Worker
  /\ w.pc # "idle" => /\ w.name \in Names
                      /\ w.kc.exists
                      /\ w.kc.spec \in StoredSpec

-----------------------------------------------------------------------------
(* The decisions and the objects the controller makes.                      *)

userSecretName == IF w.kc.spec.existingCSR = None THEN w.name
                                                  ELSE w.kc.spec.existingCSR

\* Mutant: only the successful end counts as terminal.
isInTerminalConditionIfTrue(kc) == kc.status.KubeconfigFinished = "True"

isInTerminalCondition(kc) == kc.status.KubeconfigFinished \in {"True", "False"}

\* Mutant: a CSR that nobody decided yet counts as denied.
RejectedUnlessApproved(c) == c.approved = "no" \/ c.failed

\* Mutant: the signer's failure is not looked at.
RejectedIfDenied(c) == c.denied

\* getCertApprovalCondition: denied or failed.
Rejected(c) == c.denied \/ c.failed

\* A secret that another Kubeconfig controls keeps its owner (the error is
\* dropped); one of the same name is replaced, whatever its uid.
SetControllerReference(s, k, uid) ==
  IF \E o \in s.owners : o[1] # k THEN s ELSE [s EXCEPT !.owners = {<<k, uid>>}]

\* Mutant: the secret has no owner.
createUserSecretUnowned(k, kc) == [NoSecret EXCEPT !.data = TRUE]

createUserSecret(k, kc) ==
  SetControllerReference([NoSecret EXCEPT !.data = TRUE], k, kc.uid)

\* Mutant: the annotation is forgotten.
createCsrWithoutAnnotation(k, kc, key) ==
  [NoCsr EXCEPT !.key = key, !.cn = kc.spec.username, !.owners = {<<k, kc.uid>>}]

\* Mutant: the annotation is written whether the Kubeconfig asks for it or not.
createCsrAnnotated(k, kc, key) ==
  [NoCsr EXCEPT !.key = key, !.cn = kc.spec.username, !.autoApprove = TRUE,
                !.owners = {<<k, kc.uid>>}]

\* Mutant: the subject is left empty.
createCsrWithoutSubject(k, kc, key) ==
  [NoCsr EXCEPT !.key = key, !.autoApprove = kc.spec.autoApproveCSR,
                !.owners = {<<k, kc.uid>>}]

createCsr(k, kc, key) ==
  [NoCsr EXCEPT !.key = key, !.cn = kc.spec.username,
                !.autoApprove = kc.spec.autoApproveCSR,
                !.owners = {<<k, kc.uid>>}]

\* Mutant: every binding is to cluster-admin.
createClusterRoleBindingOfAdmin(kc) == [NoCrb EXCEPT !.role = ClusterAdmin]

\* The binding gets labels and no owner reference.
createClusterRoleBinding(kc) == [NoCrb EXCEPT !.role = kc.spec.roleRef]

RsaAlgorithms == {"SHA256WithRSA", "SHA384WithRSA", "SHA512WithRSA",
                  "SHA256WithRSAPSS", "SHA384WithRSAPSS", "SHA512WithRSAPSS"}
EcdsaAlgorithms == {"ECDSAWithSHA256", "ECDSAWithSHA384", "ECDSAWithSHA512"}

\* Mutant: the PSS algorithms are forgotten.
KeyKindWithoutPss(algorithm) ==
  CASE algorithm \in {"SHA256WithRSA", "SHA384WithRSA", "SHA512WithRSA"} -> "RSA"
    [] algorithm \in EcdsaAlgorithms -> "ECDSA"
    [] algorithm = "PureEd25519" -> "Ed25519"
    [] OTHER -> "none"

\* The kind of key the switch of createCSR generates.
KeyKind(algorithm) ==
  CASE algorithm \in RsaAlgorithms -> "RSA"
    [] algorithm \in EcdsaAlgorithms -> "ECDSA"
    [] algorithm = "PureEd25519" -> "Ed25519"
    [] OTHER -> "none"

\* The kind of key crypto/x509 needs for the algorithm that
\* parseSignatureAlgorithm makes of it.
SignerKind ==
  [SHA256WithRSA |-> "RSA", SHA384WithRSA |-> "RSA", SHA512WithRSA |-> "RSA",
   PureEd25519 |-> "Ed25519", ECDSAWithSHA512 |-> "ECDSA",
   ECDSAWithSHA384 |-> "ECDSA", ECDSAWithSHA256 |-> "ECDSA",
   SHA256WithRSAPSS |-> "RSA", SHA384WithRSAPSS |-> "RSA",
   SHA512WithRSAPSS |-> "RSA"]

\* CreateCertificateRequest succeeds.
CanSign(algorithm) ==
  /\ algorithm \in DOMAIN SignerKind
  /\ KeyKind(algorithm) = SignerKind[algorithm]

\* createCSR: a fresh key pair, of which the number stands for the key in the
\* secret and for the public key in the request.
createCSR == lastKey + 1

createKubeconfig(kc, s) ==
  [key |-> s.key, cert |-> s.cert, user |-> kc.spec.username,
   server |-> kc.spec.server]

-----------------------------------------------------------------------------
(* Reconcile.                                                               *)

Return(requeue) ==
  /\ w' = Idle
  /\ queue' = IF requeue THEN queue \cup {w.name} ELSE queue

\* It goes on with this copy of the secret and this status.
GoOn(pc, s, status) ==
  /\ w' = [w EXCEPT !.pc = pc, !.secret = s, !.kc.status = status]
  /\ UNCHANGED queue

\* It writes this status and returns.
EndWith(status, requeue) ==
  /\ w' = [w EXCEPT !.pc = "updateStatus", !.secret = NoSecret,
                    !.kc.status = status, !.requeue = requeue]
  /\ UNCHANGED queue

OnlyReads == UNCHANGED <<stored, caches, csrQueue, cw, lastKey>>

\* Read from the API server; a key leaves the queue when its reconcile starts
\* and is queued again by an error or by an event that comes meanwhile.
GetKubeconfig(k) ==
  /\ w.pc = "idle" /\ k \in queue
  /\ \/ /\ ~kubeconfig[k].exists \/ isInTerminalCondition(kubeconfig[k])
        /\ queue' = queue \ {k}
        /\ UNCHANGED <<w, used>>
     \/ /\ kubeconfig[k].exists /\ ~isInTerminalCondition(kubeconfig[k])
        /\ queue' = queue \ {k}
        /\ w' = [Idle EXCEPT !.pc = "getSecret", !.name = k, !.kc = kubeconfig[k]]
        /\ UNCHANGED used
     \/ Spend({"fault"}) /\ UNCHANGED <<queue, w>>
  /\ OnlyReads

\* Mutant: a prepared secret that is not there yet is not waited for.
GetExistingSecretOnce ==
  LET read == secretCache[w.kc.spec.existingCSR] IN
  /\ w.pc = "getSecret" /\ w.kc.spec.existingCSR # None
  /\ \/ ~read.exists /\ Return(FALSE)
     \/ /\ read.exists
        /\ GoOn("getCsr", SetControllerReference(read, w.name, w.kc.uid),
                [w.kc.status EXCEPT !.userSecret = TRUE])
  /\ UNCHANGED used /\ OnlyReads

\* A cached read fails only when it is the first of its kind and the informer
\* does not come up in time.  Here the code looks for NotFound alone and goes
\* on with an empty secret after any other error.
GetExistingSecret ==
  LET read == secretCache[w.kc.spec.existingCSR] IN
  /\ w.pc = "getSecret" /\ w.kc.spec.existingCSR # None
  /\ \/ /\ ~read.exists
        /\ Return(TRUE) /\ UNCHANGED used
     \/ /\ read.exists
        /\ GoOn("getCsr", SetControllerReference(read, w.name, w.kc.uid),
                [w.kc.status EXCEPT !.userSecret = TRUE])
        /\ UNCHANGED used
     \/ /\ Spend({"fault"})
        /\ GoOn("getCsr", NoSecret, [w.kc.status EXCEPT !.userSecret = FALSE])
  /\ OnlyReads

GetUserSecret ==
  LET read == secretCache[w.name] IN
  /\ w.pc = "getSecret" /\ w.kc.spec.existingCSR = None
  /\ \/ /\ ~read.exists
        /\ GoOn("createSecret", NoSecret, w.kc.status) /\ UNCHANGED used
     \/ /\ read.exists
        /\ GoOn("getCsr", read, w.kc.status) /\ UNCHANGED used
     \/ Spend({"fault"}) /\ Return(TRUE)
  /\ OnlyReads

CreateUserSecret(reply) ==
  LET old == secret[w.name]
      new == Created(old, createUserSecret(w.name, w.kc))
      applied == reply # "error" /\ ~old.exists
      created == reply = "ok" /\ ~old.exists
  IN /\ w.pc = "createSecret"
     /\ Answer(reply)
     /\ secret' = IF applied THEN [secret EXCEPT ![w.name] = new] ELSE secret
     /\ \/ /\ created
           /\ GoOn("getCsr", new, [w.kc.status EXCEPT
                                     !.userSecret = TRUE,
                                     !.UserSecretCreated = "True"])
        \/ /\ ~created
           /\ EndWith([w.kc.status EXCEPT !.UserSecretCreated = "False",
                                          !.phase = "Failed"], TRUE)
     /\ UNCHANGED <<kubeconfig, csr, crb, clusterInfo, caches, csrQueue, cw, lastKey>>

\* No CSR in the cache: a key pair and a request are generated.  The cache may
\* miss a CSR that exists ("stale").  A secret without data panics (below).  If
\* createCSR fails, the reconcile sets a condition, writes it nowhere and ends.
GetCsrNotFound ==
  LET missed == IF csr[w.name].exists THEN {"stale"} ELSE {}
      signs == CanSign(w.kc.spec.signatureAlgorithm)
  IN /\ w.pc = "getCsr" /\ ~csrCache[w.name].exists
     /\ \/ /\ signs /\ w.secret.data
           /\ Spend(missed)
           /\ GoOn("updateKey", [w.secret EXCEPT !.key = createCSR], w.kc.status)
        \/ /\ Spend(missed \cup IF signs THEN {"fault"} ELSE {})
           /\ Return(FALSE)
     /\ OnlyReads

GetCsrRejected ==
  /\ w.pc = "getCsr" /\ csrCache[w.name].exists /\ Rejected(csrCache[w.name])
  /\ EndWith([w.kc.status EXCEPT !.CSRApproved = "False",
                                 !.KubeconfigFinished = "False",
                                 !.phase = "Failed"], FALSE)
  /\ UNCHANGED used /\ OnlyReads

GetCsrPending ==
  /\ w.pc = "getCsr" /\ csrCache[w.name].exists /\ ~Rejected(csrCache[w.name])
  /\ csrCache[w.name].approved = "no"
  /\ Return(FALSE)
  /\ UNCHANGED used /\ OnlyReads

Approved(c) == c.exists /\ ~Rejected(c) /\ c.approved # "no"

GetCsrUnsigned ==
  /\ w.pc = "getCsr" /\ Approved(csrCache[w.name])
  /\ csrCache[w.name].cert = NoCert
  /\ EndWith([w.kc.status EXCEPT !.CSRApproved = "True"], TRUE)
  /\ UNCHANGED used /\ OnlyReads

\* The certificate goes into the copy of the secret, and the file is templated
\* from that copy; reading the cluster's CA for it may fail.
GetCsrSigned ==
  LET signed == [w.secret EXCEPT !.cert = csrCache[w.name].cert]
      file == createKubeconfig(w.kc, signed)
  IN /\ w.pc = "getCsr" /\ Approved(csrCache[w.name])
     /\ csrCache[w.name].cert # NoCert
     /\ w.secret.data
     /\ \/ /\ GoOn("updateCert", [signed EXCEPT !.kubeconfig = file],
                   [w.kc.status EXCEPT !.CSRApproved = "True",
                                       !.kubeconfig = file])
           /\ UNCHANGED used
        \/ Spend({"fault"}) /\ Return(TRUE)
     /\ OnlyReads

\* The two writes into the data map of a secret that has none: a nil map, and
\* a panic that ends the process.
PanicsOnNilData ==
  LET c == csrCache[w.name] IN
  /\ w.pc = "getCsr" /\ ~w.secret.data
  /\ \/ /\ ~c.exists /\ (csr[w.name].exists => used["stale"] < Limit["stale"])
        /\ CanSign(w.kc.spec.signatureAlgorithm)
     \/ Approved(c) /\ c.cert # NoCert

SecretUpdated(reply) == reply # "error" /\ Current(w.secret, secret[userSecretName])

UpdateSecret(reply) ==
  LET s == userSecretName IN
  /\ Answer(reply)
  /\ secret' = IF SecretUpdated(reply)
               THEN [secret EXCEPT ![s] = Stored(secret[s], w.secret)]
               ELSE secret
  /\ UNCHANGED <<kubeconfig, csr, crb, clusterInfo, caches, csrQueue, cw>>

\* Mutant: the error of the update is not looked at.
UpdateSecretKeyUnchecked(reply) ==
  /\ w.pc = "updateKey"
  /\ UpdateSecret(reply)
  /\ lastKey' = w.secret.key
  /\ GoOn("createCsr", w.secret, w.kc.status)

\* A key that was not stored is never seen again: its number is reused.
UpdateSecretKey(reply) ==
  LET updated == SecretUpdated(reply) IN
  /\ w.pc = "updateKey"
  /\ UpdateSecret(reply)
  /\ lastKey' = IF updated THEN w.secret.key ELSE lastKey
  /\ \/ updated /\ reply = "ok" /\ GoOn("createCsr", w.secret, w.kc.status)
     \/ ~(updated /\ reply = "ok") /\ Return(TRUE)

CreateCsr(reply) ==
  LET old == csr[w.name]
      new == Created(old, createCsr(w.name, w.kc, w.secret.key))
      applied == reply # "error" /\ ~old.exists
      created == reply = "ok" /\ ~old.exists
  IN /\ w.pc = "createCsr"
     /\ Answer(reply)
     /\ csr' = IF applied THEN [csr EXCEPT ![w.name] = new] ELSE csr
     /\ \/ /\ created
           /\ EndWith([w.kc.status EXCEPT !.csr = TRUE, !.CSRCreated = "True",
                                          !.phase = "Awaiting Approval"], FALSE)
        \/ ~created /\ Return(TRUE)
     /\ UNCHANGED <<kubeconfig, secret, crb, clusterInfo, caches, csrQueue, cw, lastKey>>

\* Mutant: the error of the update is not looked at.
UpdateSecretCertUnchecked(reply) ==
  /\ w.pc = "updateCert"
  /\ UpdateSecret(reply)
  /\ GoOn("getCrb", NoSecret, [w.kc.status EXCEPT !.UserSecretFinished = "True"])
  /\ UNCHANGED lastKey

UpdateSecretCert(reply) ==
  LET updated == SecretUpdated(reply) /\ reply = "ok" IN
  /\ w.pc = "updateCert"
  /\ UpdateSecret(reply)
  /\ \/ /\ updated
        /\ GoOn("getCrb", NoSecret,
                [w.kc.status EXCEPT !.UserSecretFinished = "True"])
     \/ ~updated /\ Return(TRUE)
  /\ UNCHANGED lastKey

Complete == EndWith([w.kc.status EXCEPT !.KubeconfigFinished = "True",
                                        !.phase = "Done"], FALSE)

\* Mutant: a missing binding is not created.
GetCrbOnly ==
  /\ w.pc = "getCrb"
  /\ Complete
  /\ UNCHANGED used /\ OnlyReads

\* A binding of that name is taken as it is, whatever role it grants.
GetCrb ==
  LET read == crbCache[w.kc.spec.username] IN
  /\ w.pc = "getCrb"
  /\ \/ read.exists /\ Complete /\ UNCHANGED used
     \/ ~read.exists /\ GoOn("createCrb", NoSecret, w.kc.status) /\ UNCHANGED used
     \/ Spend({"fault"}) /\ Return(TRUE)
  /\ OnlyReads

CreateCrb(reply) ==
  LET u == w.kc.spec.username
      new == Created(crb[u], createClusterRoleBinding(w.kc))
      applied == reply # "error" /\ ~crb[u].exists
      created == reply = "ok" /\ ~crb[u].exists
  IN /\ w.pc = "createCrb"
     /\ Answer(reply)
     /\ crb' = IF applied THEN [crb EXCEPT ![u] = new] ELSE crb
     /\ \/ created /\ Complete
        \/ ~created /\ Return(TRUE)
     /\ UNCHANGED <<kubeconfig, secret, csr, clusterInfo, caches, csrQueue, cw, lastKey>>

\* The CRD's default for status.status, whose empty string is left out.
Persisted(status) == IF status.phase = "" THEN [status EXCEPT !.phase = "Unknown"]
                                          ELSE status

\* Mutant: the status is written over whatever version is stored.
UpdateStatusUnchecked(reply) ==
  LET k == w.name
      old == kubeconfig[k]
      new == IF reply # "error" /\ old.exists
             THEN Stored(old, [old EXCEPT !.status = Persisted(w.kc.status)])
             ELSE old
  IN /\ w.pc = "updateStatus"
     /\ Answer(reply)
     /\ kubeconfig' = [kubeconfig EXCEPT ![k] = new]
     /\ queue' = IF w.requeue \/ new # old THEN queue \cup {k} ELSE queue
     /\ w' = Idle
     /\ UNCHANGED <<secret, csr, crb, clusterInfo, caches, csrQueue, cw, lastKey>>

\* Status().Update: its error is dropped.  A change comes back as an event.
UpdateStatus(reply) ==
  LET k == w.name
      old == kubeconfig[k]
      new == IF reply # "error" /\ Current(w.kc, old)
             THEN Stored(old, [old EXCEPT !.status = Persisted(w.kc.status)])
             ELSE old
  IN /\ w.pc = "updateStatus"
     /\ Answer(reply)
     /\ kubeconfig' = [kubeconfig EXCEPT ![k] = new]
     /\ queue' = IF w.requeue \/ new # old THEN queue \cup {k} ELSE queue
     /\ w' = Idle
     /\ UNCHANGED <<secret, csr, crb, clusterInfo, caches, csrQueue, cw, lastKey>>

Writes(reply) ==
  \/ CreateUserSecret(reply) \/ UpdateSecretKey(reply) \/ CreateCsr(reply)
  \/ UpdateSecretCert(reply) \/ CreateCrb(reply) \/ UpdateStatus(reply)

Reads ==
  \/ GetExistingSecret \/ GetUserSecret \/ GetCrb
  \/ GetCsrNotFound \/ GetCsrRejected \/ GetCsrPending
  \/ GetCsrUnsigned \/ GetCsrSigned

ReconcilerNext ==
  \/ \E k \in Names : GetKubeconfig(k)
  \/ Reads
  \/ \E reply \in Reply : Writes(reply)
=============================================================================
