---------------------------- MODULE CsrReconciler ----------------------------
(***************************************************************************)
(* CertificateSigningRequestReconciler: its one worker takes a CSR name    *)
(* from the queue, reads the CSR from the cache and approves it if the     *)
(* Kubeconfig controller asked for that.                                   *)
(***************************************************************************)
EXTENDS ApiServer

CsrIdle == [pc |-> "idle", name |-> None, csr |-> NoCsr]

\* cw: where the worker is and the CSR it works on.
CsrWorker == [pc : {"idle", "approve"}, name : Names \cup {None}, csr : CsrSlot]

CsrTypeOK == cw \in CsrWorker /\ (cw.pc # "idle" => cw.name \in Names)

\* Mutant: every CSR counts as a Kubeconfig's.
isKubeconfigV1Alpha1CSRAlways(c) == TRUE

isKubeconfigV1Alpha1CSR(c) == c.owners # {}

hasAutoApproveAnnotation(c) == c.autoApprove

isPending(c) == c.approved = "no" /\ ~c.denied /\ ~c.failed

GetCsrToApprove(k) ==
  LET read == csrCache[k]
      wanted == /\ read.exists
                /\ isKubeconfigV1Alpha1CSR(read)
                /\ hasAutoApproveAnnotation(read)
                /\ isPending(read)
  IN /\ cw.pc = "idle"
     /\ k \in csrQueue
     /\ csrQueue' = csrQueue \ {k}
     /\ cw' = IF wanted THEN [pc |-> "approve", name |-> k, csr |-> read]
                        ELSE CsrIdle
     /\ UNCHANGED <<stored, caches, queue, w, lastKey, used>>

\* The Approved condition, appended or, if it is there, given this reason.
setStatusCondition(c) == [c EXCEPT !.approved = "operator"]

\* Mutant: a failed approval is not tried again.
ApproveCSROnce(reply) ==
  LET k == cw.name
      applied == reply # "error" /\ Current(cw.csr, csr[k])
  IN /\ cw.pc = "approve"
     /\ Answer(reply)
     /\ csr' = IF applied
               THEN [csr EXCEPT ![k] =
                       Stored(csr[k], setStatusCondition(cw.csr))]
               ELSE csr
     /\ cw' = CsrIdle
     /\ UNCHANGED <<kubeconfig, secret, crb, clusterInfo, caches, queue, csrQueue,
                    w, lastKey>>

\* After a failed UpdateApproval the controller writes the same conditions
\* through /status, where the API server takes no approval, and retries.
ApproveCSR(reply) ==
  LET k == cw.name
      applied == reply # "error" /\ Current(cw.csr, csr[k])
  IN /\ cw.pc = "approve"
     /\ Answer(reply)
     /\ csr' = IF applied
               THEN [csr EXCEPT ![k] =
                       Stored(csr[k], setStatusCondition(cw.csr))]
               ELSE csr
     /\ csrQueue' = IF applied /\ reply = "ok" THEN csrQueue ELSE csrQueue \cup {k}
     /\ cw' = CsrIdle
     /\ UNCHANGED <<kubeconfig, secret, crb, clusterInfo, caches, queue, w, lastKey>>

CsrNext ==
  \/ \E k \in Names : GetCsrToApprove(k)
  \/ \E reply \in Reply : ApproveCSR(reply)
=============================================================================
