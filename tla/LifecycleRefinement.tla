------------------------- MODULE LifecycleRefinement -------------------------
(***************************************************************************)
(* The operator implements Lifecycle.  What the signer and the admins did  *)
(* to CSRs that no longer exist is in no variable of Operator, so two      *)
(* history variables record it beside every step.                          *)
(***************************************************************************)
EXTENDS Operator

VARIABLES issued, refused

history == <<issued, refused>>

\* What the CSRs of the next state hold is added to what they held before.
Record ==
  /\ issued' = [k \in Names |-> issued[k] \cup ({csr'[k].cert} \ {NoCert})]
  /\ refused' = refused \cup {k \in Names : csr'[k].denied \/ csr'[k].failed}

HistoryInit ==
  /\ Init
  /\ issued = [k \in Names |-> {}]
  /\ refused = {}

HistorySpec ==
  HistoryInit /\ [][Next /\ Record]_<<vars, history>>

-----------------------------------------------------------------------------
(* The refinement mapping.                                                  *)

\* The life of a Kubeconfig as its owner sees it.
LifeOf(slot) ==
  IF ~slot.exists THEN "absent"
  ELSE IF slot.status.KubeconfigFinished = "True" THEN "delivered"
  ELSE IF slot.status.KubeconfigFinished = "False" THEN "rejected"
  ELSE "open"

DeliveredTo(slot) ==
  IF LifeOf(slot) = "delivered" THEN slot.status.kubeconfig.cert ELSE NoCert

life == [k \in Names |-> LifeOf(kubeconfig[k])]
delivered == [k \in Names |-> DeliveredTo(kubeconfig[k])]

Promise == INSTANCE Lifecycle WITH NoCertificate <- NoCert

\* Through lagging caches, overtaken copies, edits, deletions, strangers' CSRs,
\* failed calls and crashes, the operator does what Lifecycle promises: each
\* Kubeconfig is delivered or rejected once, delivered only with a certificate
\* issued under its name, rejected only if a CSR of its name was refused.
KeepsPromise == Promise!Spec
=============================================================================
