------------------------------ MODULE Lifecycle ------------------------------
(***************************************************************************)
(* What the operator promises of every Kubeconfig, without saying how: it  *)
(* is asked for, stays open until it is delivered or rejected, and is then *)
(* left alone until it is withdrawn.  It is delivered with a certificate   *)
(* the signer issued for a CSR of its name, and rejected only if a CSR of  *)
(* its name was refused.  The CSR is known by the name it shares with the  *)
(* Kubeconfig, so all CSRs that ever had the name count.                   *)
(***************************************************************************)
CONSTANTS
  Names,         \* names of Kubeconfigs and of their CSRs
  NoCertificate  \* nothing was delivered

VARIABLES
  life,       \* where each Kubeconfig is in its life
  delivered,  \* the certificate in its delivered file
  issued,     \* the certificates issued under its name so far
  refused     \* the names under which a CSR was denied or failed

lifecycleVars == <<life, delivered, issued, refused>>

Life == {"absent", "open", "delivered", "rejected"}

Init ==
  /\ life = [k \in Names |-> "absent"]
  /\ delivered = [k \in Names |-> NoCertificate]
  /\ issued = [k \in Names |-> {}]
  /\ refused = {}

\* The user's part.
Ask(k) ==
  /\ life[k] = "absent"
  /\ life' = [life EXCEPT ![k] = "open"]
  /\ UNCHANGED <<delivered, issued, refused>>

Withdraw(k) ==
  /\ life[k] # "absent"
  /\ life' = [life EXCEPT ![k] = "absent"]
  /\ delivered' = [delivered EXCEPT ![k] = NoCertificate]
  /\ UNCHANGED <<issued, refused>>

\* The cluster's part.
Issue(k) ==
  /\ issued[k] \subseteq issued'[k]
  /\ issued' = [issued EXCEPT ![k] = issued'[k]]
  /\ UNCHANGED <<life, delivered, refused>>

Refuse(k) ==
  /\ refused' = refused \cup {k}
  /\ UNCHANGED <<life, delivered, issued>>

\* The operator's part: the two ends of a Kubeconfig that is open.
Deliver(k) ==
  /\ life[k] = "open"
  /\ life' = [life EXCEPT ![k] = "delivered"]
  /\ \E c \in issued[k] : delivered' = [delivered EXCEPT ![k] = c]
  /\ UNCHANGED <<issued, refused>>

Reject(k) ==
  /\ life[k] = "open" /\ k \in refused
  /\ life' = [life EXCEPT ![k] = "rejected"]
  /\ UNCHANGED <<delivered, issued, refused>>

Next ==
  \E k \in Names :
    \/ Ask(k) \/ Withdraw(k)
    \/ Issue(k) \/ Refuse(k)
    \/ Deliver(k) \/ Reject(k)

Spec == Init /\ [][Next]_lifecycleVars
=============================================================================
