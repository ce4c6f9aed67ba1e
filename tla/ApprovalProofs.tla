---------------------------- MODULE ApprovalProofs ----------------------------
(***************************************************************************)
(* The operator approves only what a Kubeconfig asks for: proof of         *)
(* ApprovedOnlyOnRequest for any value of the constants.                   *)
(*                                                                         *)
(* A CSR passes from the worker that makes it through the server and the   *)
(* cache to the worker that approves it, and the Kubeconfig it was made    *)
(* for may be edited, deleted and created again meanwhile.  The invariant  *)
(* Asked holds of the CSR wherever it is.                                  *)
(***************************************************************************)
EXTENDS VerdictProofs

\* An owner of the CSR c was created before now, and if the CSR is the operator's and
\* asks for the approval, the owner does, if it still exists and nothing was edited.
AskedIn(kcs, quiet, c) ==
  \A o \in c.owners :
    /\ o[2] <= kcs[o[1]].rv
    /\ /\ ~OfStranger(c) /\ c.autoApprove /\ quiet
       /\ kcs[o[1]].exists /\ kcs[o[1]].uid = o[2]
       => kcs[o[1]].spec.autoApproveCSR

Asked(c) == AskedIn(kubeconfig, Quiet({"edit"}), c)

\* A uid is the version the Kubeconfig was created with.
UidsAreOld == \A k \in Names : kubeconfig[k].uid <= kubeconfig[k].rv

\* The copy of the Kubeconfig from which a CSR is made asks for no more than
\* the Kubeconfig does.
CopyAsks ==
  w.pc # "idle" =>
    LET slot == kubeconfig[w.name]
    IN /\ w.kc.uid <= slot.rv
       /\ w.kc.spec.autoApproveCSR /\ Quiet({"edit"})
            /\ slot.exists /\ slot.uid = w.kc.uid => slot.spec.autoApproveCSR

Annotated(c) == c.autoApprove /\ c.owners # {}

ApprovalInv ==
  /\ VerdictInv
  /\ UidsAreOld
  /\ CopyAsks
  /\ \A k \in Names : Asked(csr[k]) /\ Asked(csrCache[k])
  /\ Asked(cw.csr)
  /\ cw.pc # "idle" => Annotated(cw.csr)
  /\ \A k \in Names : csr[k].approved = "operator" => Annotated(csr[k])

LEMMA ApprovalSuffices == ApprovalInv => ApprovedOnlyOnRequest
<1> SUFFICES ASSUME ApprovalInv, NEW k \in Names, csr[k].approved = "operator"
             PROVE  /\ csr[k].autoApprove /\ csr[k].owners # {}
                    /\ \A o \in csr[k].owners :
                         ~OfStranger(csr[k]) /\ Alive(o) /\ Quiet({"edit"}) =>
                           kubeconfig[o[1]].spec.autoApproveCSR
  BY DEF ApprovedOnlyOnRequest
<1> QED
  BY DEF ApprovalInv, Annotated, Asked, AskedIn, Alive

-----------------------------------------------------------------------------
(* What steps do to the Kubeconfigs, and that what was Asked stays so.      *)

\* A Kubeconfig that was created by now and is still there after the step, with
\* nothing edited, was there before it and asked for the same.
Kept ==
  \A k \in Names :
    /\ kubeconfig[k].rv <= kubeconfig'[k].rv
    /\ kubeconfig'[k].uid <= kubeconfig'[k].rv
    /\ /\ kubeconfig'[k].exists /\ Quiet({"edit"})'
       /\ kubeconfig'[k].uid <= kubeconfig[k].rv
       => /\ kubeconfig[k].exists /\ Quiet({"edit"})
          /\ kubeconfig[k].uid = kubeconfig'[k].uid
          /\ kubeconfig[k].spec.autoApproveCSR = kubeconfig'[k].spec.autoApproveCSR

LEMMA AskedStays ==
  ASSUME TypeOK, TypeOK', Kept, NEW c, c \in CsrSlot, Asked(c)
  PROVE  AskedIn(kubeconfig', Quiet({"edit"})', c)
<1> SUFFICES ASSUME NEW o \in c.owners
             PROVE  /\ o[2] <= kubeconfig'[o[1]].rv
                    /\ /\ ~OfStranger(c) /\ c.autoApprove /\ Quiet({"edit"})'
                       /\ kubeconfig'[o[1]].exists /\ kubeconfig'[o[1]].uid = o[2]
                       => kubeconfig'[o[1]].spec.autoApproveCSR
  BY DEF AskedIn
<1>1. o[1] \in Names /\ o[2] \in Nat
  BY DEF CsrSlot, Owner
<1>2. kubeconfig[o[1]].rv \in Nat /\ kubeconfig'[o[1]].rv \in Nat
  BY <1>1 DEF TypeOK, ApiTypeOK, KubeconfigSlot
<1>3. /\ o[2] <= kubeconfig[o[1]].rv
      /\ ~OfStranger(c) /\ c.autoApprove /\ Quiet({"edit"})
           /\ kubeconfig[o[1]].exists /\ kubeconfig[o[1]].uid = o[2]
           => kubeconfig[o[1]].spec.autoApproveCSR
  BY DEF Asked, AskedIn
<1> QED
  BY <1>1, <1>2, <1>3 DEF Kept

\* Only the owners, the annotation and the key matter.
LEMMA AskedAlike ==
  ASSUME NEW kcs, NEW quiet, NEW c, NEW d, AskedIn(kcs, quiet, c),
         d.owners = c.owners, d.autoApprove => c.autoApprove /\ d.key = c.key
  PROVE  AskedIn(kcs, quiet, d)
BY DEF AskedIn, OfStranger

\* Strangers write nothing into their CSRs that is to come.
LEMMA StrangersAsked ==
  ASSUME TypeOK, TypeOK', UidsAreOld, Kept, NEW c, OfStranger(c),
         c.owners \in SUBSET References
  PROVE  AskedIn(kubeconfig', Quiet({"edit"})', c)
<1>1. \A k \in Names : kubeconfig[k].uid <= kubeconfig'[k].rv /\ 0 <= kubeconfig'[k].rv
  BY DEF TypeOK, ApiTypeOK, KubeconfigSlot, UidsAreOld, Kept
<1>2. \A o \in References : o[2] <= kubeconfig'[o[1]].rv
  BY <1>1 DEF References
<1> QED
  BY <1>2 DEF AskedIn

LEMMA UnownedAsked ==
  ASSUME NEW kcs, NEW quiet, NEW c, c.owners = {}
  PROVE  AskedIn(kcs, quiet, c)
BY DEF AskedIn

LEMMA CopyStays ==
  ASSUME TypeOK, TypeOK', Kept, SameCopy, CopyAsks
  PROVE  CopyAsks'
<1> SUFFICES ASSUME w'.pc # "idle"
             PROVE  /\ w'.kc.uid <= kubeconfig'[w'.name].rv
                    /\ /\ w'.kc.spec.autoApproveCSR /\ Quiet({"edit"})'
                       /\ kubeconfig'[w'.name].exists
                       /\ kubeconfig'[w'.name].uid = w'.kc.uid
                       => kubeconfig'[w'.name].spec.autoApproveCSR
  BY DEF CopyAsks
<1>1. /\ w.pc # "idle" /\ w'.name = w.name /\ w.name \in Names
      /\ w'.kc.uid = w.kc.uid /\ w'.kc.spec = w.kc.spec /\ w.kc.uid \in Nat
  BY Busy DEF SameCopy
<1>2. kubeconfig[w.name].rv \in Nat /\ kubeconfig'[w.name].rv \in Nat
  BY <1>1 DEF TypeOK, ApiTypeOK, KubeconfigSlot
<1>3. /\ w.kc.uid <= kubeconfig[w.name].rv
      /\ w.kc.spec.autoApproveCSR /\ Quiet({"edit"})
           /\ kubeconfig[w.name].exists /\ kubeconfig[w.name].uid = w.kc.uid
           => kubeconfig[w.name].spec.autoApproveCSR
  BY <1>1 DEF CopyAsks
<1> QED
  BY <1>1, <1>2, <1>3 DEF Kept

\* Counting an event does not make it quiet again.
LEMMA SpendQuiet ==
  ASSUME TypeOK, UNCHANGED used \/ \E kinds : Spend(kinds), Quiet({"edit"})'
  PROVE  Quiet({"edit"})
<1>1. used["edit"] \in Nat /\ "edit" \in Kinds
  BY DEF TypeOK, ApiTypeOK, Kinds
<1>2. used'["edit"] = used["edit"] \/ used'["edit"] = used["edit"] + 1
  BY <1>1 DEF Spend
<1> QED
  BY <1>1, <1>2 DEF Quiet

LEMMA UnchangedKept ==
  ASSUME TypeOK, UidsAreOld, UNCHANGED kubeconfig,
         UNCHANGED used \/ \E kinds : Spend(kinds)
  PROVE  Kept
<1>1. \A k \in Names : kubeconfig[k].rv \in Nat
  BY DEF TypeOK, ApiTypeOK, KubeconfigSlot
<1> QED
  BY <1>1, SpendQuiet DEF Kept, UidsAreOld

\* One Kubeconfig is written.
LEMMA OneKept ==
  ASSUME TypeOK, UidsAreOld, NEW k \in Names, NEW new \in KubeconfigSlot,
         kubeconfig' = [kubeconfig EXCEPT ![k] = new],
         UNCHANGED used \/ \E kinds : Spend(kinds),
         kubeconfig[k].rv <= new.rv, new.uid <= new.rv,
         /\ new.exists /\ Quiet({"edit"})' /\ new.uid <= kubeconfig[k].rv
         => /\ kubeconfig[k].exists /\ kubeconfig[k].uid = new.uid
            /\ kubeconfig[k].spec.autoApproveCSR = new.spec.autoApproveCSR
  PROVE  Kept
<1>1. ASSUME NEW j \in Names, j # k
      PROVE  /\ kubeconfig'[j] = kubeconfig[j] /\ kubeconfig[j].rv \in Nat
             /\ kubeconfig[j].uid <= kubeconfig[j].rv
  BY <1>1 DEF TypeOK, ApiTypeOK, KubeconfigSlot, UidsAreOld
<1>2. kubeconfig'[k] = new
  BY DEF TypeOK, ApiTypeOK
<1>3. \A j \in Names \ {k} : kubeconfig[j].rv <= kubeconfig[j].rv
  BY <1>1
<1> QED
  BY <1>1, <1>2, <1>3, SpendQuiet DEF Kept

LEMMA UserKept ==
  ASSUME TypeOK, UidsAreOld, UserNext
  PROVE  Kept
<1>1. kubeconfig \in [Names -> KubeconfigSlot] /\ used \in [Kinds -> Nat]
  BY DEF TypeOK, ApiTypeOK
<1>2. ASSUME NEW k \in Names, NEW spec \in Requests, NEW lookup \in Lookup,
             CreateKubeconfig(k, spec, lookup)
      PROVE  Kept
  <2> DEFINE asked == [NoKubeconfig EXCEPT !.spec = spec,
                                           !.uid = kubeconfig[k].rv + 1]
             kept == KeepStatus(Default(asked, Found(lookup)), NoKubeconfig)
             new == Created(kubeconfig[k], kept)
  <2>1. asked \in KubeconfigSlot /\ asked.spec \in KubeconfigSpec
    <3>1. spec \in KubeconfigSpec /\ kubeconfig[k].rv + 1 \in Nat
      BY <1>1, ConstantsAssumption DEF KubeconfigSlot
    <3> QED
      BY <3>1, BlankTypes, Zenon DEF KubeconfigSlot
  <2>2. kept \in KubeconfigSlot
    <3>1. NoKubeconfig.status \in KubeconfigStatus
      BY BlankTypes DEF KubeconfigSlot
    <3> QED
      BY <2>1, <3>1, FoundTypes, DefaultTypes
  <2>3. kept.uid = kubeconfig[k].rv + 1
    <3>1. asked.uid = kubeconfig[k].rv + 1
      BY BlankTypes, Zenon DEF KubeconfigSlot
    <3> HIDE DEF asked
    <3> QED
      BY <2>1, <3>1, Zenon DEF KeepStatus, Default, KubeconfigSlot
  <2> HIDE DEF kept
  <2>4. /\ new \in KubeconfigSlot /\ new.uid = kubeconfig[k].rv + 1
        /\ new.rv = kubeconfig[k].rv + 1
    <3>1. new \in KubeconfigSlot
      BY <1>1, <2>2, KubeconfigWriteTypes
    <3> QED
      BY <2>2, <2>3, <3>1, Zenon DEF Created, KubeconfigSlot
  <2>5. kubeconfig' = [kubeconfig EXCEPT ![k] = new] /\ \E kinds : Spend(kinds)
    BY <1>2 DEF CreateKubeconfig, AdmitKubeconfig, kept
  <2>6. kubeconfig[k].rv \in Nat
    BY <1>1 DEF KubeconfigSlot
  <2>7. /\ kubeconfig[k].rv <= new.rv /\ new.uid <= new.rv
        /\ ~(new.uid <= kubeconfig[k].rv)
    BY <2>4, <2>6
  <2> HIDE DEF new
  <2> QED
    BY <2>4, <2>5, <2>7, OneKept
<1>3. ASSUME NEW k \in Names, NEW spec \in Requests, NEW lookup \in Lookup,
             UpdateKubeconfig(k, spec, lookup)
      PROVE  Kept
  <2> DEFINE old == kubeconfig[k]
             asked == [old EXCEPT !.spec = spec]
             kept == KeepStatus(Default(asked, Found(lookup)), old)
             new == Stored(old, kept)
  <2>1. asked \in KubeconfigSlot /\ asked.spec \in KubeconfigSpec
    BY <1>1, ConstantsAssumption, Zenon DEF KubeconfigSlot
  <2>2. kept \in KubeconfigSlot /\ kept.uid = old.uid
    <3>1. old.status \in KubeconfigStatus
      BY <1>1 DEF KubeconfigSlot
    <3>2. kept \in KubeconfigSlot
      BY <2>1, <3>1, FoundTypes, DefaultTypes
    <3>3. asked.uid = old.uid
      BY <1>1 DEF KubeconfigSlot
    <3> HIDE DEF asked
    <3> QED
      BY <2>1, <3>2, <3>3, Zenon DEF KeepStatus, Default, KubeconfigSlot
  <2> HIDE DEF kept
  <2>3. old.rv \in Nat /\ old.uid \in Nat /\ old.uid <= old.rv
    BY <1>1 DEF KubeconfigSlot, UidsAreOld
  <2>4. new \in KubeconfigSlot /\ old.rv <= new.rv /\ new.uid <= new.rv
    BY <1>1, <2>2, <2>3, KubeconfigWriteTypes DEF Stored, KubeconfigSlot
  <2>5. /\ kubeconfig' = [kubeconfig EXCEPT ![k] = new]
        /\ Spend({"edit"} \cup LookupCost(lookup))
    BY <1>3 DEF UpdateKubeconfig, AdmitKubeconfig, kept
  <2>6. ~Quiet({"edit"})'
    BY <1>1, <2>5 DEF Spend, Quiet, Kinds
  <2> HIDE DEF new
  <2> QED
    BY <2>4, <2>5, <2>6, OneKept
<1>4. ASSUME NEW k \in Names, DeleteKubeconfig(k)
      PROVE  Kept
  <2> DEFINE new == Removed(kubeconfig[k], NoKubeconfig)
  <2>1. new \in KubeconfigSlot
    BY <1>1, BlankTypes, KubeconfigWriteTypes
  <2>2. ~new.exists /\ new.uid = 0 /\ new.rv = kubeconfig[k].rv + 1
    BY DEF Removed, NoKubeconfig
  <2>3. kubeconfig' = [kubeconfig EXCEPT ![k] = new] /\ \E kinds : Spend(kinds)
    BY <1>4 DEF DeleteKubeconfig, AdmitKubeconfig
  <2>4. kubeconfig[k].rv \in Nat
    BY <1>1 DEF KubeconfigSlot
  <2>5. kubeconfig[k].rv <= new.rv /\ new.uid <= new.rv
    BY <2>2, <2>4
  <2> HIDE DEF new
  <2> QED
    BY <2>1, <2>2, <2>3, <2>5, OneKept
<1> QED
  BY <1>2, <1>3, <1>4 DEF UserNext

LEMMA UpdateStatusKept ==
  ASSUME TypeOK, UidsAreOld, NEW reply \in Reply, UpdateStatus(reply)
  PROVE  Kept
<1> DEFINE k == w.name
           old == kubeconfig[k]
           updated == [old EXCEPT !.status = Persisted(w.kc.status)]
           new == IF reply # "error" /\ Current(w.kc, old)
                  THEN Stored(old, updated) ELSE old
<1>1. k \in Names /\ w.kc.status \in KubeconfigStatus
  BY Busy DEF UpdateStatus
<1>2. old \in KubeconfigSlot
  BY <1>1 DEF TypeOK, ApiTypeOK
<1>3. Persisted(w.kc.status) \in KubeconfigStatus
  <2>1. [w.kc.status EXCEPT !.phase = "Unknown"] \in KubeconfigStatus
    BY <1>1, Zenon DEF KubeconfigStatus, Phase
  <2> QED
    BY <1>1, <2>1 DEF Persisted
<1>4. /\ updated \in KubeconfigSlot /\ updated.exists = old.exists
      /\ updated.uid = old.uid /\ updated.spec = old.spec
  BY <1>2, <1>3 DEF KubeconfigSlot
<1> HIDE DEF updated
<1>5. old.rv \in Nat /\ old.uid \in Nat /\ old.uid <= old.rv
  BY <1>1, <1>2 DEF KubeconfigSlot, UidsAreOld
<1>6. Stored(old, updated) \in KubeconfigSlot
  BY <1>2, <1>4, KubeconfigWriteTypes
<1>7. /\ new \in KubeconfigSlot /\ new.exists = old.exists /\ new.uid = old.uid
      /\ new.spec = old.spec /\ old.rv <= new.rv
  BY <1>2, <1>4, <1>5, <1>6 DEF Stored, KubeconfigSlot
<1>8. kubeconfig' = [kubeconfig EXCEPT ![k] = new] /\ \E kinds : Spend(kinds)
  BY DEF UpdateStatus, Answer, updated
<1>9. new.uid <= new.rv
  <2>1. new.rv \in Nat
    BY <1>7 DEF KubeconfigSlot
  <2> QED
    BY <1>5, <1>7, <2>1
<1> HIDE DEF new
<1>10. /\ kubeconfig[k].rv <= new.rv
       /\ new.exists => kubeconfig[k].exists
       /\ kubeconfig[k].uid = new.uid
       /\ kubeconfig[k].spec.autoApproveCSR = new.spec.autoApproveCSR
  BY <1>7
<1> HIDE DEF k, old
<1> QED
  BY <1>1, <1>7, <1>8, <1>9, <1>10, OneKept

-----------------------------------------------------------------------------
(* Where CSRs come from and go.                                             *)

\* A CSR is written from what it was, from the approving worker's copy or from
\* the creating worker's Kubeconfig, or it is a stranger's.
CsrMove ==
  \A k \in Names :
    LET c == csr'[k] IN
    \/ /\ c.owners = csr[k].owners /\ c.autoApprove = csr[k].autoApprove
       /\ c.key = csr[k].key
       /\ c.approved = csr[k].approved \/ c.approved # "operator"
    \/ c.owners = csr[k].owners /\ ~c.autoApprove /\ c.approved # "operator"
    \/ /\ OfStranger(c) /\ c.owners \in SUBSET References
       /\ c.approved # "operator"
    \/ /\ cw.pc # "idle"
       /\ c.owners = cw.csr.owners /\ c.autoApprove = cw.csr.autoApprove
       /\ c.key = cw.csr.key
    \/ /\ w.pc # "idle" /\ c.approved # "operator"
       /\ c.owners = {<<w.name, w.kc.uid>>}
       /\ c.autoApprove = w.kc.spec.autoApproveCSR

\* The cache copies what is stored.
CacheMove == \A k \in Names : csrCache'[k] = csrCache[k] \/ csrCache'[k] = csr[k]

\* The approving worker takes a CSR from the cache, keeps it or drops it.
ApproverMove ==
  \/ UNCHANGED cw
  \/ cw' = CsrIdle
  \/ \E k \in Names : /\ cw'.name = k /\ cw'.csr = csrCache[k]
                     /\ Annotated(csrCache[k])

LEMMA MovesKeepAsked ==
  ASSUME ApprovalInv, TypeOK', Kept, CsrMove, CacheMove, ApproverMove
  PROVE  /\ \A k \in Names : Asked(csr[k])' /\ Asked(csrCache[k])'
         /\ Asked(cw.csr)'
         /\ (cw.pc # "idle" => Annotated(cw.csr))'
         /\ (\A k \in Names : csr[k].approved = "operator" => Annotated(csr[k]))'
<1> DEFINE AskedNext(c) == AskedIn(kubeconfig', Quiet({"edit"})', c)
<1>0. TypeOK
  BY DEF ApprovalInv, VerdictInv
<1>1. ASSUME NEW k \in Names
      PROVE  AskedNext(csr[k]) /\ AskedNext(csrCache[k])
  <2>1. csr[k] \in CsrSlot /\ csrCache[k] \in CsrSlot
    BY <1>0 DEF TypeOK, ApiTypeOK
  <2>2. Asked(csr[k]) /\ Asked(csrCache[k])
    BY DEF ApprovalInv
  <2> QED
    BY <1>0, <2>1, <2>2, AskedStays
<1>2. AskedNext(cw.csr)
  <2>1. cw.csr \in CsrSlot
    BY <1>0 DEF TypeOK, CsrTypeOK, CsrWorker
  <2>2. Asked(cw.csr)
    BY DEF ApprovalInv
  <2> QED
    BY <1>0, <2>1, <2>2, AskedStays
<1>3. ASSUME NEW k \in Names
      PROVE  /\ AskedNext(csr'[k])
             /\ csr'[k].approved = "operator" => Annotated(csr'[k])
  <2> DEFINE c == csr'[k]
  <2>1. CASE /\ c.owners = csr[k].owners /\ c.autoApprove = csr[k].autoApprove
             /\ c.key = csr[k].key
             /\ c.approved = csr[k].approved \/ c.approved # "operator"
    BY <1>1, <2>1, AskedAlike DEF ApprovalInv, Annotated
  <2>2. CASE c.owners = csr[k].owners /\ ~c.autoApprove /\ c.approved # "operator"
    BY <1>1, <2>2, AskedAlike
  <2>5. CASE /\ OfStranger(c) /\ c.owners \in SUBSET References
             /\ c.approved # "operator"
    BY <1>0, <2>5, StrangersAsked DEF ApprovalInv
  <2>3. CASE /\ cw.pc # "idle"
             /\ c.owners = cw.csr.owners /\ c.autoApprove = cw.csr.autoApprove
             /\ c.key = cw.csr.key
    BY <1>2, <2>3, AskedAlike DEF ApprovalInv, Annotated
  <2>4. CASE /\ w.pc # "idle" /\ c.approved # "operator"
             /\ c.owners = {<<w.name, w.kc.uid>>}
             /\ c.autoApprove = w.kc.spec.autoApproveCSR
    <3>1. /\ w.kc.uid <= kubeconfig[w.name].rv
          /\ w.kc.spec.autoApproveCSR /\ Quiet({"edit"})
               /\ kubeconfig[w.name].exists /\ kubeconfig[w.name].uid = w.kc.uid
               => kubeconfig[w.name].spec.autoApproveCSR
      BY <2>4 DEF ApprovalInv, CopyAsks
    <3>2. w.name \in Names /\ w.kc.uid \in Nat
      BY <1>0, <2>4, Busy
    <3>3. kubeconfig[w.name].rv \in Nat /\ kubeconfig'[w.name].rv \in Nat
      BY <1>0, <3>2 DEF TypeOK, ApiTypeOK, KubeconfigSlot
    <3>4. /\ w.kc.uid <= kubeconfig'[w.name].rv
          /\ w.kc.spec.autoApproveCSR /\ Quiet({"edit"})'
               /\ kubeconfig'[w.name].exists /\ kubeconfig'[w.name].uid = w.kc.uid
               => kubeconfig'[w.name].spec.autoApproveCSR
      BY <3>1, <3>2, <3>3 DEF Kept
    <3> QED
      BY <2>4, <3>4 DEF AskedIn
  <2> QED
    BY <2>1, <2>2, <2>3, <2>4, <2>5 DEF CsrMove
<1>4. \A k \in Names : AskedNext(csrCache'[k])
  BY <1>1 DEF CacheMove
<1>5. AskedNext(cw'.csr) /\ (cw'.pc # "idle" => Annotated(cw'.csr))
  <2>1. CASE UNCHANGED cw
    BY <1>2, <2>1 DEF ApprovalInv
  <2>2. CASE cw' = CsrIdle
    BY <2>2, UnownedAsked DEF CsrIdle, NoCsr
  <2>3. CASE \E k \in Names : /\ cw'.name = k /\ cw'.csr = csrCache[k]
                              /\ Annotated(csrCache[k])
    BY <1>1, <2>3
  <2> QED
    BY <2>1, <2>2, <2>3 DEF ApproverMove
<1> QED
  BY <1>3, <1>4, <1>5 DEF Asked, Annotated

\* One CSR is written.
LEMMA OneCsrMoves ==
  ASSUME TypeOK, NEW k \in Names, NEW new, csr' = [csr EXCEPT ![k] = new],
         \/ /\ new.owners = csr[k].owners /\ new.autoApprove = csr[k].autoApprove
            /\ new.key = csr[k].key
            /\ new.approved = csr[k].approved \/ new.approved # "operator"
         \/ /\ new.owners = csr[k].owners /\ ~new.autoApprove
            /\ new.approved # "operator"
         \/ /\ OfStranger(new) /\ new.owners \in SUBSET References
            /\ new.approved # "operator"
         \/ /\ cw.pc # "idle"
            /\ new.owners = cw.csr.owners /\ new.autoApprove = cw.csr.autoApprove
            /\ new.key = cw.csr.key
         \/ /\ w.pc # "idle" /\ new.approved # "operator"
            /\ new.owners = {<<w.name, w.kc.uid>>}
            /\ new.autoApprove = w.kc.spec.autoApproveCSR
  PROVE  CsrMove
BY DEF TypeOK, ApiTypeOK, CsrMove

LEMMA ClusterMoves ==
  ASSUME TypeOK, ClusterNext
  PROVE  CsrMove /\ CacheMove /\ ApproverMove
<1>1. CASE \/ \E s \in SecretNames : SyncSecret(s) \/ SecretGone(s) \/ CollectSecret(s)
           \/ \E s \in ExistingSecrets, filled \in BOOLEAN : ProvideSecret(s, filled)
           \/ \E k \in Names : SyncCsr(k) \/ Resync(k)
           \/ \E u \in Users : SyncCrb(u)
           \/ SyncClusterInfo
           \/ \E info \in ClusterInfos : PublishClusterInfo(info)
  BY <1>1 DEF SyncSecret, SecretGone, CollectSecret, ProvideSecret, SyncCsr, Resync,
              SyncCrb, SyncClusterInfo, PublishClusterInfo, ChangeSecret, stored,
              caches, workers, CsrMove, CacheMove,
              ApproverMove, TypeOK, ApiTypeOK
<1>2. ASSUME NEW k \in Names,
             \/ AdminApprove(k) \/ AdminDeny(k) \/ SignerIssue(k) \/ SignerFail(k)
             \/ CsrGone(k) \/ CollectCsr(k)
             \/ \E annotated \in BOOLEAN, owners \in SUBSET References :
                  ForeignCsr(k, annotated, owners)
      PROVE  CsrMove /\ CacheMove /\ ApproverMove
  <2>1. CacheMove /\ ApproverMove
    BY <1>2 DEF AdminApprove, AdminDeny, SignerIssue, SignerFail, CsrGone, CollectCsr,
                ForeignCsr, ChangeCsr, caches, workers, CacheMove, ApproverMove
  <2>2. csr[k] \in CsrSlot
    BY DEF TypeOK, ApiTypeOK
  <2>3. CASE AdminApprove(k) \/ AdminDeny(k) \/ SignerIssue(k) \/ SignerFail(k)
    <3>1. PICK d : /\ csr' = [csr EXCEPT ![k] = Stored(csr[k], d)]
                   /\ \/ d = [csr[k] EXCEPT !.approved = "admin"]
                      \/ d = [csr[k] EXCEPT !.denied = TRUE]
                      \/ d = [csr[k] EXCEPT !.cert = [key |-> csr[k].key,
                                                      cn |-> csr[k].cn]]
                      \/ d = [csr[k] EXCEPT !.failed = TRUE]
      BY <2>3 DEF AdminApprove, AdminDeny, SignerIssue, SignerFail, ChangeCsr
    <3>2. /\ d.owners = csr[k].owners /\ d.autoApprove = csr[k].autoApprove
          /\ d.key = csr[k].key
          /\ d.approved = csr[k].approved \/ d.approved # "operator"
      BY <2>2, <3>1 DEF CsrSlot
    <3> DEFINE new == Stored(csr[k], d)
    <3>3. /\ new.owners = csr[k].owners /\ new.autoApprove = csr[k].autoApprove
          /\ new.key = csr[k].key
          /\ new.approved = csr[k].approved \/ new.approved # "operator"
      BY <2>2, <3>1, <3>2 DEF Stored, CsrSlot
    <3> HIDE DEF new
    <3>4. csr' = [csr EXCEPT ![k] = new]
      BY <3>1 DEF new
    <3> QED
      BY <2>1, <3>3, <3>4, OneCsrMoves
  <2>4. CASE CsrGone(k) \/ CollectCsr(k)
    <3> DEFINE new == RemovedCsr(csr[k])
    <3>1. /\ new.owners = csr[k].owners /\ ~new.autoApprove
          /\ new.approved # "operator"
      BY <2>2, RemovedCsrFields
    <3>2. csr' = [csr EXCEPT ![k] = new]
      BY <2>4 DEF CsrGone, CollectCsr, ChangeCsr
    <3> HIDE DEF new
    <3> QED
      BY <2>1, <3>1, <3>2, OneCsrMoves
  <2>5. ASSUME NEW annotated \in BOOLEAN, NEW owners \in SUBSET References,
               ForeignCsr(k, annotated, owners)
        PROVE  CsrMove
    <3> DEFINE asked == StrangersCsr(annotated, owners)
               new == Created(csr[k], asked)
    <3>1. /\ asked \in CsrSlot /\ asked.key = UserKey /\ asked.owners = owners
          /\ asked.approved = "no"
      BY StrangersFields
    <3>2. csr' = [csr EXCEPT ![k] = new]
      BY <2>5 DEF ForeignCsr, ChangeCsr, StrangersCsr
    <3> HIDE DEF asked
    <3>3. new.key = UserKey /\ new.owners = owners /\ new.approved = "no"
      BY <3>1, Zenon DEF Created, CsrSlot
    <3>4. /\ OfStranger(new) /\ new.owners \in SUBSET References
          /\ new.approved # "operator"
      BY <3>3 DEF OfStranger
    <3> HIDE DEF new
    <3> QED
      BY <3>2, <3>4, OneCsrMoves
  <2> QED
    BY <1>2, <2>1, <2>3, <2>4, <2>5
<1> QED
  BY <1>1, <1>2 DEF ClusterNext

LEMMA CreateCsrMoves ==
  ASSUME TypeOK, NEW reply \in Reply, CreateCsr(reply)
  PROVE  CsrMove
<1> DEFINE asked == createCsr(w.name, w.kc, w.secret.key)
           new == Created(csr[w.name], asked)
<1>1. w.pc # "idle" /\ w.name \in Names
  BY Busy DEF CreateCsr
<1>2. /\ asked.owners = {<<w.name, w.kc.uid>>} /\ asked.approved = "no"
      /\ asked.autoApprove = w.kc.spec.autoApproveCSR
  BY DEF createCsr, NoCsr
<1>3. asked \in CsrSlot /\ csr[w.name] \in CsrSlot
  BY <1>1, RequestTypes DEF TypeOK, ApiTypeOK
<1> HIDE DEF asked
<1>4. /\ new.owners = asked.owners /\ new.approved = asked.approved
      /\ new.autoApprove = asked.autoApprove
  BY <1>3, Zenon DEF Created, CsrSlot
<1>5. csr' = csr \/ csr' = [csr EXCEPT ![w.name] = new]
  BY DEF CreateCsr, asked
<1> HIDE DEF new
<1>6. CASE csr' = csr
  BY <1>6 DEF CsrMove
<1>7. CASE csr' = [csr EXCEPT ![w.name] = new]
  BY <1>1, <1>2, <1>4, <1>7, OneCsrMoves
<1> QED
  BY <1>5, <1>6, <1>7

LEMMA ApproverMoves ==
  ASSUME TypeOK, CsrNext
  PROVE  CsrMove /\ CacheMove /\ ApproverMove
<1>1. CacheMove
  BY DEF CsrNext, GetCsrToApprove, ApproveCSR, caches, CacheMove
<1>2. ASSUME NEW k \in Names, GetCsrToApprove(k)
      PROVE  CsrMove /\ ApproverMove
  <2>1. CsrMove
    BY <1>2 DEF GetCsrToApprove, stored, CsrMove
  <2>2. ApproverMove
    BY <1>2 DEF GetCsrToApprove, ApproverMove, Annotated, isKubeconfigV1Alpha1CSR,
                hasAutoApproveAnnotation
  <2> QED
    BY <2>1, <2>2
<1>3. ASSUME NEW reply \in Reply, ApproveCSR(reply)
      PROVE  CsrMove /\ ApproverMove
  <2> DEFINE d == setStatusCondition(cw.csr)
             new == Stored(csr[cw.name], d)
  <2>1. cw.pc # "idle" /\ cw.name \in Names /\ cw.csr \in CsrSlot
    BY <1>3 DEF ApproveCSR, TypeOK, CsrTypeOK, CsrWorker
  <2>2. csr[cw.name] \in CsrSlot
    BY <2>1 DEF TypeOK, ApiTypeOK
  <2>3. /\ d \in CsrSlot /\ d.owners = cw.csr.owners
        /\ d.autoApprove = cw.csr.autoApprove /\ d.key = cw.csr.key
    BY <2>1 DEF setStatusCondition, CsrSlot
  <2> HIDE DEF d
  <2>4. /\ new.owners = cw.csr.owners /\ new.autoApprove = cw.csr.autoApprove
        /\ new.key = cw.csr.key
    BY <2>2, <2>3 DEF Stored, CsrSlot
  <2>5. /\ csr' = csr \/ csr' = [csr EXCEPT ![cw.name] = new]
        /\ ApproverMove
    BY <1>3 DEF ApproveCSR, ApproverMove, d
  <2> HIDE DEF new
  <2>6. CASE csr' = csr
    BY <2>5, <2>6 DEF CsrMove
  <2>7. CASE csr' = [csr EXCEPT ![cw.name] = new]
    BY <2>1, <2>4, <2>5, <2>7, OneCsrMoves
  <2> QED
    BY <2>5, <2>6, <2>7
<1> QED
  BY <1>1, <1>2, <1>3 DEF CsrNext

LEMMA AllMove ==
  ASSUME TypeOK, [Next]_vars
  PROVE  CsrMove /\ CacheMove /\ ApproverMove
<1>1. CASE UserNext
  BY <1>1 DEF UserNext, CreateKubeconfig, UpdateKubeconfig, DeleteKubeconfig,
              AdmitKubeconfig, caches, workers, CsrMove, CacheMove, ApproverMove
<1>2. CASE ClusterNext
  BY <1>2, ClusterMoves
<1>3. CASE ReconcilerNext
  <2>1. CacheMove /\ ApproverMove
    BY <1>3 DEF ReconcilerNext, Reads, Writes, GetKubeconfig, GetExistingSecret,
                GetUserSecret, GetCrb, GetCsrNotFound, GetCsrRejected, GetCsrPending,
                GetCsrUnsigned, GetCsrSigned, CreateUserSecret, UpdateSecretKey,
                CreateCsr, UpdateSecretCert, CreateCrb, UpdateStatus, UpdateSecret,
                OnlyReads, caches, CacheMove, ApproverMove
  <2>2. CASE \E reply \in Reply : CreateCsr(reply)
    BY <2>1, <2>2, CreateCsrMoves
  <2>3. CASE UNCHANGED csr
    BY <2>1, <2>3 DEF CsrMove
  <2>4. UNCHANGED csr \/ \E reply \in Reply : CreateCsr(reply)
    BY <1>3 DEF ReconcilerNext, Reads, Writes, GetKubeconfig, GetExistingSecret,
                GetUserSecret, GetCrb, GetCsrNotFound, GetCsrRejected, GetCsrPending,
                GetCsrUnsigned, GetCsrSigned, CreateUserSecret, UpdateSecretKey,
                UpdateSecretCert, CreateCrb, UpdateStatus, UpdateSecret, OnlyReads,
                stored
  <2> QED
    BY <2>2, <2>3, <2>4
<1>4. CASE CsrNext
  BY <1>4, ApproverMoves
<1>5. CASE Crash \/ Panic
  BY <1>5 DEF Crash, Panic, Restart, stored, CsrMove, CacheMove, ApproverMove
<1>6. CASE UNCHANGED vars
  BY <1>6 DEF vars, stored, caches, workers, CsrMove, CacheMove, ApproverMove
<1> QED
  BY <1>1, <1>2, <1>3, <1>4, <1>5, <1>6 DEF Next

LEMMA AllKept ==
  ASSUME TypeOK, UidsAreOld, [Next]_vars
  PROVE  Kept
<1>1. CASE UserNext
  BY <1>1, UserKept
<1>2. CASE \E reply \in Reply : UpdateStatus(reply)
  BY <1>2, UpdateStatusKept
<1>3. CASE UNCHANGED kubeconfig /\ (UNCHANGED used \/ \E kinds : Spend(kinds))
  BY <1>3, UnchangedKept
<1>4. CASE ClusterNext \/ CsrNext \/ Crash \/ Panic \/ UNCHANGED vars
  <2>1. UNCHANGED kubeconfig
    BY <1>4 DEF ClusterNext, CsrNext, Crash, Panic, Restart, vars, stored,
                SyncSecret, SyncCsr, SyncCrb, Resync, AdminApprove, AdminDeny,
                SignerIssue, SignerFail, CsrGone, CollectCsr, ForeignCsr, SecretGone,
                CollectSecret, ProvideSecret, ChangeCsr, ChangeSecret,
                SyncClusterInfo, PublishClusterInfo, GetCsrToApprove, ApproveCSR
  <2>2. UNCHANGED used \/ \E kinds : Spend(kinds)
    BY <1>4, Zenon
       DEF ClusterNext, CsrNext, Crash, Panic, Restart, vars, Answer,
           SyncSecret, SyncCsr, SyncCrb, Resync, AdminApprove, AdminDeny,
           SignerIssue, SignerFail, CsrGone, CollectCsr, ForeignCsr, SecretGone,
           CollectSecret, ProvideSecret, SyncClusterInfo, PublishClusterInfo,
           GetCsrToApprove, ApproveCSR
  <2> QED
    BY <1>3, <2>1, <2>2
<1>5. CASE ReconcilerNext /\ ~\E reply \in Reply : UpdateStatus(reply)
  <2>1. UNCHANGED kubeconfig
    BY <1>5 DEF ReconcilerNext, Reads, Writes, GetKubeconfig, GetExistingSecret,
                GetUserSecret, GetCrb, GetCsrNotFound, GetCsrRejected, GetCsrPending,
                GetCsrUnsigned, GetCsrSigned, CreateUserSecret, UpdateSecretKey,
                CreateCsr, UpdateSecretCert, CreateCrb, UpdateSecret, OnlyReads,
                stored
  <2>2. UNCHANGED used \/ \E kinds : Spend(kinds)
    BY <1>5, Zenon
       DEF ReconcilerNext, Reads, Writes, GetKubeconfig, GetExistingSecret,
           GetUserSecret, GetCrb, GetCsrNotFound, GetCsrRejected, GetCsrPending,
           GetCsrUnsigned, GetCsrSigned, CreateUserSecret, UpdateSecretKey,
           CreateCsr, UpdateSecretCert, CreateCrb, UpdateSecret, Answer
  <2> QED
    BY <1>3, <2>1, <2>2
<1> QED
  BY <1>1, <1>2, <1>4, <1>5 DEF Next

LEMMA CopyStep ==
  ASSUME ApprovalInv, TypeOK', Kept, [Next]_vars
  PROVE  CopyAsks'
<1>0. TypeOK /\ VerdictInv /\ CopyAsks /\ UidsAreOld
  BY DEF ApprovalInv, VerdictInv
<1>1. CASE SameCopy
  BY <1>0, <1>1, CopyStays
<1>2. ASSUME NEW k \in Names, GetKubeconfig(k)
      PROVE  CopyAsks'
  <2>1. CASE UNCHANGED w
    BY <1>0, <2>1, CopyStays DEF SameCopy
  <2>2. CASE w' = [Idle EXCEPT !.pc = "getSecret", !.name = k, !.kc = kubeconfig[k]]
    <3>1. w' = [pc |-> "getSecret", name |-> k, kc |-> kubeconfig[k],
                secret |-> NoSecret, requeue |-> FALSE]
      BY <2>2 DEF Idle
    <3>2. UNCHANGED kubeconfig
      BY <1>2 DEF GetKubeconfig, OnlyReads, stored
    <3> QED
      BY <1>0, <3>1, <3>2 DEF CopyAsks, UidsAreOld
  <2> QED
    BY <1>2, <2>1, <2>2 DEF GetKubeconfig
<1> QED
  BY <1>0, <1>1, <1>2, UserKeepsVerdicts, ReconcilerKeepsVerdicts, OthersKeepVerdicts
     DEF Next, ReconcilerNext

LEMMA ApprovalStep ==
  ASSUME ApprovalInv, [Next]_vars
  PROVE  ApprovalInv'
<1>1. TypeOK /\ VerdictInv /\ UidsAreOld
  BY DEF ApprovalInv, VerdictInv
<1>2. VerdictInv' /\ TypeOK'
  BY <1>1, VerdictStep DEF VerdictInv
<1>3. Kept
  BY <1>1, AllKept
<1>4. UidsAreOld'
  BY <1>3 DEF Kept, UidsAreOld
<1>5. CopyAsks'
  BY <1>2, <1>3, CopyStep
<1>6. CsrMove /\ CacheMove /\ ApproverMove
  BY <1>1, AllMove
<1> QED
  BY <1>2, <1>3, <1>4, <1>5, <1>6, MovesKeepAsked DEF ApprovalInv

LEMMA ApprovalInit == Init => ApprovalInv
<1> SUFFICES ASSUME Init PROVE ApprovalInv
  OBVIOUS
<1>1. VerdictInv
  BY TypeInit DEF VerdictInv, FreshCopy, Init, Idle
<1>2. UidsAreOld /\ CopyAsks
  BY DEF Init, ApiInit, NoKubeconfig, UidsAreOld, CopyAsks, Idle
<1>3. \A k \in Names : csr[k] = NoCsr /\ csrCache[k] = NoCsr
  BY DEF Init, ApiInit
<1>4. cw.pc = "idle" /\ cw.csr = NoCsr
  BY DEF Init, CsrIdle
<1>5. NoCsr.owners = {} /\ NoCsr.approved # "operator"
  BY DEF NoCsr
<1>6. Asked(NoCsr)
  BY <1>5, UnownedAsked DEF Asked
<1> QED
  BY <1>1, <1>2, <1>3, <1>4, <1>5, <1>6 DEF ApprovalInv

\* Whatever CSR the operator has approved carries the annotation and refers to some
\* Kubeconfig, and if it is of the operator's own making, every Kubeconfig it was made
\* for that still exists asks for automatic approval, if nothing was edited: whatever
\* CSRs strangers put into the way, with whatever owners, and however often the
\* Kubeconfig was deleted and created again with another wish.
THEOREM ApprovalOnRequest == Spec => []ApprovedOnlyOnRequest
<1>1. ApprovalInv /\ [Next]_vars => ApprovalInv'
  BY ApprovalStep
<1> QED
  BY <1>1, ApprovalInit, ApprovalSuffices, PTL DEF Spec
=============================================================================
