# The kubeconfig operator in TLA+

A user creates a `Kubeconfig` object; the operator makes a secret, a private
key, a certificate signing request (CSR) and a cluster role binding for it,
waits until the CSR is approved and signed, and puts the finished kubeconfig
file into the secret and into the object's status. The Go code is short. What
makes it hard is where it runs: it reads most objects from caches that lag, it
spreads one job over many reconciles and API calls, any of which can fail, lose
its answer or be cut off by a crash, and users, admins, a signer and a garbage
collector change the same objects at the same time. These modules model that
system, TLC checks it on small instances, and TLAPS proves its safety properties,
and that it implements an abstract specification, for instances of any size.

## The system

| Component | Code | State | Operations | Model |
|---|---|---|---|---|
| Kubeconfig controller | `controllers/kubeconfig_controller.go`, `resources.go`, `utils.go`, `client_cert.go` | nothing of its own but the work queue and the local copies of one reconcile | `Reconcile` | `KubeconfigReconciler` |
| CSR controller | `controllers/csr_controller.go` | work queue, one local copy | `Reconcile`, `ApproveCSR` | `CsrReconciler` |
| Webhooks | `api/v1alpha1/kubeconfig_webhook.go` | none | `Default`, `ValidateCreate`, `ValidateUpdate`, `ValidateDelete` | `Webhook` |
| API types | `api/v1alpha1/*_types.go`, `conditions.go`, `controllers/phases` | the stored objects | | `ApiServer` |
| Manager | `main.go`, controller-runtime 0.14.6 | informer caches, queues, leader election | start, crash, watch events | `ApiServer`, `Operator` |
| Kubeconfig file format | `pkg/kubeconfig/types.go` | none | `Marshal`, `Unmarshal`, `NewBareConfig` | `ConfigFile` |
| Cluster endpoint lookup | `pkg/utils/cluster_endpoint.go` | none | `ClusterEndpoint` | `Webhook` |
| API server, signer, garbage collector, kubectl | not in the repository | the objects | writes, watches, approval, signing, collection | `ApiServer`, as the code uses them |

How they interact. All communication goes through objects in the API server.
kubectl's creates and updates of a Kubeconfig pass the defaulting and the
validating webhook. The defaulting webhook looks up the server of the cluster in
the config map `kube-public/cluster-info`, which it reads through the manager's
cache and parses with the file format. The two controllers run in one process with one worker
each; a work queue holds a name at most once. A Kubeconfig event queues the
Kubeconfig, a CSR event queues the CSR for the CSR controller and the owners of
the CSR for the Kubeconfig controller (`For`, `Owns`). Secrets and role bindings
are cached on first use but trigger nothing. Reads of Kubeconfigs go to the API
server (`ClientDisableCacheFor` in `main.go`), all other reads go to the caches.

What each part has to get right:

- *Kubeconfig controller*: the file it delivers holds a private key and a
  certificate that belong together and are for the right user; it says Done only
  when everything was delivered, and Failed for good only if the CSR was denied
  or failed; a verdict is never taken back; every Kubeconfig whose CSR is decided
  comes to an end; what it made can be garbage collected.
- *CSR controller*: of the CSRs that the operator makes, it approves those that a
  Kubeconfig asked to have approved, and no other.
- *Webhooks*: whatever is stored has the fields the controller dereferences; the
  server is one that the user asked for or that the cluster publishes, and the
  fallback only if there is none.
- *File format*: what was written is read back, though maps are walked in no
  particular order.
- *Manager*: a crash at any point loses nothing that cannot be done again.

The behaviours that are hard to test (listed with their lines under `hazards` in
`PROJECT.json`): a cache that misses an object just written; a lost answer to a
write that was applied; a failure between two of the six writes of a job; status
updates whose error is dropped; edits and deletions in the middle of a reconcile;
a decision by an admin racing the automatic one; a foreign CSR under the same
name; a Kubeconfig created again under the name of one whose objects are still
there; two Kubeconfigs that race for one role binding; a secret without data,
which panics; a lookup that fails once and is remembered for good.

## The modules

| Module | What it models |
|---|---|
| `ApiServer` | The stored objects, the caches, the queues, optimistic concurrency, the watches, and the other clients: admin, signer, garbage collector, strangers |
| `ConfigFile` | `Marshal`, `Unmarshal` and `NewBareConfig`: maps by name and lists of named entries |
| `Webhook` | Defaulting with the cluster endpoint lookup, validation, and the writes of users that pass them |
| `KubeconfigReconciler` | `KubeconfigReconciler.Reconcile`, one action per API call |
| `CsrReconciler` | `CertificateSigningRequestReconciler.Reconcile` and `ApproveCSR` |
| `Operator` | Their composition, crashes and panics, fairness, and the properties |
| `Lifecycle` | The abstract promise of every Kubeconfig: absent, open, delivered, rejected |
| `LifecycleRefinement` | `Operator` with two history variables, and the mapping to `Lifecycle` |
| `MCOperator`, `MCLifecycle` | Values of the constants for TLC |
| `OperatorProofs` | Proof of type correctness |
| `VerdictProofs` | Proof that a verdict is final |
| `ApprovalProofs` | Proof that the operator approves only on request |
| `DeliveryProofs` | Proof that what is delivered is what the spec asks for |
| `LifecycleProofs` | Proof of the refinement |
| `SubjectProofs` | Proof that certificate and role are for the right user, that the server is a published one, and that a Config comes back from its file |
| `KeyProofs` | Proof that a verdict is the CSR's, that a file is delivered, and that its key is the certificate's |
| `ProgressProofs` | Proof that nothing is forgotten: no Kubeconfig, no approval, no leftover of a deletion |

`ApiServer` is at the bottom; `Webhook` (with `ConfigFile`), `KubeconfigReconciler`
and `CsrReconciler` extend it and do not know of each other; `Operator` extends
the three and says which steps there are.

### State and code

`kubeconfig`, `secret`, `csr` and `crb` map names to slots. A slot has `exists`,
the contents, and `rv`, which stands for the resource version: it grows with each
write under that name and is equal only if the contents are. `<k>-client-cert`
is stored under `k` and `<u>-kubeconfig` under `u`, because the code computes
these names from the Kubeconfig's name and the username. A private key is a
number, given in the order of generation; the request made with it carries the
same number, and so does the certificate signed from that. 0 is the empty value
of a fresh secret, 1 any key an outsider made. A kubeconfig file is the key, the
certificate, the user and the server in it. `lastKey` is the key generated last; a key that
was not stored is seen by nobody, so its number is given again, which keeps the
state space small.

`w` is the worker of the Kubeconfig controller. `w.pc` is the API call it is
about to make, `w.kc` the code's `kubeconfig`, `w.secret` its `userSecret`. An
action of `KubeconfigReconciler` is one API call and everything the code does
with the answer until the next call:

| `w.pc` | Action | Lines of `kubeconfig_controller.go` |
|---|---|---|
| idle | `GetKubeconfig` | 59-79 |
| getSecret | `GetExistingSecret`, `GetUserSecret` | 83-107 |
| createSecret | `CreateUserSecret` | 107-133 |
| getCsr | `GetCsrNotFound`, `GetCsrRejected`, `GetCsrPending`, `GetCsrUnsigned`, `GetCsrSigned` | 139-161, 200-249 |
| updateKey, createCsr | `UpdateSecretKey`, `CreateCsr` | 163-192 |
| updateCert | `UpdateSecretCert` | 250-265 |
| getCrb, createCrb | `GetCrb`, `CreateCrb` | 267-284 |
| updateStatus | `UpdateStatus` | 120, 193, 217, 236, 293 |

Every write takes a `reply`: `ok`, `error` (not applied) or `lost` (applied, but
the caller sees an error). An update is refused unless the copy has the stored
version; a create is refused if the name is taken; both refusals look like errors
to the caller. `Return(TRUE)` queues the name again, which an error, `Requeue` and
`RequeueAfter` all do; delays and rate limits are left out.

`cw` is the worker of the CSR controller, between its cached read and its
`UpdateApproval`.

`clusterInfo` is the config map: whether it exists, has the key `kubeconfig`, and
parses, and the file in it, lists of named entries as in YAML. `ClusterEndpoint`
has the early returns of the code and takes the cluster named `""` of what
`Unmarshal` makes of the file, where the last of two entries with one name counts.
The result is a set with at most one server; an empty server is `None`. A lookup
can fail (`fault`), as it may be the first read of a config map.

`KeyKind` and `SignerKind` are the two switches over the algorithm in `utils.go`:
which key is generated and which algorithm `crypto/x509` is asked to sign with.
`CanSign` says that they agree; where they do not, the reconcile ends without an
error and without a CSR.

### The abstract specification

`Lifecycle` is what the operator promises, without saying how: a Kubeconfig is
asked for, stays open until it is delivered or rejected, and is then left alone
until it is withdrawn; it is delivered with a certificate issued under its name,
and rejected only if a CSR of its name was refused. `LifecycleRefinement` maps
`life` to existence and the condition `KubeconfigFinished`, `delivered` to the
certificate in the status. What the cluster did to CSRs that are gone by the time
of the verdict is in no variable of `Operator`; the history variables `issued` and
`refused` record it beside every step and restrict none. The CSR is known only by
the name it shares with the Kubeconfig, so a CSR of a predecessor or of a stranger
counts: the code does not tell them apart, and what follows from that is the
finding `recreated`.

### What the environment may do, and why

- *Caches* may lag by any amount and skip versions (`SyncSecret`, `SyncCsr`,
  `SyncCrb`). A miss that makes the controller replace the key of a CSR that
  exists is counted as a `stale` event, so that runs can exclude it; all other
  lag is free.
- *Failed cached reads.* The informers of secrets, bindings and config maps start
  with their first use and that first read can time out (`fault`). A read of a
  CSR cannot fail, since its informer is a source of both controllers and runs
  before they do.
- *Status.* It is a subresource, for which the webhooks are not registered: what
  a create or update of the object says about the status is dropped
  (`KeepStatus`), also what the defaulting webhook says. An empty phase is left
  out of the JSON of a status update, and the CRD's default "Unknown" takes its
  place (`Persisted`).
- *Approval* cannot be written through `/status`: the API server keeps the stored
  Approved and Denied conditions there. So the `Status().Update` after a failed
  `UpdateApproval` approves nothing, and `ApproveCSR` has no action for it.
- *parseCSR* does not fail on a stored CSR: the API server parses the request
  with the same function when the CSR is created.
- *Created objects* come back with the data the server stored: the secret written
  with `StringData` has its `Data` after `Create`.
- *Requests* that reach the webhook have passed the CRD's schema, hence the set
  of algorithms.
- *cluster-info* may be written or removed by whoever runs the cluster, at any time
  (`PublishClusterInfo`), and its cache lags like the others.
- *A crash* ends both workers; the next manager has fresh caches and gets every
  object as an event. Leader election ensures a single active manager; the
  deployment in `config/manager/manager.yaml` turns it on. A panic in a reconcile
  ends the process, because controller-runtime recovers panics only if told to.
- *Deletion* is in the background, as kubectl does it: the Kubeconfig goes first,
  then the garbage collector removes objects none of whose owners exists.
- *A CSR that goes* is announced with its last state, so the slot it leaves keeps
  the owners (`RemovedCsr`) and the event still reaches its Kubeconfig. The watches
  may skip versions in between, but a CSR that was created and removed while a
  broken watch is listed again, and of which no event ever comes, is not modelled.
- *Strangers' CSRs.* Anybody who may create CSRs can take the name of a Kubeconfig,
  with or without the annotation and with any owner references (`ForeignCsr`,
  `References`): to none, one or several Kubeconfigs, of whatever name, that exist
  or never did. The key in such a CSR is the stranger's, and so is its subject, which
  is no user of a Kubeconfig. `isKubeconfigV1Alpha1CSR` compares kind and API version
  only, so a reference to another kind is the same to it as none, and the model has
  none. `Owns` queues only controller references; the model queues every
  Kubeconfig referred to, which a stranger can have by setting `controller` in one of
  them, so it allows more events than there can be when there are several. Properties
  of progress exclude strangers' CSRs, and safety is checked and proved with them. The garbage
  collector takes a CSR whose references all lead to nothing.
- *Role bindings* are never removed or changed by others, so `DoneMeansDelivered`
  says that the operator made or saw the binding, not that it is there for ever.
- `Resync` is the informers' periodic resync (ten hours). It also stands for
  Kubeconfig events that arrive after a reconcile already saw their cause.

`Limit` bounds the number of events of each kind (creations, edits, deletions,
lost CSRs and secrets, foreign CSRs, decisions by hand, rewrites of cluster-info,
faults, crashes, stale misses); `used` counts them. Nothing else is bounded but, in four runs, the lag of secrets
(`SecretsAreCached` and `StrangersMeetNoLag`, below): versions and keys are finite
because the events are.

## What the runs check

One Kubeconfig name, but for `twins` and `other_role`: with one worker, two
Kubeconfigs meet only in a shared role binding, which these two runs are about,
and in a shared existing secret, where the code keeps nothing apart (see the
hazards).

| Run | Instance | Shows |
|---|---|---|
| `core` | an own secret and automatic approval, or a prepared secret that appears at any time, filled or empty, and an admin; 1 decision, 1 fault, 1 crash | `TypeOK`, `CsrKeyStored`, `KeyPairKept`, `SubjectKept`, `DoneMeansDelivered`, `VerdictFollowsCsr`, `NothingForgotten`, `ApprovalNotForgotten` |
| `edits` | 2 requests that differ in user, role, server and approval; 1 edit, 1 CSR deleted, 1 foreign CSR with any annotation and owners; no lag of secrets once that one is there | `KeyPairKept`, `DoneMeansDelivered`, `ApprovedOnlyOnRequest`, `TerminalIsFinal`, `FinishedAsSpecified` |
| `servers` | requests with and without a server; cluster-info missing, without its key, not parsing, with no nameless cluster, with an empty one, with two; 1 edit, 1 rewrite of cluster-info, 1 fault | `ServerFound` |
| `twins` | 2 names, 1 user, equal or different roles; symmetric in the names; secrets cached at once | `DoneMeansDelivered`, `RoleAsked` |
| `lifecycle` | a Kubeconfig that asks for automatic approval or not, 1 deletion, and either a second creation, with either wish, or 1 foreign CSR with any annotation and owners; with history variables; secrets cached at once | `ApprovedOnlyOnRequest`, `LeftoversAreGarbage`, `VerdictIsItsOwn`, `KeepsPromise` (the refinement) |
| `events` | one of the algorithms that a user has to ask for; 1 CSR and 1 secret deleted; fairness | `AutoApprovedEnds` without failures or resync |
| `resync` | automatic or manual approval; 1 fault, 1 stale miss, 1 decision; fairness with resync | `AutoApprovedEnds`, `DecidedEnds` |
| `delete` | 1 deletion, 1 crash; fairness | `DeletedLeavesNothing` |

A fault and a crash are what it takes to break off a reconcile and to lose the
process while it makes up for it; the reconcile keeps nothing in memory, so that
what a second fault meets is a state of the objects that one has already
reached. `events` has one algorithm, since the ten go through one switch and
`AllSign` is proved for all of them. One edit and one deletion of the CSR at any
step cover an edit before, between and after the two CSRs. Two creations and a
deletion at any step make a predecessor whose objects are in every state they can be in. Two Kubeconfigs are
enough for a race for a binding, since a third one finds it taken as well; `twins`
checks safety only: whichever of them says Done was delivered.
`SecretsAreCached` bounds the lag in `twins`, `lifecycle` and `other_role`, which
are about bindings and about names used again: the cache has a secret before
anything else happens. In `edits`, `StrangersMeetNoLag` does the same from the moment
a stranger has made a CSR. Secrets lag freely in all other runs (`core`
checks `DoneMeansDelivered` that way) and in every proof. `AtMostTwoCome` keeps
the second Kubeconfig and the stranger's CSR of `lifecycle` in separate behaviours; the
proofs have both.
Symmetry is used where only safety is checked and the names differ in nothing.
Each property of a passing run is broken by a change of the code that
`PROJECT.json` names under `mutants`, for instance an unchecked error of the secret
update, a missing annotation, or a forgotten family of algorithms.

Every run also has TLC evaluate `ConfigsComeBack`, an assumption of `MCOperator`:
the round trip of the file format, over all Configs with up to two clusters and one
user.

The preconditions of the safety properties (`Quiet(...)`) exclude the events
under which the code does break the property: `stale` is the finding below;
after a `foreign` CSR the controller takes the stranger's certificate, for it
never looks at the owner of the CSR it reads, and that CSR may refer to owners that
never were and be collected once it has ended the Kubeconfig (`VerdictFollowsCsr`); after `secretGone` the key is lost,
since secrets are not watched; after `delete` and a new creation the controller
adopts the old secret and CSR, which are collected later; after `csrGone` there is
no CSR left to compare a verdict with; after a `fault` that makes createCSR fail,
or drops the last status update, nothing queues the Kubeconfig again
(`NothingForgotten`; the resync is what repairs this, in `resync`). Most runs also
allow events that some of their properties exclude, so that the preconditions are
true in some states and false in others.

`CHECK_DEADLOCK FALSE`, because the operator rests when there are no events left.

### Fairness

`Fairness` asks for what the runtime provides: a worker that has taken a key
makes its next call and the call is answered (`WF` on `Reads`, `Writes("ok")`,
`ApproveCSR("ok")` and `Panic`); queues are first in, first out, so a queued key
is reached although the worker alternates between busy and idle (`SF` on
`GetKubeconfig(k)` and `GetCsrToApprove(k)`); watches deliver, the garbage
collector collects, and the signer issues or fails every approved CSR, whichever
it likes (`WF` on the disjunction). Nobody has to approve or deny by hand, to
edit, delete, fail or crash. `ResyncSpec` adds the periodic resync. It is needed
as soon as a status update may fail: the code drops that error, and where the
reconcile returns without a requeue nothing else brings the Kubeconfig back
(`NothingForgotten` says that nothing else needs it).

### Where the code does not do what the repository says

Each run below is meant to end in a violation, and its trace shows the case.

| Run | Says | Does |
|---|---|---|
| `stale_csr` | the file pairs the key generated with the CSR and its certificate (`resources.go:120`); caching of Kubeconfigs is off "to prevent a race condition in the CSR handler" (`main.go:79`) | the CSR is still read from a cache: a miss replaces the stored key, and a Done file can hold a key its certificate is not for |
| `recreated` | the same; after a deletion everything is garbage collected (`kubeconfig_controller.go:66`) | a Kubeconfig created again before that goes on with the CSR and the secret of its predecessor; the secret is collected under its hands and the file ends without a key |
| `other_role` | the binding links against the `roleRef` of the spec (`kubeconfig_types.go:50`), which is where to set another role (the sample in `config/samples`) | a binding of the user's name is taken whatever role it grants |
| `existing_key` | the key in the `existingCSR` secret is used (`kubeconfig_types.go:31`) | it is overwritten |

More divergences can be read off the model and have no run of their own:

- `automaticApproval` is not immutable (`kubeconfig_types.go:36`): `ValidateUpdate`
  does not compare it. Nor is the username, though the certificate is bound to it
  (`kubeconfig_types.go:26`); `SubjectKept` therefore speaks of the user in the file.
- Phase Failed is not terminal (`phases.go:26`): a failed creation of the secret
  sets it and is retried. What is final is the condition `KubeconfigFinished`.
- A Done status may lack the reference to the secret (`kubeconfig_types.go:107` says
  there is one): only the reconcile that creates the secret notes it, and if that
  one ends before its status update, no later one repeats it.
- The role binding has no owner (`README.md:17` says the controller owns all it
  creates) and stays behind.
- A new Kubeconfig is not Pending (`phases.go:20`): the status that the webhook sets
  is dropped.
- Secrets are not watched (`resources.go:62` says their owner is enqueued).

What `ApprovedOnlyOnRequest` does not say, because the code does not do it:

- A stranger's CSR with the annotation and a reference to a Kubeconfig is approved,
  whether that Kubeconfig asks for it, or exists, or not (`csr_controller.go:82-92`
  looks at nothing else). The documentation promises no more: `README.md:17-18` of
  the repository says that CSRs with the annotation are approved. The property says of
  every approved CSR that it has both marks, and of those the operator made itself
  that a Kubeconfig asked.
- The CSR that a deleted Kubeconfig left, which asked for approval, is approved also
  if the one created in its place does not ask. The property says so for the
  Kubeconfig the CSR was made for, which is told by its uid.

## What is proved

With TLAPS, for every value of the constants that satisfies `ConstantsAssumption`
(the name sets are disjoint from `None` and from each other where the code keeps
them apart, `cluster-admin` is a role and localhost a server, requests pass the
CRD's schema) and `ClusterInfosAssumption` (the clusters in cluster-info are a
list, and what can be looked up there is a server or empty). TLC evaluates both on every
run. There is no bound on names, users, secrets or the number of events.

- `TypeCorrectness`: `Spec => []TypeOK`. `TypeOK` says more than types: every
  stored Kubeconfig has a role and an algorithm, and so has every copy a worker
  carries. `createClusterRoleBinding` and `createCSR` dereference these without a
  check and rely on the webhook having defaulted them. `TypeOK` is inductive as it
  stands; the proof has a lemma for what each kind of write returns and one for
  each action of the reconcilers, with the three ways in which a reconcile goes on
  (`Return`, `GoOn`, `EndWith`) factored out.
- `VerdictIsFinal`: `Spec => TerminalIsFinal`, which is an action property. A step
  could break it by writing a status made from an old copy. The invariant that
  excludes this is `FreshCopy`: a worker's copy is never ahead of the stored
  Kubeconfig, and if it is of the stored version, that one has no verdict. A
  reconcile begins with such a copy (`GetKubeconfig` returns early on a verdict);
  every write raises the version (`Advances`), so a copy that is overtaken stays
  so and its update is refused; and a user's edit keeps the status.
- `VerdictIsForItself`: `Spec => VerdictIsItsOwn`, from the same invariant. A version is
  not used twice under a name, so the stored version is the copy's only if
  both have one uid, which `FreshCopy` says too.
- `ApprovalOnRequest`: `Spec => []ApprovedOnlyOnRequest`. Between a Kubeconfig's
  wish and the approval lie the worker that makes the CSR, the server, the cache
  and the worker that approves, and the Kubeconfig may be edited, deleted and
  created again on the way. The invariant `ApprovalInv` says the same of the CSR
  in each of these places (`Asked`): what it refers to was created before now or never,
  and if it is the operator's own, an owner that still exists, unedited, asks for what
  the CSR asks for. A stranger's CSR is recognised by its key, which no reconcile
  generates, and may refer to anything. That the invariant holds is a
  matter of uids: an owner reference names the uid of the copy the CSR was made
  from, a new creation under the name has a later one (`UidsAreOld`, `Kept`), so
  its different wish does not count. `CsrMove`, `CacheMove` and `ApproverMove` say
  how a CSR passes from place to place; every step is one of these moves.
- `FinishedMatchesSpec`: `Spec => FinishedAsSpecified`. The file is templated
  several calls before the status with it is written. `FileAsAsked`: a worker bound
  to deliver has a file made from its copy of the spec. Every step of a reconcile
  is one of a few moves (`VerdictMove`: it continues, templates, finds the CSR
  rejected, begins) and every change of a Kubeconfig one of `KubeconfigMove`; the
  status update that makes it Done is accepted only for the version of the copy,
  whose spec is then the stored one.
- `PromiseKept`: `HistorySpec => KeepsPromise`, the refinement: the initial states
  map to initial states and every step to a step of `Lifecycle` or a stutter.
  `HistoryInv` follows a certificate and a refusal from the server through the
  cache and the workers' copies: wherever one is, the history has it. A verdict is
  written only over a Kubeconfig that has none (`FreshCopy` again), so it maps to
  `Deliver` or `Reject` of an open one. It needs nothing about staleness, deletion
  or foreign CSRs to be excluded.
- `SubjectIsKept` and `RoleIsAsked`: `Spec => []SubjectKept` and
  `Spec => []RoleAsked`. While nothing is edited or deleted, a Kubeconfig keeps its
  spec and so does the copy a worker carries (`Settled`); the username goes from it
  into the CSR, the cache, the approver's copy, the certificate and the file
  (`SubjectsOf`), the role into the binding (`RolesOf`). `SubjectInv` is their
  conjunction with `DeliveryInv`.
- `ServerIsFound`: `Spec => []ServerFound`. `EndpointPublished` says that the lookup,
  a chain of early returns over the map that `Unmarshal` makes, finds a server
  exactly when cluster-info publishes one in its last nameless entry, for lists of
  any length. The rest is that the webhook's cache is cluster-info's only content
  while nobody rewrites it (`ServerInv`), and that only the webhook sets a server.
- `VerdictIsTheCsrs`, `DeliveryIsKept`, `KeyIsStored` and `KeyPairIsKept`:
  `Spec => []VerdictFollowsCsr`, `[]DoneMeansDelivered`, `[]CsrKeyStored` and
  `[]KeyPairKept`. They share the invariant `KeyInv`. Some parts of it always hold: a
  cached copy or a worker's is the stored version or an older one (`SecretCopies`,
  `CsrCopies`, `WorkerSound`), and bindings stay (`Bindings`). The others hold as
  long as the events a property excludes have not happened:
  - while no Kubeconfig is deleted, what a worker works on is there and without a
    verdict, and the owner of a secret is not gone (`Present`, `SecretsOwned`);
  - while also no CSR is deleted and no stranger makes one, the owner of a CSR is not gone
    either, so that the garbage collector takes none (`CsrsOwned`), and a copy that
    is signed, denied or failed is the stored CSR in this respect, as is a
    verdict made from it (`Verdicts`);
  - while no secret goes, an unshared secret is written by its Kubeconfig's
    reconciles alone, and what `updateCert` wrote is still in it when the status is
    written (`Files`);
  - while also no miss is stale and no CSR a stranger's, every CSR, stored or
    cached, has the key in the secret, and a worker about to store or use a new key
    knows that there is no CSR (`Keys`). This part is why the properties are hard to
    test: it spans the update of the secret, the creation of the CSR, its signing
    and the file, with a crash or a lost answer between any two.

  `WorkerStep`, `SecretChange` and `CsrChange` classify what any step does to the
  worker, a secret and a CSR, so that each part is proved against a few cases
  instead of every action.
- `ApprovalIsNotForgotten`, `LeftoversAreCollected` and `NothingIsForgotten`:
  `Spec => []ApprovalNotForgotten`, `[]LeftoversAreGarbage` and
  `[]NothingForgotten`. They are the safety half of the operator's progress: what
  is still to be done is always in somebody's hands. That the hands move is what the
  runs under fairness check.
  - A CSR that changes differs from its cached copy (`ChangesAreDue`, from the
    copies of `KeyInv`), so that an event is due. An approval that was refused or got
    no answer queues its CSR again, and one that was applied leaves it decided
    (`ApprovingStep`).
  - What is stored under the name of a Kubeconfig, or in the cache or in a worker's
    hands for it, is owned by Kubeconfigs of that name only (`OwnedBy`,
    `LeftoverInv`): also what is made after the deletion, and what a successor took
    over. If there is no Kubeconfig of that name, no owner is alive.
  - A reconcile that ends without a requeue has left a pending CSR behind, has seen
    one, or wrote a verdict from the stored version. `ProgressInv` carries that from
    the decision to the last status update: a copy that is no longer the stored
    version has its name in the queue (`Remembered`), a worker about to rest has a
    verdict, a queued name or a CSR to wait for (`RestsAtEnd`), and a CSR that is
    waited for stays so until an event queues the name (`AwaitedStays`), which needs
    that a CSR and its cached copy are owned by the name they are stored under.
    `QueueStep` classifies the steps, and `AllSign` says that the two switches over
    the algorithm agree, so that createCSR fails only by a fault.
- `ConfigComesBack`: a `Config` made of maps is what `Unmarshal` makes of any file
  that `Marshal` may write of it. The argument is that every name is written once,
  so that the last entry of a name is its only one.

The invariants were checked with TLC on the instances of the runs before they were
proved.

Every invariant, the refinement and every other action property of the passing
runs is proved. Only model-checked is liveness: `AutoApprovedEnds`, `DecidedEnds` and
`DeletedLeavesNothing`, since liveness and `ENABLED` are beyond the prover. Induction
over data is too, and no module has a recursive operator.

## What is not modelled

- The name of the cluster and its default, additional subject fields, labels (whose
  values must be usernames that the API server takes as such), events and logs: no
  property depends on them.
- The contents of keys, requests and certificates beyond the key, the user and the
  algorithm family they are of. `parseCSR` never fails, see above.
- Time: retry delays, the 15 seconds and one minute of `RequeueAfter`, the expiry
  of certificates.
- Flags, scheme registration, health checks and leader election itself: the model
  has the one active manager that leader election ensures.
- Generated deep copies (code without decisions), manifests (configuration; what
  follows from it is under the environment above), and the test suites, which hold
  no test case.

## Plan

All modules, runs and proofs of the plan are there: the core (`ApiServer`, `Webhook`,
`CsrReconciler`, `KubeconfigReconciler`, `Operator`), deletion and creation under
the same name, two Kubeconfigs for one user, the abstract specification with its
refinement, the endpoint lookup and the file format, and the proofs of every safety
property. Left is what needs a decision about the code first: what two Kubeconfigs
that name one existing secret should do, and which role a binding of a shared user
should grant.
