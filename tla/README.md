# The ACM controller in TLA+

This directory models the ACK service controller for AWS Certificate Manager: a
Kubernetes controller that requests or imports certificates in ACM for
`Certificate` resources, keeps their Status, options and tags in step, exports
issued certificates to TLS secrets, and deletes them again. The models are
translated from the Go source; what the source calls but does not contain (the ACK
runtime, ACM, the Kubernetes API) is modelled from how the source uses it and is
marked external in `PROJECT.json`.

## 1. Inventory

| Part | State | Operations | What makes it correct |
|---|---|---|---|
| Resource (`apis/v1alpha1/certificate.go`, `types.go`, `enums.go`, `resource.go`) | Spec, Status, conditions | deep copy, `SetStatus` | a well-formed Spec comes out of every operation |
| Reading and comparing (`sdk.go` sdkFind, `delta.go`, `hooks.go`) | none | `DescribeCertificate`, `ListTags`, `newResourceDelta` | only *not found* leads to Create; every issue is noticed |
| Create and import (`sdk.go`, `hooks.go`) | none | `RequestCertificate`, `ImportCertificate` | no certificate is created twice or forgotten |
| Update and export (`sdk.go`, `hooks.go`) | the TLS secret | `ExportCertificate`, two `WriteToSecret`, tags, `UpdateCertificateOptions` | the secret gets every issue, in matching pairs |
| Delete (`sdk.go`, `descriptor.go`) | the finalizer | `DeleteCertificate`, `MarkManaged`, `MarkUnmanaged` | the resource outlives its certificate and goes in the end |
| Conditions (`sdk.go`, `manager.go`) | Terminal, Recoverable, Synced, LateInitialized | `onError`, `onSuccess`, `updateConditions` | a resource nobody retries says so |
| Late initialization (`manager.go`) | Spec fields | `LateInitialize`, merge patch by the runtime | what the user left out is filled in, once |
| Manager factory (`manager_factory.go`) | `rmCache`, RWMutex | `ManagerFor` | one writer at a time, the right manager, every call returns |
| Tags (`pkg/tags/sync.go`, `tags.go`, `manager.go`) | tags in ACM | `EnsureTags`, `FilterSystemTags`, `mirrorAWSTags`, `SyncTags` | tags converge; tags of AWS are left alone; an adopted certificate keeps its tags |
| References (`references.go`) | `CertificateAuthorityRef`, the resolved ARN in the pass's copy | `ResolveReferences`, `ClearResolvedReferences` | a request goes to a ready authority; the resolved ARN never enters the Spec in the cluster |
| Adoption (`resource.go`, `descriptor.go`) | annotations | `SetIdentifiers`, `PopulateResourceFromAnnotation`, `MarkAdopted` | what was adopted is never created anew |

How they interact: the runtime takes a resource from its work queue and runs one
*pass* over it. A pass calls `ManagerFor`, takes the ARN from the annotation if the
resource is to adopt a certificate, then calls `ResolveReferences` and `ReadOne`. If the
certificate is there to adopt, finalizer, adoption mark and observed Spec are patched in
one request. If the certificate is not found, `MarkManaged`, `Create` and a read-back; if it is found, `Delta` and `Update`;
then `LateInitialize`, a merge patch of the Spec, and a patch of the Status with
whatever resource the last call returned, error or not. A resource with a deletion
timestamp gets `ReadOne`, `Delete` and `MarkUnmanaged`. Terminal errors are not
retried, everything else is.

What is hard here: between any two remote calls users edit or delete the resource,
ACM issues, renews or fails certificates, authorities break and go, others delete certificates, calls fail with or
without effect, and the controller may restart with nothing but the cluster to
remember by. The hazards, each at its line, are listed in `PROJECT.json`.

## 2. Modules

| Module | Models |
|---|---|
| `Certificate` | the resource as data and the pure functions of the resource manager: `observedSpec`/`observedStatus` (sdkFind), `newResourceDelta`, `maybeImportCertificate`, `newCreateRequestPayload`, `mergeUpdated`, late initialization, conditions |
| `Reconciler` | one resource, the certificates in ACM, the export secret and the controller's pass, one action per remote call |
| `ReconcilerProperties` | the properties of `Reconciler`, and what comments and documentation say of it |
| `ExportSpec` | what the export promises whoever mounts the secret, in three actions |
| `MCReconciler` | the Specs users create in the runs |
| `CertificateProofs` | lemmas about the operators of `Certificate` |
| `ReconcilerProofs`, `PassProofs`, `ExportProofs`, `RecordProofs` | theorems about `Reconciler`: the accounting of certificates; what a pass knows, and how it ends; that it implements `ExportSpec`; what the Status says of the secret |
| `ManagerFactory`, `MCManagerFactory`, `ManagerFactoryProofs` | the manager cache, its instance, its theorems |
| `TagSync`, `TagSyncProofs` | the tags of one certificate, requested or adopted, with the two requests of `SyncTags` apart; its theorems |
| `References`, `MCReferences`, `ReferencesProofs` | references to a `CertificateAuthority`, adoption; the resources of the run; the theorems |

### Reconciler: state and actions

`cr` is the object in the cluster, `acm` the certificates by ARN, `secret` the serials
of the certificate and of the key in the export secret. `pc`, `desired`, `latest`,
`err` and `bundle` are the locals of the pass. `queued` is the work queue. `used` counts
the budgets; `lost` and `forgone` are history.

* `Begin`, `ReadNotFound`, `ReadFound`, `ReadFault`: the start of a pass, `ReadOne`.
* `MarkManaged`, `CreateRejected`, `CreateImport`, `CreateRequest`, `CreateFails`,
  `ReadBack`: `Create`. `Created` is ACM's side effect with the answer received or lost.
* `ExportCertificate`, `WriteCertificate`, `WriteKey`, `ExportFails`, `SyncTags`,
  `UpdateReturnsDesired`, `UpdateRefusesImported`, `UpdateCertificateOptions`:
  `sdkUpdate` in its order.
* `LateInitialize`, `PatchStatus`: the end of a pass.
* `DeleteRead`, `DeleteCertificate`, `MarkUnmanaged`: deletion.
* `User...`, `ACM...`, `ExternalDelete`, `Crash`: everyone else.

`lost` holds ARNs whose creation was never recorded. `forgone` says what the code gave up:

* `failed`: serials whose export failed. `Update` returns the observed Status with the error
  (`manager.go:160-165`), so the Status records them and no pass tries again.
* `skipped`: serials recorded without an attempt to export them, because the read-back
  after Create saw them first, or because `exportTo` was unset.
* `condition`: the last pass ended in a terminal error and left no condition behind.

A property that excepts one of the three names it, and excepts no other:
`RecordedIsExported` excepts `failed` and `skipped`, `TornSecretIsNotRecorded` only `failed`,
`RenewalReachesSecret` `failed`, and `skipped` for the first issue of a certificate or of its
re-creation, `ParkedIsTerminal` only `condition`. `RenewalIsExported` and `IssueIsExported`
excuse nothing that was given up: they are what the
README of the repository promises, and the code breaks them.

A failed call ends in an error of either class wherever `onError` can return
`ackerr.Terminal` (`manager.go:439-445`, for the codes of `sdk.go:797-804`): reading, creating,
exporting, deleting, the read-back and late initialization.

### ExportSpec and its refinement

`ExportSpec` has two variables, `issued` (serials handed out) and `secret`. `Issue` hands out
a serial, `PutCertificate` puts a certificate at least as new as the one that is there,
`PutKey` puts the key of the certificate that is there. `ImplementsExport` in
`ReconcilerProperties` instantiates it with `issued <- serials` and `secret <- secret`: every
step of a pass, of users, of ACM and of a restart is one of the three or a stutter. The
abstract specification admits the torn pair between the two writes, because the code does;
`TornSecretIsNotRecorded` says that the Status does not call such a pair current, so that a
later pass writes it again; the exception is a write that failed, whose torn pair is recorded
and stays until the next renewal.

### References: state and actions

`cr` is the object in the cluster (reference, ARN, adoption annotation, finalizer, adoption
mark, recorded certificate, the condition ReferencesResolved), `ca` the authorities by
namespace, `certs` the certificates, `pc` and `desired` the locals of the pass. `ready` holds
every authority that was ever ready and `taken` that a certificate was adopted; both are
history.

* `Begin` (`PopulateResourceFromAnnotation`), `Resolve` (`ResolveReferences` and all it calls),
  `Read`, `Adopt`, `Manage`, `PatchFails`, `Create`, `PatchStatus`, `Delete`,
  `MarkUnmanaged`: the pass.
* `UserCreates`, `UserEdits`, `UserDeletes`, `AuthorityChanges`, `ExternalDelete`, `Crash`:
  everyone else.

The order is the runtime's (external): deletions and resources under the adoption policy
go on although a reference is not resolved, and a resource to adopt whose certificate is not
found ends the pass in an error and is never created. The rest of a pass (update,
export, late initialization) is in `Reconciler`.

### Abstractions

ARNs and serials are numbers in the order ACM hands them out. Secret references and
`CertificateAuthorityARN` are present or absent, lists of names are lengths, a key
algorithm is a family and its separator (ACM takes `RSA_2048` and describes `RSA-2048`),
and AWS error codes are *terminal* or *recoverable*. DescribeCertificate and
ListTagsForCertificate are one step. In `Reconciler` a tag list is opaque and its sync
one step with a partial failure; `TagSync` opens it, and `SyncReachesDesired` shows that its two
requests, undisturbed, have the effect of that step. There a list is a function from keys
to values, nil included; its order is left out, since nothing depends on it. An authority is
its two conditions and its ARN. The Synced condition that the runtime
adds at the end of a pass is left out.

## 3. Runs

Runs that must pass:

| Run | Question | Properties |
|---|---|---|
| `lifecycle` | does any order of create, import, external deletion, re-creation, edit and delete lose a certificate? does late initialization leave alone what was set when the pass read the Spec? | `TypeOK`, `EveryCertificateAccounted`, `LeakNeedsFailure`, `FinalizerProtects`, `CreateOnlyWhenGone`, `LateInitializationFillsGaps`, `ImportedOptionsFixed` |
| `export` | is a recorded serial in the secret, unless it was given up, and a torn pair never recorded but by a failed export? does the secret only move forward? does a resource leave the queue only with its Terminal condition, unless that was lost? | `RecordedIsExported`, `TornSecretIsNotRecorded`, `ParkedIsTerminal`, `ImplementsExport` |
| `convergence` | do ACM's state, the user's options, renewals and imports arrive in the end, under edits of options and tags, and does a deleted resource go away? | `StatusFollowsACM`, `OptionsConverge`, `RenewalReachesSecret`, `ImportIsRedone`, `DeletionCompletes` |
| `manager_factory` | is the cache safe, right and free of deadlock? | `TypeOK`, `CacheIsGuarded`, `RightManager`, `SettledIdsAreCached`, `DuplicatesBounded`, `CallsReturn` |
| `tag_sync` | do tags converge through half-done syncs at the limit, and survive an adoption? is a sync that nothing disturbs exact? | `TypeOK`, `AWSTagsUntouched`, `FittingTagsAreNotRefused`, `AdoptionKeepsTags`, `TagsConverge`, `SyncReachesDesired` |
| `references` | do references and adoption survive authorities that appear, break and go under the pass? | `TypeOK`, `RequestsFromReferencedCA`, `AdoptedNeverCreates`, `ResolvedARNStaysOut`, `ReadyReferenceIsUsed`, `DeletionCompletes` |

`ParkedIsTerminal` excepts a condition that was lost with the last pass. There are three ways
to lose it: the read-back after Create fails, and the runtime returns the created resource
instead of the one `ReadOne` put the condition on; `LateInitialize` fails, and returns a
copy that has no condition (`manager.go:224-230`); the status patch itself fails, which
the runtime ignores. `export` has all three, and terminal errors of every call besides.

`convergence` has one failure at the calls whose failure leaves something behind (the Spec
patch of the late initialization, a secret write, an options update, a delete, a metadata
patch). A read-back that fails and is retried leaves what a failed Spec patch leaves, a
recorded ARN without Options; a failed status patch leaves what a restart leaves. The other
sites are in `lifecycle` and `export`.

Runs that show where the code and what is written about it part (each is a finding in
`PROJECT.json` with the quoted line):

| Run | What happens |
|---|---|
| `renewal_lost` | a certificate is exported in full and renewed; the export of the renewal fails once; its serial is recorded all the same and no pass exports it again. The property asks for nothing before a first export, so what breaks it is the failure alone: without failed calls, or if `Update` returned the desired resource, the run finds no violation |
| `first_export_missed` | the certificate is issued before the read-back after Create and never exported; no call fails |
| `validation_limit` | a public certificate is requested with six validation options; the test is inverted |
| `algorithm` | a re-creation requests `RSA-2048` |
| `late_init` | the first late initialization fails; every later pass fails before it in an options update without Options |
| `import_refused` | the controller restarts between the Spec patch and the Status patch of a first import; the late initialized fields are taken for the user's and the import is refused for good |

Further remarks without a run of their own:

* The comment at `hooks.go:79-82` says the late initialized fields are re-populated after
  a re-import; they are cleared in a copy only and the resource keeps the old ones.
* An imported certificate always differs in `DomainName`, which its Spec does not have, so
  every pass ends in `sdkUpdate`'s early return of the desired resource (`sdk.go:595`) and
  the Status of an imported certificate does not follow ACM. `StatusFollowsACM` is about
  requested certificates.
* A first import whose read-back or late initialization fails once has no Options in the
  Spec; the next pass finds the difference and parks it with "only tags can be updated"
  (`sdk.go:593`).
* The comment at `manager_factory.go:58-60` says the cache avoids several managers for one
  id; workers that miss together each make one, which is harmless and bounded
  (`DuplicatesBounded`).
* The comment of `ResolveReferences` (`references.go:52-58`) says that it returns a copy; it
  works on its argument. The runtime passes a copy of its own, so nothing depends on it.
* A terminal answer of AWS to `ReadOne` in the read-back or in late initialization parks the
  resource without any condition that says so (`manager.go:224-230`).
* A resource that is being deleted and gets a terminal answer (`InvalidArnException` among
  others) is dropped by the queue, finalizer and all, until a restart or an edit.
  `DeletionCompletes` excepts it when the resource shows the condition.
* A field that is nil when the pass reads the Spec, and that the user sets before the
  merge patch of late initialization, is overwritten by that patch. `LateInitializationFillsGaps`
  is about the fields that were set.
* If the write of the key fails, the secret holds a new certificate beside an old key or none,
  the new serial is recorded (`manager.go:164`), and the pair is not written again before the
  next renewal.
* An authority that ceases to be ready after it was resolved is used all the same, and
  `RequestsFromReferencedCA`, which asks that it was ready at some time, allows it.
* A reference whose `From` is nil counts as none, and a public certificate is requested.
* A tag whose value is nil in ACM stops `SyncTags` in a nil dereference on every pass.
  `TagsConverge` excepts it by name (`Unvalued`).

### Bounds

`MaxCerts` is 1 to 3: an original, its re-creation, and one lost on the way. `MaxSerial`
is 1 to 3: an issue and two renewals, so an export can be overtaken twice. One or two
failed calls (`MaxFaults`), one restart (`MaxCrashes`), one edit (`MaxEdits`) and one
external deletion (`MaxDeletes`) are enough for a failure, its retry, and an event in
between. `MaxNames` is 6, one above the limit of five, except in `lifecycle`,
whose question does not depend on the number of names, and where it is 1. The fault sites, events and edits
of a run are those its question depends on; between them the runs use all. The factory
run has three workers (two that race and one that comes later), two ids and four calls,
one more than there are workers; symmetry is not used, since the run checks liveness.
`TagSync` has two user keys, one key of AWS, one default key, the values "x" and "" (besides
nil) and a limit of three, so that the limit is reached; two edits, one change by others and
one failure put each of them between two requests. `References` has two namespaces, two ARNs
for authorities (the second for one that is made anew), two certificates, two events and one
failure, shared by the authorities, users and deletions: enough for an authority to go or
change between resolution and request, and for the annotation or the certificate to go after
an adoption. The flag for references to other namespaces is chosen in the initial state. Deadlock is not checked: a resource that is gone or parked, and a
factory whose calls are used up, really stop.

### Fairness

`FairSpec` of `Reconciler` is weak fairness of the controller's steps as a whole: the work
queue hands out what it holds and a running pass goes on. Failures are budgeted, so they
end. Users, ACM and restarts owe nothing. `ManagerFactory` has weak fairness per worker
(goroutines are scheduled; an RWMutex that is free is eventually taken) and none of calls.
`TagSync` has weak fairness of the pass, `References` of the controller's steps as a whole.
"In the end" properties are stated as `<>[]`: edits and faults are budgeted, so every
behaviour grows quiet.

## 4. Proofs

Every safety property that a passing run checks, invariant or action property, is a theorem
too, and so is the refinement of `ExportSpec`. All proofs are checked by TLAPS for every
value of the constants that satisfies the named assumptions: any set of Specs, fault sites
and events, any bounds.

| Assumption | Says |
|---|---|
| `CertificateAssumption` | the sets that must not be empty are not, the bounds are numbers |
| `NilAssumption`, `NilAlgorithmAssumption` | nil is none of the values a field may have |
| `ReconcilerAssumption` | users create Specs the schema admits, budgets are numbers |
| `FactoryAssumption` | finitely many workers (`--reconcile-default-max-concurrent-syncs`) |
| `TagAssumption` | finitely many keys; keys of users, of AWS and default keys are different ones |
| `ReferencesAssumption` | the resource's own namespace is one; the resources are well-formed |

TLC evaluates them in the runs. No theorem has a hypothesis besides.

### ReconcilerProofs

* `TypeCorrect`: `Spec => []TypeOK`. `TypeOK` is inductive; the work is in the lemmas of
  `CertificateProofs`, which say that reading, merging, late initialization and the merge
  patch turn resources into resources. Late initialization needs that ACM always describes
  Options, which `ReadType` shows.
* `CertificatesAccounted`, `FinalizerStays`, `CreatesWhenGone`, `LeaksBounded`: from the
  inductive invariant `IInv`. `EveryCertificateAccounted` alone is not inductive: the
  status patch overwrites the recorded ARN, and `MarkUnmanaged` drops it. `IInv` adds
  that the pass works on the ARN the cluster records (`PassFollowsResource`), that at each
  point of the pass `latest` carries that ARN, or none, or a new one only once the old
  certificate is gone (`LatestARN`), that Create and the removal of the finalizer are
  reached only when nothing is left (`NothingLeft`), and that the finalizer is on from
  before Create on (`Managed`). `LossesBounded` counts the losses against the failures and
  gives `LeaksBounded`.

### PassProofs

What a pass knows stays good until it uses it (`PassInv`), and how it ends (`ParkInv`).

* `ImportsKeepOptions`: `sdkUpdate` refuses options of an imported certificate by the type it
  observed some calls ago. `ObservedType` says that this still is the certificate's type, and
  rests on `TypesFixed`: only a creation gives an ARN a type, and (`FreshARNs`) an ARN nobody had.
* `LateInitializationSafe`: the merge patch is computed against what the pass returned and
  applied to what the cluster has by then. `LateInitBase` says that its base has the Spec the
  pass read, or is an observation with nothing left to fill in; `OptionsStay`, that Options
  present in the copy are present in the cluster. That a merge patch writes nothing but what
  changed is `MergePatchKeeps` and `MergePatchOptions` of `CertificateProofs`.
* `ParkedSaysSo`: a live resource that the queue dropped carries its condition, unless the last
  pass lost it in one of the three ways of section 3. A pass that ends in a terminal error
  has the condition on the resource it is about to record, or has noted the loss
  (`TerminalIsSaid`), and whatever takes the condition off a recorded resource queues it again.

### ExportProofs

`ExportImplemented`, that `Spec => ImplementsExport`. The refinement is not a
step-by-step matter: `WriteCertificate` is a step of `ExportSpec` only if the serial the pass
holds is not older than the one in the secret, and the certificate it came from may be a
re-creation. `SecretInv` therefore says that no serial runs ahead of those handed out
(`SerialsInOrder`), that the secret is no newer than any certificate the resource or the pass
knows (`SecretIsOldest`), and that the bundle in memory lies between the secret and its
certificate and is what the secret holds once it is written (`BundleInOrder`). It leans on
`IInv`: without the accounting of ARNs a pass could go back to an older certificate.

### RecordProofs

`RecordedWasExported` and `TornSecretNotRecorded`, from `RecordInv` on top of the three invariants
above. The controller keeps no record of exports but the serial in the Status, and it copies
Status fields between three resources on the way. `RecordInv` follows such a Status: it is
*vouched for* (`Vouched`, `Claimed`) if the pair with its serial is in the secret, or its export
failed, or none was tried and the secret's certificate is another one. The recorded Status
always is, as is the observed one from the point on where nothing is left to export
(`Settled`, `LatestSound`). The step that carries the proof is `ReadFoundSound`: when the comparison of
the recorded Status with the observed one yields neither `IssuedAt` nor `Serial`, the serials are
the same. That is true only because a Status marked as issued has a serial
(`Plausible`), because a requested certificate that has a serial is issued
(`IssuesHaveSerials`), and because the pass started from the Status the cluster records
(`RecordSound`). While a pair is being written, what was observed is no newer than the pair,
so after the second write it is vouched for (`ExportSound`). A claim lapses only if the
certificate of a skipped serial is written after all (`ClaimsKept`; the secret only moves
forward, by `SecretInv`), and then it is not the recorded one: a serial that is recorded is not
exported again (`ExportIsNews`). That skipped serials leave nothing in the secret needs three
more facts: without `exportTo` the secret is empty (`ExportsWanted`), a certificate just
created is not the one in the secret (`CreatedIsUnwritten`), and no Status has a serial that
is still to be handed out (`SerialsKnown`). Imports are kept apart by `KindsAgree`: a resource
imports all its certificates or none, and no imported one is exported. A torn secret
(`KeyFollows`: the key is the older half) then has a certificate whose serial is not
vouched for unless its export failed, so the Status does not call it current.

### ManagerFactoryProofs

`CacheGuarded`, `RightManagerReturned`, `SettledStayCached`, for any number of workers, ids and
calls, from an invariant that ties the lock sets to the program counters (`Locks`), what is
cached and held to its id (`CacheIsRight`, `HeldIsRight`), and the ids of finished calls to
the cache (`Settled`). `FactoryTypeCorrect`. `ManagersBounded`: each maker of a manager for an id
is a different worker, because one that has made one finds it in the cache from then on; with the
set of workers finite, the cardinality lemmas give the bound.

### TagSyncProofs

`TagTypeCorrect`, `AWSTagsLeftAlone`, `FittingTagsAccepted`, `SyncExact`, `AdoptedTagsKept`. The pass acts
on a list that may be stale, so the invariant says what of it is still good: the Spec has user
tags only (`SpecIsUsers`), so that after the mirroring copy and list agree on the tags of AWS
(`AWSTagsMirrored`); with nobody interfering, ACM holds the list, less what was
removed (`ListIsCurrent`), and the tags that fit the limit fit it after the removal by a cardinality
argument (`SyncFits`) and are exactly the wanted ones in the end (`SyncedTags`); and every copy has the original user tags up to a missing value
(`CopiesAreOriginal`), which is what the conversions make of them.

### ReferencesProofs

`ReferencesTypeCorrect`, `RequestsFromCA`, `AdoptedIsNotCreated`, `ResolvedStaysOut`. An
authority may cease to be ready right after it was resolved, and the annotation may go right
after it was read; the invariant is about the pass's copy: the ARN it holds was resolved under the
reference it holds (`PassIsResolved`), it is not behind the resource in what it knows of adoption
(`PassKnowsAdoption`), and the branch it took follows from that (`BranchIsRight`).

### Model-checked only

The liveness properties and the properties under fairness (`StatusFollowsACM`, `OptionsConverge`,
`RenewalReachesSecret`, `ImportIsRedone`, `DeletionCompletes`, `CallsReturn`, `TagsConverge`,
`ReadyReferenceIsUsed`): fairness and `ENABLED` are outside what the prover does. The runs that
expect a violation are counterexamples and stay with TLC.

## 5. Not modelled

* Re-import into a given `Spec.CertificateARN`, which ties the resource to a certificate the
  controller did not make, and two resources that record one ARN: a model of these needs
  several resources over one account.
* The adoption policy *adopt-or-create*, and `SetIdentifiers`, which only the runtime's
  AdoptedResource reconciler calls. Under *adopt*, the mark and the Spec are patched
  before the Status, and the annotation is read only until the resource is managed: a restart
  between the two leaves a resource that never finds its certificate. `References` has this
  behaviour; it is the runtime's order.
* The runtime's deletion policy *retain*, and `ManagedBy`, which no decision reads.
* Several replicas of the controller: the runtime elects one leader.
* Start-up (`cmd/controller/main.go`), generated deep copies and accessors, version: they
  keep no state that a property could be about.
* `DecryptPrivateKey` is a pure conversion; its failure is one of the ways an export fails.

## 6. Plan

1. `TagSync` shown to implement the single step `SyncTags` of `Reconciler`: an abstract
   specification of the tags of a certificate, with a sync that succeeds or fails half done, as a
   property of `tag_sync` and as a theorem. `SyncReachesDesired` is its successful half.
2. `References` shown to implement what its users see of it: a certificate is adopted or requested
   once, from an authority that was ready.
