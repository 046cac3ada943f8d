------------------------------ MODULE Reconciler ------------------------------
(***************************************************************************)
(* One Certificate resource under reconciliation: the custom resource in   *)
(* the cluster, the certificates ACM holds, the TLS secret they are        *)
(* exported to, and a pass of the controller over them.                    *)
(*                                                                         *)
(* A pass is a program counter with one action per remote call, because    *)
(* users, ACM and crashes act between two calls.  The order of the calls   *)
(* is the ACK runtime's (external); what happens around each call is the   *)
(* resource manager's (sdk.go, hooks.go, manager.go).                      *)
(***************************************************************************)
EXTENDS Certificate, FiniteSets

CONSTANTS
  Specs,        \* the Specs users create
  Edits,        \* which fields users edit later
  FaultSites,   \* the calls that may fail
  Events,       \* what ACM and others do to certificates on their own
  MaxFaults,    \* failed calls
  MaxCrashes,   \* controller restarts
  MaxEdits,     \* edits of the Spec, and rotations of the key material
  MaxDeletes    \* certificates deleted behind the controller's back

\* The bounds are numbers, and users create Specs the schema admits.
ASSUME ReconcilerAssumption ==
  /\ Specs \subseteq CertificateSpec
  /\ MaxFaults \in Nat
  /\ MaxCrashes \in Nat
  /\ MaxEdits \in Nat
  /\ MaxDeletes \in Nat

VARIABLES
  cr,        \* the custom resource as the API server has it
  acm,       \* the certificates, by ARN
  arns,      \* how many ARNs have been given out
  serials,   \* how many serial numbers have been given out
  material,  \* the algorithm of the key pair in the secrets to import from
  secret,    \* serials of the certificate and the key in the exportTo secret
  pc,        \* the next call of the pass
  desired,   \* the pass's copy of the resource
  latest,    \* the observed, created or updated resource
  err,       \* how the pass ends
  bundle,    \* serial of the exported pair the pass holds in memory
  queued,    \* the work queue holds the resource
  used,      \* how much of each budget is spent
  lost,      \* history: ARNs whose creation was never recorded
  forgone    \* history: exports and conditions that were given up

vars == <<cr, acm, arns, serials, material, secret, pc, desired, latest, err,
          bundle, queued, used, lost, forgone>>

pass == <<pc, desired, latest, err, bundle>>

ARNs == 1..MaxCerts

PCs == {"idle", "read", "manage", "create", "readBack", "update", "afterTags",
        "writeCrt", "writeKey", "lateInit", "patchStatus",
        "delRead", "delete", "unmanage"}

\* The object in the cluster: none yet, live, marked for deletion, gone; managed
\* says that it carries the controller's finalizer.
CustomResource ==
  [phase : {"none", "live", "deleting", "gone"}, managed : BOOLEAN,
   spec : CertificateSpec, status : CertificateStatus, conds : Conditions]

\* How many failures, restarts, edits and foreign deletions have happened.
Budgets == [faults : 0..MaxFaults, crashes : 0..MaxCrashes,
            edits : 0..MaxEdits, deletes : 0..MaxDeletes]

\* Serials whose export failed; serials recorded without an attempt to export
\* them; whether the last terminal error left no condition behind.
Forgone == [failed : SUBSET (1..MaxSerial), skipped : SUBSET (1..MaxSerial),
            condition : BOOLEAN]

TypeOK ==
  /\ cr \in CustomResource
  /\ acm \in [ARNs -> ACMCertificate]
  /\ arns \in 0..MaxCerts
  /\ serials \in 0..MaxSerial
  /\ material \in Families
  /\ secret \in [crt : 0..MaxSerial, key : 0..MaxSerial]
  /\ pc \in PCs
  /\ desired \in Resource
  /\ latest \in Resource
  /\ err \in Errors
  /\ bundle \in 0..MaxSerial
  /\ queued \in BOOLEAN
  /\ used \in Budgets
  /\ lost \in SUBSET ARNs
  /\ forgone \in Forgone

NoCertificate ==
  [state |-> "NONE", type |-> "IMPORTED", family |-> DefaultFamily,
   ct |-> "DISABLED", export |-> "DISABLED",
   domain |-> CHOOSE d \in Domains : TRUE, names |-> 1,
   issued |-> FALSE, serial |-> 0, tags |-> CHOOSE t \in TagSets : TRUE]

Exists(a) == a # 0 /\ acm[a].state # "NONE"

Init ==
  /\ \E s \in Specs : cr = [phase |-> "none", managed |-> FALSE, spec |-> s,
                            status |-> NoStatus, conds |-> NoConditions]
  /\ acm = [a \in ARNs |-> NoCertificate]
  /\ arns = 0
  /\ serials = 0
  /\ material \in Families
  /\ secret = [crt |-> 0, key |-> 0]
  /\ pc = "idle"
  /\ desired = NoResource
  /\ latest = NoResource
  /\ err = "none"
  /\ bundle = 0
  /\ queued = FALSE
  /\ used = [faults |-> 0, crashes |-> 0, edits |-> 0, deletes |-> 0]
  /\ lost = {}
  /\ forgone = [failed |-> {}, skipped |-> {}, condition |-> FALSE]

-----------------------------------------------------------------------------
(* Budgets, and how a step of the pass ends.                               *)

\* A remote call fails for a reason outside the model.
Fault(site) ==
  /\ site \in FaultSites
  /\ used.faults < MaxFaults
  /\ used' = [used EXCEPT !.faults = @ + 1]

Goto(next, r) ==
  /\ pc' = next
  /\ latest' = r
  /\ UNCHANGED <<desired, err, bundle>>

\* The pass is over but for writing r to the Status of the resource.
Finish(r, e) ==
  /\ pc' = "patchStatus"
  /\ latest' = r
  /\ err' = e
  /\ bundle' = 0
  /\ UNCHANGED desired

\* A call of the resource manager failed: r carries the condition.
FinishError(r, e) == Finish(onError(r, e), e)

\* How a failed call ends the pass: its error is of the terminal class or not.
Failures == Errors \ {"none"}

\* The serial of r, as a set: empty while nothing is issued.
serialOf(r) == {s \in 1..MaxSerial : s = r.status.serial}

\* The pass ends in e, and nothing of it tells of a Terminal condition.
ForgoCondition(e) == forgone' = [forgone EXCEPT !.condition = (e = "terminal")]

\* The locals of the pass go away.
Idle ==
  /\ pc' = "idle"
  /\ desired' = NoResource
  /\ latest' = NoResource
  /\ err' = "none"
  /\ bundle' = 0

\* A certificate the pass knows of and the resource does not record.
Unrecorded ==
  {a \in ARNs : a = latest.status.arn /\ a # cr.status.arn /\ Exists(a)}

-----------------------------------------------------------------------------
(* A pass over a resource that is not being deleted.                       *)

\* The runtime takes the resource off the queue and reads it afresh.
Begin ==
  /\ pc = "idle"
  /\ queued
  /\ cr.phase \in {"live", "deleting"}
  /\ queued' = FALSE
  /\ pc' = IF cr.phase = "live" THEN "read" ELSE "delRead"
  /\ desired' = [spec |-> cr.spec, status |-> cr.status, conds |-> NoConditions]
  /\ ForgoCondition("none")
  /\ UNCHANGED <<latest, err, bundle, cr, acm, arns, serials, material, secret,
                 used, lost>>

\* Mutant: the finalizer is left for later.
CreateUnmanaged ==
  /\ pc = "read"
  /\ ~Exists(desired.status.arn)
  /\ Goto("create", latest)
  /\ UNCHANGED <<cr, acm, arns, serials, material, secret, queued, used, lost, forgone>>

\* sdkFind finds nothing: no ARN yet, or ResourceNotFoundException.
ReadNotFound ==
  /\ pc = "read"
  /\ requiredFieldsMissingFromReadOneInput(desired) \/ ~Exists(desired.status.arn)
  /\ Goto(IF cr.managed THEN "create" ELSE "manage", latest)
  /\ UNCHANGED <<cr, acm, arns, serials, material, secret, queued, used, lost, forgone>>

\* sdkFind finds the certificate; Update is called when anything differs.
\* A serial seen without a secret to export to is recorded all the same.
ReadFound ==
  /\ pc = "read"
  /\ Exists(desired.status.arn)
  /\ LET obs == ReadOne(desired, acm[desired.status.arn])
     IN /\ Goto(IF newResourceDelta(desired, obs) = {} THEN "lateInit" ELSE "update", obs)
        /\ forgone' = [forgone EXCEPT !.skipped =
                         @ \cup IF desired.spec.exportTo THEN {} ELSE serialOf(obs)]
  /\ UNCHANGED <<cr, acm, arns, serials, material, secret, queued, used, lost>>

\* Mutant: any error of DescribeCertificate means not found.
ReadFaultIsNotFound ==
  /\ pc = "read"
  /\ Fault("describe")
  /\ Goto(IF cr.managed THEN "create" ELSE "manage", latest)
  /\ UNCHANGED <<cr, acm, arns, serials, material, secret, queued, lost, forgone>>

\* DescribeCertificate or ListTagsForCertificate fails.
ReadFault ==
  /\ pc = "read"
  /\ ~requiredFieldsMissingFromReadOneInput(desired)
  /\ Fault("describe")
  /\ \E e \in Failures : FinishError(desired, e)
  /\ UNCHANGED <<cr, acm, arns, serials, material, secret, queued, lost, forgone>>

\* MarkManaged: the finalizer is stored before anything is created.
MarkManaged ==
  /\ pc = "manage"
  /\ cr.phase # "gone"
  /\ cr' = [cr EXCEPT !.managed = TRUE]
  /\ Goto("create", latest)
  /\ UNCHANGED <<acm, arns, serials, material, secret, queued, used, lost, forgone>>

\* The patch fails: the resource is gone, or the API server is away.
MarkManagedFails ==
  /\ pc = "manage"
  /\ \/ cr.phase = "gone" /\ UNCHANGED used
     \/ Fault("patchMetadata")
  /\ Idle
  /\ queued' = TRUE
  /\ UNCHANGED <<cr, acm, arns, serials, material, secret, lost, forgone>>

CreateRejected ==
  /\ pc = "create"
  /\ maybeImportCertificate(desired) = "terminal"
  /\ FinishError(desired, "terminal")
  /\ UNCHANGED <<cr, acm, arns, serials, material, secret, queued, used, lost, forgone>>

\* ImportCertificate: the certificate is issued, by someone else, at once.
importedCertificate ==
  [state |-> "ISSUED", type |-> "IMPORTED", family |-> material,
   ct |-> "DISABLED", export |-> "DISABLED", domain |-> CHOOSE d \in Domains : TRUE,
   names |-> 1, issued |-> FALSE, serial |-> serials + 1, tags |-> desired.spec.tags]

\* RequestCertificate: pending until the domains are validated.
requestedCertificate(p) ==
  [state |-> "PENDING_VALIDATION", type |-> IF p.ca THEN "PRIVATE" ELSE "AMAZON_ISSUED",
   family |-> IF p.alg = Nil THEN DefaultFamily ELSE p.alg.family,
   ct |-> IF p.ct = Nil THEN "ENABLED" ELSE p.ct,
   export |-> IF p.export = Nil THEN "DISABLED" ELSE p.export,
   domain |-> p.domain, names |-> IF p.san = 0 THEN 1 ELSE p.san,
   issued |-> FALSE, serial |-> 0, tags |-> p.tags]

\* Mutant: the ARN in the answer is not merged into the resource.
CreatedWithoutARN(c, site) ==
  /\ arns < MaxCerts
  /\ arns' = arns + 1
  /\ acm' = [acm EXCEPT ![arns + 1] = c]
  /\ Goto("readBack", onSuccess(desired))
  /\ UNCHANGED <<used, lost>>

\* ACM creates c under a new ARN.  The answer reaches the controller, which
\* merges the ARN into the resource, or it is lost: without an idempotency
\* token nothing ties the certificate to the resource any more.
Created(c, site) ==
  /\ arns < MaxCerts
  /\ arns' = arns + 1
  /\ acm' = [acm EXCEPT ![arns + 1] = c]
  /\ \/ /\ Goto("readBack", onSuccess([desired EXCEPT !.status.arn = arns + 1]))
        /\ UNCHANGED <<used, lost>>
     \/ /\ Fault(site)
        /\ FinishError(desired, "recoverable")
        /\ lost' = lost \cup {arns + 1}

CreateImport ==
  /\ pc = "create"
  /\ maybeImportCertificate(desired) = "import"
  /\ serials < MaxSerial
  /\ serials' = serials + 1
  /\ Created(importedCertificate, "import")
  /\ UNCHANGED <<cr, material, secret, queued, forgone>>

CreateRequest ==
  /\ pc = "create"
  /\ maybeImportCertificate(desired) = "request"
  /\ LET p == newCreateRequestPayload(desired.spec)
     IN /\ p.domain # Nil
        /\ supportedForRequest(p.alg)
        /\ Created(requestedCertificate(p), "request")
  /\ UNCHANGED <<cr, serials, material, secret, queued, forgone>>

\* Nothing is created: the quota is reached, a call (or reading a secret to
\* import) fails, or the request is not one ACM accepts.
CreateFails ==
  /\ pc = "create"
  /\ \/ /\ maybeImportCertificate(desired) = "import"
        /\ arns = MaxCerts \/ serials = MaxSerial
        /\ FinishError(desired, "recoverable")
        /\ UNCHANGED used
     \/ /\ maybeImportCertificate(desired) = "request"
        /\ arns = MaxCerts \/ desired.spec.domain = Nil
        /\ FinishError(desired, "recoverable")
        /\ UNCHANGED used
     \/ /\ maybeImportCertificate(desired) # "terminal"
        /\ Fault(maybeImportCertificate(desired))
        /\ \E e \in Failures : FinishError(desired, e)
     \/ /\ maybeImportCertificate(desired) = "request"
        /\ ~supportedForRequest(desired.spec.alg)
        /\ \E e \in Failures : FinishError(desired, e)
        /\ UNCHANGED used
  /\ UNCHANGED <<cr, acm, arns, serials, material, secret, queued, lost, forgone>>

\* The runtime reads the new certificate and SetStatus takes the whole Status.
\* A certificate already issued is recorded as issued without an export.
ReadBack ==
  /\ pc = "readBack"
  /\ Exists(latest.status.arn)
  /\ LET obs == ReadOne(latest, acm[latest.status.arn])
     IN /\ Goto("lateInit", [latest EXCEPT !.status = obs.status, !.conds = obs.conds])
        /\ forgone' = [forgone EXCEPT !.skipped = @ \cup serialOf(obs)]
  /\ UNCHANGED <<cr, acm, arns, serials, material, secret, queued, used, lost>>

\* The runtime returns the created resource, not the one ReadOne has put the
\* condition on.
ReadBackFails ==
  /\ pc = "readBack"
  /\ \/ /\ ~Exists(latest.status.arn)
        /\ Finish(latest, "recoverable")
        /\ UNCHANGED <<used, forgone>>
     \/ /\ Fault("describe")
        /\ \E e \in Failures : Finish(latest, e) /\ ForgoCondition(e)
  /\ UNCHANGED <<cr, acm, arns, serials, material, secret, queued, lost>>

-----------------------------------------------------------------------------
(* sdkUpdate, one action per call, in its order: export, tags, options.    *)

delta == newResourceDelta(desired, latest)

mustExport == delta \cap {"Spec.Status.IssuedAt", "Spec.Status.Serial"} # {}

ownARN == latest.status.arn

exportable(c) ==
  /\ c.state = "ISSUED"
  /\ c.type = "PRIVATE" \/ (c.type = "AMAZON_ISSUED" /\ c.export = "ENABLED")

\* ExportCertificate answers with the pair ACM holds now, which may be newer
\* than the one observed.
ExportCertificate ==
  /\ pc = "update"
  /\ mustExport
  /\ Exists(ownARN)
  /\ exportable(acm[ownARN])
  /\ pc' = "writeCrt"
  /\ bundle' = acm[ownARN].serial
  /\ UNCHANGED <<desired, latest, err, cr, acm, arns, serials, material, secret,
                 queued, used, lost, forgone>>

\* Mutant: the key goes into the secret before its certificate.
WriteKeyFirst ==
  /\ pc = "writeCrt"
  /\ secret' = [secret EXCEPT !.key = bundle]
  /\ pc' = "writeKey"
  /\ UNCHANGED <<desired, latest, err, bundle, cr, acm, arns, serials, material,
                 queued, used, lost, forgone>>

\* WriteToSecret under the key exportTo names.
WriteCertificate ==
  /\ pc = "writeCrt"
  /\ secret' = [secret EXCEPT !.crt = bundle]
  /\ pc' = "writeKey"
  /\ UNCHANGED <<desired, latest, err, bundle, cr, acm, arns, serials, material,
                 queued, used, lost, forgone>>

\* Mutant: a secret that has a key keeps it.
WriteKeyOnce ==
  /\ pc = "writeKey"
  /\ secret' = [secret EXCEPT !.key = IF @ = 0 THEN bundle ELSE @]
  /\ pc' = "lateInit"
  /\ latest' = onSuccess(mergeUpdated(desired, latest))
  /\ bundle' = 0
  /\ UNCHANGED <<desired, err, cr, acm, arns, serials, material, queued, used,
                 lost, forgone>>

\* DecryptPrivateKey, then WriteToSecret under tls.key, a second request; the
\* desired resource is returned with what was observed of the certificate.
WriteKey ==
  /\ pc = "writeKey"
  /\ secret' = [secret EXCEPT !.key = bundle]
  /\ pc' = "lateInit"
  /\ latest' = onSuccess(mergeUpdated(desired, latest))
  /\ bundle' = 0
  /\ UNCHANGED <<desired, err, cr, acm, arns, serials, material, queued, used,
                 lost, forgone>>

\* The export fails in one of its three calls; a missing secret is terminal.
\* Update returns the observed resource, Status and all, with the error.
ExportFails ==
  /\ \/ /\ pc = "update"
        /\ mustExport
        /\ ~(Exists(ownARN) /\ exportable(acm[ownARN]))
        /\ FinishError(latest, "recoverable")
        /\ UNCHANGED used
     \/ /\ \/ pc = "update" /\ mustExport /\ Fault("export")
           \/ pc \in {"writeCrt", "writeKey"} /\ Fault("writeSecret")
        /\ \E e \in Failures : FinishError(latest, e)
  /\ forgone' = [forgone EXCEPT !.failed = @ \cup serialOf(latest)]
  /\ UNCHANGED <<cr, acm, arns, serials, material, secret, queued, lost>>

\* syncTags brings the tags of the certificate to the desired ones.
SyncTags ==
  /\ pc = "update"
  /\ ~mustExport
  /\ "Spec.Tags" \in delta
  /\ Exists(ownARN)
  /\ acm' = [acm EXCEPT ![ownARN].tags = desired.spec.tags]
  /\ Goto("afterTags", latest)
  /\ UNCHANGED <<cr, arns, serials, material, secret, queued, used, lost, forgone>>

\* The certificate is gone, or a tag call fails: the tags may be half synced,
\* which is neither the old list nor the desired one.
SyncTagsFails ==
  /\ pc = "update"
  /\ ~mustExport
  /\ "Spec.Tags" \in delta
  /\ \/ /\ ~Exists(ownARN)
        /\ FinishError(latest, "recoverable")
        /\ UNCHANGED <<acm, used>>
     \/ /\ Exists(ownARN)
        /\ Fault("tags")
        /\ \E e \in Failures : FinishError(latest, e)
        /\ \E t \in TagSets :
             acm' = [acm EXCEPT ![ownARN].tags = t]
  /\ UNCHANGED <<cr, arns, serials, material, secret, queued, lost, forgone>>

tagsDone == pc = "afterTags" \/ (pc = "update" /\ ~mustExport /\ "Spec.Tags" \notin delta)

onlyTags == delta \subseteq {"Spec.Tags"}

imported == latest.status.type = "IMPORTED"

\* Nothing else to do: the desired resource is returned as it is, Status too.
UpdateReturnsDesired ==
  /\ tagsDone
  /\ onlyTags \/ (imported /\ delta \cap OptionsPaths = {})
  /\ Goto("lateInit", onSuccess(desired))
  /\ UNCHANGED <<cr, acm, arns, serials, material, secret, queued, used, lost, forgone>>

\* "only tags can be updated for an imported certificate"
UpdateRefusesImported ==
  /\ tagsDone
  /\ imported
  /\ delta \cap OptionsPaths # {}
  /\ FinishError(latest, "terminal")
  /\ UNCHANGED <<cr, acm, arns, serials, material, secret, queued, used, lost, forgone>>

\* Mutant: imported certificates are not told apart.
UpdateAnyOptions ==
  tagsDone /\ ~onlyTags

mustUpdateOptions == tagsDone /\ ~onlyTags /\ ~imported

\* UpdateCertificateOptions: ACM takes the fields that are set.
newOptions(c, o) ==
  [c EXCEPT !.ct = IF o.ct = Nil THEN @ ELSE o.ct,
            !.export = IF o.export = Nil THEN @ ELSE o.export]

UpdateCertificateOptions ==
  /\ mustUpdateOptions
  /\ Exists(ownARN)
  /\ desired.spec.opts # Nil
  /\ acm' = [acm EXCEPT ![ownARN] = newOptions(@, desired.spec.opts)]
  /\ \/ /\ Goto("lateInit", onSuccess(mergeUpdated(desired, latest)))
        /\ UNCHANGED used
     \/ /\ Fault("options")
        /\ FinishError(latest, "recoverable")
  /\ UNCHANGED <<cr, arns, serials, material, secret, queued, lost, forgone>>

\* The certificate is gone, the call fails, or there are no Options to send:
\* the SDK requires them and refuses the call.
UpdateCertificateOptionsFails ==
  /\ mustUpdateOptions
  /\ \/ /\ ~Exists(ownARN) \/ desired.spec.opts = Nil
        /\ FinishError(latest, "recoverable")
        /\ UNCHANGED used
     \/ /\ Fault("options")
        /\ \E e \in Failures : FinishError(latest, e)
  /\ UNCHANGED <<cr, acm, arns, serials, material, secret, queued, lost, forgone>>

-----------------------------------------------------------------------------
(* The end of a pass.                                                      *)

\* Mutant: the runtime updates the resource instead of patching it.
LateInitializeAndUpdate ==
  /\ pc = "lateInit"
  /\ Exists(latest.status.arn)
  /\ LET obs == ReadOne(latest, acm[latest.status.arn])
         li  == lateInitializeFromReadOneOutput(obs, latest)
     IN /\ cr' = [cr EXCEPT !.spec = li.spec]
        /\ Finish(li, "none")
  /\ UNCHANGED <<acm, arns, serials, material, secret, queued, used, lost, forgone>>

\* LateInitialize reads once more, fills in what the user left out, and the
\* runtime patches the Spec with what changed.
LateInitialize ==
  /\ pc = "lateInit"
  /\ Exists(latest.status.arn)
  /\ LET obs == ReadOne(latest, acm[latest.status.arn])
         li  == lateInitializeFromReadOneOutput(obs, latest)
         incomplete == incompleteLateInitialization(li)
         res == [li EXCEPT !.conds.lateInit = IF incomplete THEN "False" ELSE "True",
                           !.conds.synced = IF incomplete THEN "False" ELSE @]
     IN \/ /\ cr' = [cr EXCEPT !.spec = mergePatch(@, latest.spec, li.spec)]
           /\ Finish(res, IF incomplete THEN "recoverable" ELSE "none")
           /\ UNCHANGED used
        \/ /\ Fault("patchSpec")
           /\ Finish(res, "recoverable")
           /\ UNCHANGED cr
  /\ UNCHANGED <<acm, arns, serials, material, secret, queued, lost, forgone>>

\* The read fails.  What LateInitialize returns is its own copy of the resource,
\* without the condition ReadOne has put on another.
LateInitializeFails ==
  /\ pc = "lateInit"
  /\ LET res == [latest EXCEPT !.conds.lateInit = "False", !.conds.synced = "False"]
     IN \/ /\ ~Exists(latest.status.arn)
           /\ Finish(res, "recoverable")
           /\ UNCHANGED <<used, forgone>>
        \/ /\ Fault("describe")
           /\ \E e \in Failures : Finish(res, e) /\ ForgoCondition(e)
  /\ UNCHANGED <<cr, acm, arns, serials, material, secret, queued, lost>>

\* The runtime requeues a pass unless it ended in a terminal error: at once
\* after an error, after RequeueOnSuccessSeconds (60 s) otherwise.
requeue == err # "terminal"

\* Whatever the pass returned goes to the Status, error or not.
PatchStatus ==
  /\ pc = "patchStatus"
  /\ cr' = IF cr.phase = "gone" THEN cr
           ELSE [cr EXCEPT !.status = latest.status, !.conds = latest.conds]
  /\ queued' = (queued \/ requeue)
  /\ Idle
  /\ UNCHANGED <<acm, arns, serials, material, secret, used, lost, forgone>>

\* The runtime drops the Status when it cannot be patched.
PatchStatusFails ==
  /\ pc = "patchStatus"
  /\ Fault("patchStatus")
  /\ lost' = lost \cup Unrecorded
  /\ ForgoCondition(err)
  /\ queued' = (queued \/ requeue)
  /\ Idle
  /\ UNCHANGED <<cr, acm, arns, serials, material, secret>>

-----------------------------------------------------------------------------
(* A pass over a resource that is being deleted.                           *)

\* Mutant: a certificate that is not found is an error like any other.
DeleteReadMustFind ==
  /\ pc = "delRead"
  /\ IF Exists(desired.status.arn)
     THEN Goto("delete", ReadOne(desired, acm[desired.status.arn]))
     ELSE FinishError(desired, "recoverable")
  /\ UNCHANGED <<cr, acm, arns, serials, material, secret, queued, used, lost, forgone>>

\* ReadOne before Delete: nothing to delete if it is not found.
DeleteRead ==
  /\ pc = "delRead"
  /\ IF Exists(desired.status.arn)
     THEN Goto("delete", ReadOne(desired, acm[desired.status.arn]))
     ELSE Goto("unmanage", latest)
  /\ UNCHANGED <<cr, acm, arns, serials, material, secret, queued, used, lost, forgone>>

DeleteReadFault ==
  /\ pc = "delRead"
  /\ ~requiredFieldsMissingFromReadOneInput(desired)
  /\ Fault("describe")
  /\ \E e \in Failures : FinishError(desired, e)
  /\ UNCHANGED <<cr, acm, arns, serials, material, secret, queued, lost, forgone>>

\* Mutant: the finalizer goes whatever DeleteCertificate answers.
DeleteIgnoringErrors ==
  /\ pc = "delete"
  /\ Goto("unmanage", latest)
  /\ UNCHANGED <<cr, acm, arns, serials, material, secret, queued, used, lost, forgone>>

\* sdkDelete: DeleteCertificate succeeds, or its answer is lost.
DeleteCertificate ==
  /\ pc = "delete"
  /\ Exists(ownARN)
  /\ acm' = [acm EXCEPT ![ownARN].state = "NONE"]
  /\ \/ /\ Goto("unmanage", latest)
        /\ UNCHANGED used
     \/ /\ Fault("delete")
        /\ FinishError(latest, "recoverable")
  /\ UNCHANGED <<cr, arns, serials, material, secret, queued, lost, forgone>>

\* The certificate is gone by now, which sdkDelete reports as an error, or in
\* use, or the call fails.
DeleteCertificateFails ==
  /\ pc = "delete"
  /\ \/ /\ ~Exists(ownARN)
        /\ FinishError(latest, "recoverable")
        /\ UNCHANGED used
     \/ /\ Fault("delete")
        /\ \E e \in Failures : FinishError(latest, e)
  /\ UNCHANGED <<cr, acm, arns, serials, material, secret, queued, lost, forgone>>

\* MarkUnmanaged: with the finalizer off, the resource goes away.
MarkUnmanaged ==
  /\ pc = "unmanage"
  /\ \/ /\ cr' = [cr EXCEPT !.phase = "gone", !.managed = FALSE, !.status = NoStatus,
                            !.conds = NoConditions]
        /\ UNCHANGED <<used, queued>>
     \/ /\ Fault("patchMetadata")
        /\ queued' = TRUE
        /\ UNCHANGED cr
  /\ Idle
  /\ UNCHANGED <<acm, arns, serials, material, secret, lost, forgone>>

-----------------------------------------------------------------------------
(* Users, ACM, and restarts of the controller.                             *)

UserCreates ==
  /\ cr.phase = "none"
  /\ cr' = [cr EXCEPT !.phase = "live"]
  /\ queued' = TRUE
  /\ UNCHANGED <<pass, acm, arns, serials, material, secret, used, lost, forgone>>

\* The Specs one edit away.  The schema makes most fields immutable once set.
edited(spec) ==
  {[spec EXCEPT !.opts = IF @ = Nil THEN [ct |-> p, export |-> Nil] ELSE [ct |-> p, export |-> @.export]]
     : p \in IF "options" \in Edits THEN Preferences ELSE {}}
  \cup {[spec EXCEPT !.domain = d] : d \in IF "domain" \in Edits THEN Domains ELSE {}}
  \cup {[spec EXCEPT !.tags = t] : t \in IF "tags" \in Edits THEN TagSets ELSE {}}
  \cup {[spec EXCEPT !.exportTo = e] : e \in IF "exportTo" \in Edits THEN {TRUE} ELSE {}}

UserEdits ==
  /\ cr.phase = "live"
  /\ used.edits < MaxEdits
  /\ \E s \in edited(cr.spec) \ {cr.spec} : cr' = [cr EXCEPT !.spec = s]
  /\ used' = [used EXCEPT !.edits = @ + 1]
  /\ queued' = TRUE
  /\ UNCHANGED <<pass, acm, arns, serials, material, secret, lost, forgone>>

\* A resource without finalizer goes at once, the others when it is removed.
UserDeletes ==
  /\ cr.phase = "live"
  /\ cr' = IF cr.managed THEN [cr EXCEPT !.phase = "deleting"]
           ELSE [cr EXCEPT !.phase = "gone", !.status = NoStatus, !.conds = NoConditions]
  /\ queued' = TRUE
  /\ UNCHANGED <<pass, acm, arns, serials, material, secret, used, lost, forgone>>

\* Another key pair is put into the secrets to import from; the controller
\* does not watch them.
UserRotatesMaterial ==
  /\ "material" \in Edits
  /\ used.edits < MaxEdits
  /\ \E f \in Families \ {material} : material' = f
  /\ used' = [used EXCEPT !.edits = @ + 1]
  /\ UNCHANGED <<pass, cr, acm, arns, serials, secret, queued, lost, forgone>>

\* Validation succeeds, or ACM renews: a new serial either way.
ACMIssues(a) ==
  /\ serials < MaxSerial
  /\ \/ "issue" \in Events /\ acm[a].state = "PENDING_VALIDATION"
     \/ "renew" \in Events /\ acm[a].state = "ISSUED" /\ acm[a].type # "IMPORTED"
  /\ acm' = [acm EXCEPT ![a].state = "ISSUED", ![a].issued = TRUE, ![a].serial = serials + 1]
  /\ serials' = serials + 1
  /\ UNCHANGED <<pass, cr, arns, material, secret, queued, used, lost, forgone>>

\* Validation fails.  What ACM issued it renews; imported ones run out.
ACMEnds(a) ==
  /\ \/ /\ "fail" \in Events
        /\ acm[a].state = "PENDING_VALIDATION"
        /\ acm' = [acm EXCEPT ![a].state = "FAILED"]
     \/ /\ "expire" \in Events
        /\ acm[a].state = "ISSUED"
        /\ acm[a].type = "IMPORTED"
        /\ acm' = [acm EXCEPT ![a].state = "EXPIRED"]
  /\ UNCHANGED <<pass, cr, arns, serials, material, secret, queued, used, lost, forgone>>

ExternalDelete(a) ==
  /\ "delete" \in Events
  /\ used.deletes < MaxDeletes
  /\ Exists(a)
  /\ acm' = [acm EXCEPT ![a].state = "NONE"]
  /\ used' = [used EXCEPT !.deletes = @ + 1]
  /\ UNCHANGED <<pass, cr, arns, serials, material, secret, queued, lost, forgone>>

\* The pass is cut short; the new process lists and queues every resource.
Crash ==
  /\ used.crashes < MaxCrashes
  /\ pc # "idle" \/ ~queued
  /\ used' = [used EXCEPT !.crashes = @ + 1]
  /\ lost' = lost \cup Unrecorded
  /\ queued' = TRUE
  /\ Idle
  /\ UNCHANGED <<cr, acm, arns, serials, material, secret, forgone>>

-----------------------------------------------------------------------------

LivePass ==
  \/ ReadNotFound \/ ReadFound \/ ReadFault
  \/ MarkManaged \/ MarkManagedFails
  \/ CreateRejected \/ CreateImport \/ CreateRequest \/ CreateFails
  \/ ReadBack \/ ReadBackFails
  \/ ExportCertificate \/ WriteCertificate \/ WriteKey \/ ExportFails
  \/ SyncTags \/ SyncTagsFails
  \/ UpdateReturnsDesired \/ UpdateRefusesImported
  \/ UpdateCertificateOptions \/ UpdateCertificateOptionsFails
  \/ LateInitialize \/ LateInitializeFails

DeletePass ==
  DeleteRead \/ DeleteReadFault \/ DeleteCertificate \/ DeleteCertificateFails \/ MarkUnmanaged

Controller == Begin \/ LivePass \/ DeletePass \/ PatchStatus \/ PatchStatusFails

Environment ==
  \/ UserCreates \/ UserEdits \/ UserDeletes \/ UserRotatesMaterial
  \/ \E a \in ARNs : ACMIssues(a) \/ ACMEnds(a) \/ ExternalDelete(a)
  \/ Crash

Next == Controller \/ Environment

Spec == Init /\ [][Next]_vars

\* A controller that is up works its queue off; nobody else owes a step.
FairSpec == Spec /\ WF_vars(Controller)
=============================================================================
