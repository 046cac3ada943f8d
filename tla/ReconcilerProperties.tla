------------------------- MODULE ReconcilerProperties -------------------------
(***************************************************************************)
(* What the reconciliation of one Certificate promises: no certificate is  *)
(* leaked but by a failure, the finalizer stays while there is something   *)
(* to delete, the secret holds what the Status says was exported.          *)
(***************************************************************************)
EXTENDS Reconciler

recorded == cr.status.serial

\* The secret holds the pair with serial s, or a newer one.
Exported(s) == secret.crt >= s /\ secret.key >= s

\* The queue will not bring the resource back: the last pass was terminal.
Parked == pc = "idle" /\ ~queued

-----------------------------------------------------------------------------
(* Safety.                                                                 *)

\* Every certificate that exists in ACM is recorded in the resource, in the
\* hands of the running pass, or one whose creation was lost to a failure:
\* no order of create, external deletion, re-create, delete and user actions
\* drops an ARN (sdkCreate, sdkDelete, the status patch).
EveryCertificateAccounted ==
  \A a \in ARNs : Exists(a) => a = cr.status.arn \/ a \in Unrecorded \/ a \in lost

\* A certificate is left behind in ACM only by a failure, and each failed
\* call and each restart leaves at most one: retries of sdkCreate, re-creation
\* after an external deletion and deletion itself leave none.
LeakNeedsFailure ==
  Cardinality({a \in ARNs : Exists(a) /\ a # cr.status.arn /\ a \notin Unrecorded})
    <= used.faults + used.crashes

\* While the resource has a certificate, recorded or just created, it has the
\* finalizer and is there to record and to delete it (descriptor.go, the
\* runtime marks the resource managed before Create).
FinalizerProtects ==
  Exists(cr.status.arn) \/ Unrecorded # {} \/ pc \in {"create", "readBack"}
    => cr.managed /\ cr.phase \in {"live", "deleting"}

\* sdkCreate never runs while the certificate the resource records exists.
CreateOnlyWhenGone ==
  [][arns' # arns => ~Exists(cr.status.arn)]_vars

\* The serial in the Status is all the controller knows of its exports
\* (exportCertificate, compareCertificateIssuedAt).  The pair it names is in the
\* secret, whatever restarts come between the two writes and the status patch,
\* and whatever ACM renews in between, with three exceptions: the export of that
\* serial failed (manager.go:164), it was first seen by the read-back after Create,
\* or it was seen while there was no secret to export to.  ACM exports no
\* imported certificate.
RecordedIsExported ==
  cr.phase = "live" /\ cr.spec.exportTo /\ recorded # 0 /\ cr.status.type # "IMPORTED"
    => Exported(recorded) \/ recorded \in forgone.failed \/ recorded \in forgone.skipped

\* The key is written second and is never the newer half of the secret.  While
\* certificate and key belong to different issues, the Status does not record
\* that certificate's serial, at no point of a pass and after no restart or
\* renewal between the two writes.  The one exception is an export that failed:
\* Update returns what it observed, and the torn pair is recorded (manager.go:164).
TornSecretIsNotRecorded ==
  /\ secret.key <= secret.crt
  /\ cr.phase = "live" /\ cr.spec.exportTo /\ secret.key # secret.crt
       => recorded # secret.crt \/ recorded \in forgone.failed

\* The secret as ExportSpec promises it: ACM's serial numbers are what is
\* issued there, and the secret is the secret.
Export == INSTANCE ExportSpec WITH issued <- serials, secret <- secret

\* The passes implement the promise of ExportSpec: across renewals, failures,
\* restarts and re-creation under another ARN, no pass puts an older
\* certificate into the secret than the one that is there, nor a key that is
\* not that certificate's (exportCertificate and its two WriteToSecret).
ImplementsExport == Export!Spec

\* Nothing the controller does changes the options of an imported certificate
\* ("only tags can be updated for an imported certificate").
ImportedOptionsFixed ==
  [][\A a \in ARNs : Exists(a) /\ acm[a].type = "IMPORTED" =>
       acm'[a].ct = acm[a].ct /\ acm'[a].export = acm[a].export]_vars

\* An edit that arrives while a pass is under way survives its late
\* initialization in every field that was set when the pass read the Spec:
\* LateInitialize fills gaps, and the merge patch carries nothing else.
LateInitializationFillsGaps ==
  [][pc = "lateInit" /\ pc' # pc =>
       LET was == desired.spec  now == cr.spec  then == cr'.spec
       IN /\ was.alg # Nil => then.alg = now.alg
          /\ was.san # 0 => then.san = now.san
          /\ was.dvo # 0 => then.dvo = now.dvo
          /\ was.opts # Nil => then.opts # Nil /\ then.opts.ct = now.opts.ct
          /\ was.opts # Nil /\ was.opts.export # Nil => then.opts.export = now.opts.export
          /\ <<then.domain, then.tags, then.exportTo>> = <<now.domain, now.tags, now.exportTo>>]_vars

\* A live resource the queue no longer holds says so with its Terminal condition,
\* through restarts, edits and the stripping of conditions at the start of a pass
\* (onError, requeue), unless that condition was lost with the last pass: ReadOne
\* puts it on a resource that the read-back and LateInitialize do not return
\* (manager.go:224-230), or the status patch failed.
ParkedIsTerminal ==
  Parked /\ cr.phase = "live" /\ ~forgone.condition => cr.conds.terminal = "True"

-----------------------------------------------------------------------------
(* Liveness, under FairSpec.  Users, ACM and failures have budgets, so from  *)
(* some time on they leave the system alone: what must come about eventually *)
(* is stated for the state it then settles in.                               *)

\* A deleted resource goes away, however often DeleteCertificate fails, loses
\* its answer, or finds the certificate gone.  Only a terminal answer of AWS, which
\* the resource then shows, stops it: the queue drops it, finalizer and all.
DeletionCompletes ==
  cr.phase = "deleting" ~> cr.phase = "gone" \/ (Parked /\ cr.conds.terminal = "True")

\* The state ACM has a requested certificate in reaches the Status and stays
\* there, unless the resource stops being reconciled.
StatusFollowsACM ==
  <>[](cr.phase = "live" /\ ~cr.spec.certificate /\ Exists(cr.status.arn)
         => cr.status.status = acm[cr.status.arn].state \/ Parked)

\* Every issue of the certificate reaches the secret, renewals that overtake an
\* export and restarts amid one included, except: its export failed; the
\* resource stops being reconciled; or it was recorded without an attempt to
\* export it, which befalls only the first issue of a certificate (nothing is in
\* the secret yet) or of its re-creation after an external deletion.
RenewalReachesSecret ==
  <>[](cr.phase = "live" /\ cr.spec.exportTo /\ Exists(cr.status.arn)
         => LET s == acm[cr.status.arn].serial
            IN \/ Exported(s)
               \/ s \in forgone.failed
               \/ s \in forgone.skipped /\ (secret.crt = 0 \/ used.deletes > 0)
               \/ Parked)

\* The transparency preference users set reaches the certificate, unless the
\* resource stops being reconciled.
OptionsConverge ==
  <>[](cr.phase = "live" /\ Exists(cr.status.arn) /\ cr.spec.opts # Nil /\ cr.spec.opts.ct # Nil
         => acm[cr.status.arn].ct = cr.spec.opts.ct \/ Parked)

\* An imported certificate that is deleted behind the controller's back is
\* imported again, though late initialization has put request fields into the
\* Spec (maybeImportCertificate clears them in its copy): only an edit of the
\* Spec, or ACM's limits, may keep it from coming back.
ImportIsRedone ==
  <>[](cr.phase = "live" /\ cr.spec.certificate /\ cr.status.arn # 0
         /\ cr.spec.opts # Nil /\ used.edits = 0
         => Exists(cr.status.arn) \/ arns = MaxCerts \/ serials = MaxSerial)

-----------------------------------------------------------------------------
(* What comments and documentation say, and the code does not do.          *)

\* hooks.go: a public certificate is not requested with more than five
\* validation options.
PublicValidationLimited ==
  pc = "create" /\ maybeImportCertificate(desired) = "request" /\ ~desired.spec.ca
    => newCreateRequestPayload(desired.spec).dvo <= limitDomainValidationOptionsPublic

\* certificate.go: a request names one of RSA_2048, EC_prime256v1, EC_secp384r1.
RequestNamesSupportedAlgorithm ==
  pc = "create" /\ maybeImportCertificate(desired) = "request"
    => supportedForRequest(newCreateRequestPayload(desired.spec).alg)

\* README: "after a certificate is successfully renewed by ACM, the ACK service
\* controller [...] will automatically export the renewed certificate again".
\* The certificate before it was exported, in full.
RenewalIsExported ==
  <>[](cr.phase = "live" /\ cr.spec.exportTo /\ Exists(cr.status.arn) /\ secret.key # 0
         => Exported(acm[cr.status.arn].serial) \/ Parked)

\* README: "As these resources are created, the Secrets' tls.crt will be injected
\* with the base64-encoded certificate".
IssueIsExported ==
  <>[](cr.phase = "live" /\ cr.spec.exportTo /\ Exists(cr.status.arn)
         => Exported(acm[cr.status.arn].serial) \/ Parked)

\* hooks.go: the request fields in the Spec of an import "were populated by
\* late initialization" and "are informational for imported certs", so an
\* import whose user set none of them and edited nothing is not refused.
LateInitializedImportIsAccepted ==
  pc = "create" /\ desired.spec.certificate /\ desired.spec.privateKey
    /\ desired.spec.domain = Nil /\ used.edits = 0
    => maybeImportCertificate(desired) = "import"

\* manager.go: LateInitialize sets "the optional fields which were not provided
\* by the k8s user but were defaulted by the AWS service",
\* as long as it reconciles the resource.
OptionsAreLateInitialized ==
  <>[](cr.phase = "live" /\ Exists(cr.status.arn) => cr.spec.opts # Nil \/ Parked)
=============================================================================
