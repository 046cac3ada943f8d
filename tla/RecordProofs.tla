----------------------------- MODULE RecordProofs -----------------------------
(***************************************************************************)
(* Proofs about what the Status says of the exportTo secret, for all       *)
(* values of the constants of Reconciler.                                  *)
(*                                                                         *)
(* exportCertificate keeps no record of exports but the serial number in   *)
(* the Status.  A Status is sound if the pair with that number is in the   *)
(* secret, its export failed, or nothing of it was ever written, because   *)
(* no export was tried; the invariant says where a sound Status comes from *)
(* at each point of a pass.                                                *)
(***************************************************************************)
EXTENDS ExportProofs, PassProofs

USE DEF Errors, Failures

\* The resource may have a pass that is not about its deletion.
Young == cr.phase \in {"none", "live"}

\* What became of an issue that is recorded.  One that was recorded without an
\* attempt to export it has left nothing in the secret.
Claimed(s) ==
  Exported(s) \/ s \in forgone.failed \/ (s \in forgone.skipped /\ secret.crt # s)

Vouched(st) == ~cr.spec.certificate /\ st.serial # 0 => Claimed(st.serial)

\* The fields of a Status fit each other: what is requested has a serial as soon
\* as it is issued, and only imports claim to be imported.
Plausible(st) ==
  /\ st.issued => st.serial # 0
  /\ ~cr.spec.certificate /\ st.serial # 0 => st.issued
  /\ cr.spec.certificate => st.serial = 0 \/ st.type = "IMPORTED"

\* A resource imports, or requests, all its certificates.
KindsAgree ==
  /\ pc # "idle" => desired.spec.certificate = cr.spec.certificate
  /\ \A a \in ARNs : Exists(a) => (acm[a].type = "IMPORTED" <=> cr.spec.certificate)

\* A requested certificate has a serial when it is issued, and stays issued.
IssuesHaveSerials ==
  \A a \in ARNs :
    /\ acm[a].issued => acm[a].serial # 0
    /\ Exists(a) /\ acm[a].type # "IMPORTED" /\ acm[a].serial # 0
         => acm[a].state = "ISSUED" /\ acm[a].issued

\* The key is never the newer half, and an import is not exported.
KeyFollows ==
  /\ secret.key <= secret.crt
  /\ cr.spec.certificate => secret.crt = 0 /\ pc \notin {"writeCrt", "writeKey"}

\* Only a resource that is being deleted has its certificate deleted.
DeletesOnlyDeleted == pc \in {"delRead", "delete", "unmanage"} => ~Young

\* Every serial the resource or the pass knows of has been given out.
SerialsKnown ==
  /\ cr.status.serial <= serials
  /\ desired.status.serial <= serials
  /\ latest.status.serial <= serials

\* Without exportTo there is nothing in the secret, and a pass that saw none
\* puts nothing there.
ExportsWanted ==
  /\ ~cr.spec.exportTo => secret.crt = 0
  /\ pc # "idle" /\ ~desired.spec.exportTo
       => secret.crt = 0 /\ pc \notin {"writeCrt", "writeKey"}
  /\ pc # "idle" /\ desired.spec.exportTo => cr.spec.exportTo

\* A certificate just created is not the one in the secret.
CreatedIsUnwritten ==
  pc = "readBack" /\ Exists(latest.status.arn) /\ acm[latest.status.arn].serial # 0
    => secret.crt # acm[latest.status.arn].serial

\* Nothing is exported again that is recorded.
ExportIsNews ==
  ~cr.spec.certificate =>
    /\ pc = "update" /\ mustExport
         => cr.status.serial = 0 \/ cr.status.serial # acm[latest.status.arn].serial
    /\ pc = "writeCrt" => cr.status.serial # bundle

\* The recorded Status is sound, and it is the one the pass started from.
RecordSound ==
  /\ pc # "idle" => desired.status = cr.status
  /\ Plausible(cr.status)
  /\ Vouched(cr.status)

\* The points of a pass from which the observed Status may be recorded as it
\* is, because nothing is left to export.
Settled ==
  pc \in {"readBack", "afterTags", "lateInit", "patchStatus"} \/ (pc = "update" /\ ~mustExport)

\* The observed Status is sound when it is settled; until then what is being
\* exported is at least as new.
LatestSound ==
  /\ Settled \/ pc \in {"update", "writeCrt", "writeKey"} => Plausible(latest.status)
  /\ Settled => Vouched(latest.status)
  /\ pc = "update" => latest.status.serial <= acm[latest.status.arn].serial
  /\ pc \in {"writeCrt", "writeKey"} => latest.status.serial <= bundle

RecordInv ==
  /\ KindsAgree
  /\ IssuesHaveSerials
  /\ KeyFollows
  /\ DeletesOnlyDeleted
  /\ SerialsKnown
  /\ ExportsWanted
  /\ CreatedIsUnwritten
  /\ Young => RecordSound /\ LatestSound /\ ExportIsNews

-----------------------------------------------------------------------------
(* What only grows, and what stays.                                        *)

\* The types of what the invariant compares.
LEMMA RecordTypes ==
  ASSUME TypeOK
  PROVE  /\ cr \in CustomResource /\ cr.status \in CertificateStatus
         /\ desired \in Resource /\ desired.status \in CertificateStatus
         /\ latest \in Resource /\ latest.status \in CertificateStatus
         /\ \A st \in CertificateStatus : st.serial \in Nat /\ st.serial \in 0..MaxSerial
  BY CertificateAssumption DEF TypeOK, CustomResource, Resource, CertificateStatus

\* Which steps write the secret, and how a pass gets to its writes.
LEMMA RecordFlow ==
  ASSUME [Next]_vars
  PROVE  /\ UNCHANGED secret \/ WriteCertificate \/ WriteKey
         /\ pc' \in {"writeCrt", "writeKey"}
              => ExportCertificate \/ WriteCertificate \/ UNCHANGED <<pc, bundle>>
<1> USE DEF Goto, Finish, FinishError, Idle, Created, pass
<1>1. CASE LivePass
  BY <1>1
  DEF LivePass, ReadNotFound, ReadFound, ReadFault, MarkManaged, MarkManagedFails,
      CreateRejected, CreateImport, CreateRequest, CreateFails, ReadBack, ReadBackFails,
      ExportCertificate, ExportFails, SyncTags, SyncTagsFails, WriteKey,
      UpdateReturnsDesired, UpdateRefusesImported, UpdateCertificateOptions, WriteCertificate,
      UpdateCertificateOptionsFails, LateInitialize, LateInitializeFails
<1>2. CASE Begin \/ DeletePass \/ PatchStatus \/ PatchStatusFails
  BY <1>2
  DEF Begin, DeletePass, DeleteRead, DeleteReadFault, DeleteCertificate,
      DeleteCertificateFails, MarkUnmanaged, PatchStatus, PatchStatusFails
<1>3. CASE Environment \/ UNCHANGED vars
  BY <1>3
  DEF Environment, UserCreates, UserEdits, UserDeletes, UserRotatesMaterial, ACMIssues,
      ACMEnds, ExternalDelete, Crash, vars
<1> QED
  BY <1>1, <1>2, <1>3 DEF Next, Controller

\* What was given up stays so.
LEMMA ForgoneGrows ==
  ASSUME TypeOK, [Next]_vars
  PROVE  forgone.failed \subseteq forgone'.failed /\ forgone.skipped \subseteq forgone'.skipped
<1>0. forgone \in Forgone
  BY DEF TypeOK
<1>1. CASE ReadFound \/ ReadBack \/ ExportFails
  <2>1. \E S : \/ forgone' = [forgone EXCEPT !.failed = @ \cup S]
               \/ forgone' = [forgone EXCEPT !.skipped = @ \cup S]
    BY <1>1 DEF ReadFound, ReadBack, ExportFails
  <2> QED
    BY <1>0, <2>1 DEF Forgone
<1>2. CASE UNCHANGED forgone \/ \E e : ForgoCondition(e)
  BY <1>0, <1>2 DEF Forgone, ForgoCondition
<1>3. \/ ReadFound \/ ReadBack \/ ExportFails
      \/ UNCHANGED forgone \/ \E e : ForgoCondition(e)
  <2>1. CASE LivePass
    BY <2>1
    DEF LivePass, ReadNotFound, ReadFault, MarkManaged, MarkManagedFails, CreateRejected,
        CreateImport, CreateRequest, CreateFails, ReadBackFails, ExportCertificate,
        SyncTags, SyncTagsFails, WriteKey, UpdateReturnsDesired, UpdateRefusesImported,
        UpdateCertificateOptions, WriteCertificate, UpdateCertificateOptionsFails,
        LateInitialize, LateInitializeFails
  <2>2. CASE Begin \/ DeletePass \/ PatchStatus \/ PatchStatusFails \/ Environment
             \/ UNCHANGED vars
    BY <2>2
    DEF Begin, DeletePass, DeleteRead, DeleteReadFault, DeleteCertificate,
        DeleteCertificateFails, MarkUnmanaged, PatchStatus, PatchStatusFails,
        Environment, UserCreates, UserEdits, UserDeletes, UserRotatesMaterial, ACMIssues,
        ACMEnds, ExternalDelete, Crash, vars
  <2> QED
    BY <2>1, <2>2 DEF Next, Controller
<1> QED
  BY <1>1, <1>2, <1>3

\* What became of an issue stays so, unless a write puts half of it into the
\* secret: writes only put newer ones.
LEMMA ClaimsKept ==
  ASSUME TypeOK, TypeOK', SecretInv, KeyFollows, [Next]_vars
  PROVE  /\ secret.crt <= secret'.crt /\ secret.key <= secret'.key
         /\ cr'.spec.certificate = cr.spec.certificate
         /\ \A s \in Nat : Claimed(s) /\ (WriteCertificate => bundle # s) => Claimed(s)'
<1> USE SerialTypes DEF Exported, Claimed
<1>1. CASE UNCHANGED secret
  BY <1>1, ForgoneGrows, SpecStays
<1>2. CASE WriteCertificate
  <2>1. secret'.crt = bundle /\ secret'.key = secret.key /\ pc = "writeCrt"
    BY <1>2 DEF WriteCertificate, TypeOK
  <2>2. secret.crt <= bundle
    BY <2>1 DEF SecretInv, BundleInOrder
  <2> QED
    BY <1>2, <2>1, <2>2, ForgoneGrows, SpecStays
<1>3. CASE WriteKey
  <2>1. secret'.crt = secret.crt /\ secret'.key = bundle /\ pc = "writeKey"
    BY <1>3 DEF WriteKey, TypeOK
  <2>2. bundle = secret.crt /\ secret.key <= secret.crt
    BY <2>1 DEF SecretInv, BundleInOrder, KeyFollows
  <2> QED
    BY <2>1, <2>2, ForgoneGrows, SpecStays
<1> QED
  BY <1>1, <1>2, <1>3, RecordFlow

\* The pass works for the kind of certificate the resource wants, and creates
\* no other.
LEMMA KindsStep ==
  ASSUME TypeOK, FreshARNs, KindsAgree, [Next]_vars
  PROVE  KindsAgree'
<1>0. cr'.spec.certificate = cr.spec.certificate
  BY SpecStays
<1>1. pc' # "idle" => desired'.spec.certificate = cr'.spec.certificate
  <2>1. CASE Begin
    <3>1. desired'.spec = cr.spec
      BY <2>1 DEF Begin
    <3> QED
      BY <1>0, <3>1
  <2>2. CASE ~Begin
    BY <1>0, <2>2, PCFlow DEF KindsAgree
  <2> QED
    BY <2>1, <2>2
<1>2. CASE CreateImport \/ CreateRequest
  <2>1. PICK c, site : /\ Created(c, site)
                       /\ \/ c.type = "IMPORTED" /\ maybeImportCertificate(desired) = "import"
                          \/ c.type # "IMPORTED" /\ maybeImportCertificate(desired) = "request"
    BY <1>2 DEF CreateImport, CreateRequest, importedCertificate, requestedCertificate
  <2>2. c.type = "IMPORTED" <=> desired.spec.certificate
    <3>1. desired.spec.certificate \in BOOLEAN
      BY DEF TypeOK, Resource, CertificateSpec
    <3> QED
      BY <2>1, <3>1 DEF maybeImportCertificate
  <2>3. arns' = arns + 1 /\ acm' = [acm EXCEPT ![arns + 1] = c] /\ pc = "create"
    BY <1>2, <2>1 DEF Created, CreateImport, CreateRequest
  <2>4. \A a \in ARNs : acm'[a] = IF a = arns + 1 THEN c ELSE acm[a]
    BY <2>3 DEF TypeOK
  <2> QED
    BY <1>0, <1>1, <2>2, <2>3, <2>4 DEF KindsAgree, Exists
<1>3. CASE ~CreateImport /\ ~CreateRequest
  BY <1>0, <1>1, <1>3, TypesFixed DEF KindsAgree, Exists
<1> QED
  BY <1>2, <1>3

\* ACM issues with a serial, and nothing undoes an issue.
LEMMA IssuesStep ==
  ASSUME TypeOK, IssuesHaveSerials, [Next]_vars
  PROVE  IssuesHaveSerials'
<1> USE SerialTypes DEF IssuesHaveSerials, Exists
<1>1. CASE CreateImport \/ CreateRequest
  <2>1. PICK c, site : /\ Created(c, site)
                       /\ ~c.issued /\ (c.type = "IMPORTED" \/ c.serial = 0)
    BY <1>1 DEF CreateImport, CreateRequest, importedCertificate, requestedCertificate
  <2>2. acm' = [acm EXCEPT ![arns + 1] = c]
    BY <2>1 DEF Created
  <2>3. \A a \in ARNs : acm'[a] = IF a = arns + 1 THEN c ELSE acm[a]
    BY <2>2 DEF TypeOK
  <2> QED
    BY <2>1, <2>3
<1>2. CASE UNCHANGED acm
  BY <1>2
<1>3. CASE SyncTags \/ SyncTagsFails
  <2>1. UNCHANGED acm \/ \E t : acm' = [acm EXCEPT ![ownARN].tags = t]
    BY <1>3 DEF SyncTags, SyncTagsFails
  <2>2. \A a \in ARNs : /\ acm'[a].state = acm[a].state /\ acm'[a].serial = acm[a].serial
                        /\ acm'[a].type = acm[a].type /\ acm'[a].issued = acm[a].issued
    BY <2>1 DEF TypeOK, ACMCertificate
  <2> QED
    BY <2>2
<1>4. CASE UpdateCertificateOptions
  <2>1. \A a \in ARNs : /\ acm'[a].state = acm[a].state /\ acm'[a].serial = acm[a].serial
                        /\ acm'[a].type = acm[a].type /\ acm'[a].issued = acm[a].issued
    BY <1>4 DEF UpdateCertificateOptions, newOptions, TypeOK, ACMCertificate
  <2> QED
    BY <2>1
<1>5. ASSUME NEW b \in ARNs, DeleteCertificate \/ ExternalDelete(b)
      PROVE  IssuesHaveSerials'
  <2>1. PICK d : acm' = [acm EXCEPT ![d].state = "NONE"]
    BY <1>5 DEF DeleteCertificate, ExternalDelete
  <2>2. \A a \in ARNs : /\ acm'[a].state \in {acm[a].state, "NONE"} /\ acm'[a].serial = acm[a].serial
                        /\ acm'[a].type = acm[a].type /\ acm'[a].issued = acm[a].issued
    BY <2>1 DEF TypeOK, ACMCertificate
  <2> QED
    BY <2>2
<1>6. ASSUME NEW b \in ARNs, ACMIssues(b)
      PROVE  IssuesHaveSerials'
  <2>1. \A a \in ARNs : IF a = b THEN /\ acm'[a].state = "ISSUED" /\ acm'[a].issued
                                      /\ acm'[a].serial = serials + 1
                                 ELSE acm'[a] = acm[a]
    BY <1>6 DEF ACMIssues, TypeOK, ACMCertificate
  <2> QED
    BY <2>1
<1>7. ASSUME NEW b \in ARNs, ACMEnds(b)
      PROVE  IssuesHaveSerials'
  <2>1. acm[b].state = "PENDING_VALIDATION" \/ acm[b].type = "IMPORTED"
    BY <1>7 DEF ACMEnds
  <2>2. \E s \in {"FAILED", "EXPIRED"} : acm' = [acm EXCEPT ![b].state = s]
    BY <1>7 DEF ACMEnds
  <2>3. \A a \in ARNs : /\ a # b => acm'[a] = acm[a]
                        /\ acm'[a].serial = acm[a].serial /\ acm[b].state # "NONE"
                        /\ acm'[a].type = acm[a].type /\ acm'[a].issued = acm[a].issued
    BY <1>7, <2>2 DEF ACMEnds, TypeOK, ACMCertificate
  <2> QED
    BY <2>1, <2>3
<1> QED
  BY <1>1, <1>2, <1>3, <1>4, <1>5, <1>6, <1>7, ACMSteps, CertificateAssumption DEF ARNs

\* The key is written after its certificate, and only requested certificates
\* are exported.
LEMMA KeyStep ==
  ASSUME TypeOK, TypeOK', SecretInv, KindsAgree, KeyFollows, [Next]_vars
  PROVE  KeyFollows'
<1> USE SerialTypes DEF KeyFollows
<1>0. cr'.spec.certificate = cr.spec.certificate
  BY SpecStays
<1>1. CASE ExportCertificate
  <2>1. Exists(ownARN) /\ acm[ownARN].type # "IMPORTED" /\ UNCHANGED <<secret, cr>>
    BY <1>1 DEF ExportCertificate, exportable
  <2>2. ownARN \in ARNs
    BY <2>1 DEF ownARN, Exists
  <2> QED
    BY <2>1, <2>2 DEF KindsAgree
<1>2. CASE WriteCertificate
  <2>1. secret'.crt = bundle /\ secret'.key = secret.key /\ pc = "writeCrt"
    BY <1>2 DEF WriteCertificate, TypeOK
  <2> QED
    BY <1>0, <2>1 DEF SecretInv, BundleInOrder
<1>3. CASE WriteKey
  <2>1. secret'.crt = secret.crt /\ secret'.key = bundle /\ pc = "writeKey" /\ pc' = "lateInit"
    BY <1>3 DEF WriteKey, TypeOK
  <2> QED
    BY <1>0, <2>1 DEF SecretInv, BundleInOrder
<1>4. CASE ~ExportCertificate /\ ~WriteCertificate /\ ~WriteKey
  BY <1>0, <1>4, RecordFlow
<1> QED
  BY <1>1, <1>2, <1>3, <1>4

\* Behind a pass ACM gives out new serials, and brings nothing back to life.
LEMMA EnvironmentSerials ==
  ASSUME TypeOK, [Next]_vars, UNCHANGED pass
  PROVE  /\ \A a \in ARNs : /\ acm'[a].serial \in {acm[a].serial, serials + 1}
                            /\ acm'[a].state # "NONE" => acm[a].state # "NONE"
         /\ UNCHANGED secret
<1> USE DEF TypeOK, ACMCertificate
<1>0. ~CreateImport /\ ~CreateRequest
  BY PCFlow
<1>1. UNCHANGED secret
  BY RecordFlow DEF pass, WriteCertificate, WriteKey
<1>2. CASE \E b \in ARNs : ACMIssues(b)
  BY <1>0, <1>1, <1>2, TypesFixed DEF ACMIssues
<1>3. CASE UNCHANGED acm \/ \E b \in ARNs : ACMEnds(b) \/ ExternalDelete(b)
  BY <1>0, <1>1, <1>3, TypesFixed DEF ACMEnds, ExternalDelete
<1>4. ~SyncTags /\ ~SyncTagsFails /\ ~UpdateCertificateOptions /\ ~DeleteCertificate
  BY DEF SyncTags, SyncTagsFails, UpdateCertificateOptions, DeleteCertificate, Goto,
         FinishError, Finish, mustUpdateOptions, tagsDone, pass
<1> QED
  BY <1>0, <1>2, <1>3, <1>4, ACMSteps

\* Where the observed serial of the next state comes from.
LEMMA LatestSerial ==
  ASSUME TypeOK, [Next]_vars
  PROVE  \/ latest'.status.serial \in {0, desired.status.serial, latest.status.serial}
         \/ \E a \in ARNs : latest'.status.serial = acm[a].serial
<1> USE RecordTypes
<1>0. desired \in Resource /\ latest \in Resource
  OBVIOUS
<1>1. CASE ReadFault \/ CreateFails \/ DeleteReadFault \/ ExportFails \/ SyncTagsFails
           \/ UpdateCertificateOptionsFails \/ DeleteCertificateFails
  <2>1. \E e \in Errors : FinishError(desired, e) \/ FinishError(latest, e)
    BY <1>1, FailedCalls
  <2> QED
    BY <1>0, <2>1, FinishErrorShape
<1>2. CASE CreateRejected \/ UpdateRefusesImported \/ DeleteCertificate
  <2>1. \/ \E e \in Errors : FinishError(desired, e) \/ FinishError(latest, e)
        \/ UNCHANGED latest
    BY <1>2 DEF CreateRejected, UpdateRefusesImported, DeleteCertificate, Goto
  <2> QED
    BY <1>0, <2>1, FinishErrorShape
<1>3. CASE UpdateReturnsDesired \/ WriteKey \/ UpdateCertificateOptions
  <2> DEFINE m == mergeUpdated(desired, latest)
  <2>1. \/ latest' = onSuccess(desired) \/ latest' = onSuccess(m)
        \/ FinishError(latest, "recoverable")
    BY <1>3 DEF UpdateReturnsDesired, WriteKey, UpdateCertificateOptions, Goto
  <2>2. m \in Resource /\ m.status.serial = latest.status.serial
    BY <1>0, MergeUpdatedType, MergeUpdatedFields
  <2> HIDE DEF m
  <2> QED
    BY <1>0, <2>1, <2>2, OnSuccessType, FinishErrorShape
<1>4. CASE CreateImport \/ CreateRequest
  <2> DEFINE r == [desired EXCEPT !.status.arn = arns + 1]
  <2>1. PICK c, site : Created(c, site)
    BY <1>4 DEF CreateImport, CreateRequest
  <2>2. (latest' = onSuccess(r) /\ arns < MaxCerts) \/ FinishError(desired, "recoverable")
    BY <2>1 DEF Created, Goto
  <2>3. arns < MaxCerts => r \in Resource /\ r.status.serial = desired.status.serial
    BY <1>0, CertificateAssumption DEF Resource, CertificateStatus, TypeOK
  <2> HIDE DEF r
  <2> QED
    BY <1>0, <2>2, <2>3, OnSuccessType, FinishErrorShape
<1>5. CASE ReadFound \/ ReadBack \/ DeleteRead
  <2>1. \/ UNCHANGED latest
        \/ \E r \in {desired, latest} :
             /\ Exists(r.status.arn)
             /\ latest'.status = ReadOne(r, acm[r.status.arn]).status
    BY <1>0, <1>5 DEF ReadFound, ReadBack, DeleteRead, Goto, Resource
  <2>2. ASSUME NEW r \in Resource, Exists(r.status.arn)
        PROVE  /\ r.status.arn \in ARNs
               /\ ReadOne(r, acm[r.status.arn]).status.serial = acm[r.status.arn].serial
    <3>1. r.status.arn \in ARNs /\ acm[r.status.arn] \in ACMCertificate
      BY <2>2, ReadType
    <3>2. ReadOne(r, acm[r.status.arn]).status = observedStatus(r.status.arn, acm[r.status.arn])
      BY <2>2, <3>1, ReadOneType DEF Exists
    <3> QED
      BY <3>1, <3>2 DEF observedStatus
  <2> QED
    BY <1>0, <2>1, <2>2
<1>6. CASE LateInitialize \/ LateInitializeFails \/ ReadBackFails
  <2>1. CASE ReadBackFails
    BY <2>1 DEF ReadBackFails, Finish
  <2>2. CASE LateInitializeFails
    BY <1>0, <2>2 DEF LateInitializeFails, Finish, Resource
  <2>3. CASE LateInitialize
    <3> DEFINE li == lateInitializeFromReadOneOutput(
                       ReadOne(latest, acm[latest.status.arn]), latest)
    <3>1. \E e, lc, sc : Finish([li EXCEPT !.conds.lateInit = lc, !.conds.synced = sc], e)
      BY <2>3 DEF LateInitialize
    <3>2. li \in Resource /\ li.status = latest.status
      BY <1>0, <2>3, ReadType, LateInitializeType DEF LateInitialize
    <3> HIDE DEF li
    <3> QED
      BY <3>1, <3>2 DEF Finish, Resource
  <2> QED
    BY <1>6, <2>1, <2>2, <2>3
<1>7. CASE UNCHANGED latest \/ latest' = NoResource
  BY <1>7 DEF NoResource, NoStatus
<1>8. \/ ReadFault \/ CreateFails \/ DeleteReadFault \/ ExportFails \/ SyncTagsFails
      \/ UpdateCertificateOptionsFails \/ DeleteCertificateFails \/ CreateRejected
      \/ UpdateRefusesImported \/ DeleteCertificate \/ UpdateReturnsDesired \/ WriteKey
      \/ UpdateCertificateOptions \/ CreateImport \/ CreateRequest \/ ReadFound \/ ReadBack
      \/ DeleteRead \/ LateInitialize \/ LateInitializeFails \/ ReadBackFails
      \/ UNCHANGED latest \/ latest' = NoResource
  BY DEF Next, Controller, LivePass, DeletePass, Environment, Begin, ReadNotFound, MarkManaged,
         MarkManagedFails, ExportCertificate, WriteCertificate, SyncTags, PatchStatus,
         PatchStatusFails, MarkUnmanaged, UserCreates, UserEdits, UserDeletes,
         UserRotatesMaterial, ACMIssues, ACMEnds, ExternalDelete, Crash, Goto, Idle, pass, vars
<1> QED
  BY <1>1, <1>2, <1>3, <1>4, <1>5, <1>6, <1>7, <1>8

\* The object in the cluster changes by few steps, and its Status by the patch
\* or when it goes.
LEMMA StatusChanges ==
  ASSUME TypeOK, [Next]_vars
  PROVE  cr'.status.serial \in {0, cr.status.serial, latest.status.serial}
<1> USE RecordTypes
<1>1. CASE LateInitialize
  BY <1>1, LateInitializeShape
<1>2. CASE MarkManaged \/ PatchStatus \/ MarkUnmanaged \/ UserCreates \/ UserEdits \/ UserDeletes
  <2>1. cr'.status \in {cr.status, latest.status, NoStatus}
    BY <1>2 DEF MarkManaged, PatchStatus, MarkUnmanaged, UserCreates, UserEdits, UserDeletes,
                CustomResource
  <2> QED
    BY <2>1 DEF NoStatus
<1>3. UNCHANGED cr \/ LateInitialize \/ MarkManaged \/ PatchStatus \/ MarkUnmanaged
      \/ UserCreates \/ UserEdits \/ UserDeletes
  BY DEF Next, Controller, LivePass, DeletePass, Environment, Begin, ReadNotFound, ReadFound,
         ReadFault, MarkManagedFails, CreateRejected, CreateImport, CreateRequest,
         CreateFails, ReadBack, ReadBackFails, ExportCertificate, WriteCertificate, WriteKey,
         ExportFails, SyncTags, SyncTagsFails, UpdateReturnsDesired, UpdateRefusesImported,
         UpdateCertificateOptions, UpdateCertificateOptionsFails, LateInitializeFails,
         PatchStatusFails, DeleteRead, DeleteReadFault, DeleteCertificate,
         DeleteCertificateFails, UserRotatesMaterial, ACMIssues, ACMEnds, ExternalDelete,
         Crash, vars
<1> QED
  BY <1>1, <1>2, <1>3

\* Passes learn serials from ACM only.
LEMMA SerialsKnownStep ==
  ASSUME TypeOK, TypeOK', SecretInv, SerialsKnown, [Next]_vars
  PROVE  SerialsKnown'
<1> USE RecordTypes, SerialTypes DEF SerialsKnown
<1>1. serials' = serials \/ serials' = serials + 1
  BY DEF Next, Controller, LivePass, DeletePass, Environment, Begin, ReadNotFound, ReadFound,
         ReadFault, MarkManaged, MarkManagedFails, CreateRejected, CreateImport,
         CreateRequest, CreateFails, ReadBack, ReadBackFails, ExportCertificate,
         WriteCertificate, WriteKey, ExportFails, SyncTags, SyncTagsFails,
         UpdateReturnsDesired, UpdateRefusesImported, UpdateCertificateOptions,
         UpdateCertificateOptionsFails, LateInitialize, LateInitializeFails, PatchStatus,
         PatchStatusFails, DeleteRead, DeleteReadFault, DeleteCertificate,
         DeleteCertificateFails, MarkUnmanaged, UserCreates, UserEdits, UserDeletes,
         UserRotatesMaterial, ACMIssues, ACMEnds, ExternalDelete, Crash, vars
<1>2. serials \in Nat /\ serials <= serials'
  BY <1>1
<1>3. cr'.status.serial <= serials
  BY <1>2, StatusChanges
<1>4. desired'.status.serial <= serials
  <2>1. \/ UNCHANGED desired \/ desired'.status = cr.status \/ desired' = NoResource
    <3>1. CASE pc' = "idle"
      BY <3>1 DEF Next, Controller, LivePass, DeletePass, Environment, Begin, ReadNotFound,
         ReadFound, ReadFault, MarkManaged, MarkManagedFails, CreateRejected, CreateImport,
         CreateRequest, CreateFails, ReadBack, ReadBackFails, ExportCertificate,
         WriteCertificate, WriteKey, ExportFails, SyncTags, SyncTagsFails,
         UpdateReturnsDesired, UpdateRefusesImported, UpdateCertificateOptions,
         UpdateCertificateOptionsFails, LateInitialize, LateInitializeFails, PatchStatus,
         PatchStatusFails, DeleteRead, DeleteReadFault, DeleteCertificate,
         DeleteCertificateFails, MarkUnmanaged, UserCreates, UserEdits, UserDeletes,
         UserRotatesMaterial, ACMIssues, ACMEnds, ExternalDelete, Crash, vars, pass, Goto,
         Created, Finish, FinishError, Idle
    <3>2. CASE Begin
      BY <3>2 DEF Begin
    <3> QED
      BY <3>1, <3>2, PCFlow
  <2> QED
    BY <1>2, <2>1 DEF NoResource, NoStatus
<1>5. latest'.status.serial <= serials
  <2>1. \A a \in ARNs : acm[a].serial <= serials
    BY DEF SecretInv, SerialsInOrder
  <2> QED
    BY <1>2, <2>1, LatestSerial
<1>6. /\ cr'.status.serial \in Nat /\ desired'.status.serial \in Nat
      /\ latest'.status.serial \in Nat /\ serials' \in Nat
  <2>1. /\ cr' \in CustomResource /\ desired' \in Resource /\ latest' \in Resource
        /\ serials' \in 0..MaxSerial
    BY DEF TypeOK
  <2> QED
    BY <2>1, CertificateAssumption DEF CustomResource, Resource, CertificateStatus
<1> QED
  BY <1>2, <1>3, <1>4, <1>5, <1>6

\* A resource that is being deleted, or gone, stays so; the Status of any other
\* changes by the patch alone.
LEMMA YoungStays ==
  ASSUME TypeOK, [Next]_vars, Young'
  PROVE  Young /\ cr'.status \in {cr.status, latest.status}
         /\ (cr'.status # cr.status => PatchStatus)
<1> USE RecordTypes DEF Young
<1>1. CASE LateInitialize
  BY <1>1, LateInitializeShape
<1>2. CASE MarkManaged \/ PatchStatus \/ MarkUnmanaged \/ UserCreates \/ UserEdits \/ UserDeletes
  BY <1>2 DEF MarkManaged, PatchStatus, MarkUnmanaged, UserCreates, UserEdits, UserDeletes,
              CustomResource
<1>3. UNCHANGED cr \/ LateInitialize \/ MarkManaged \/ PatchStatus \/ MarkUnmanaged
      \/ UserCreates \/ UserEdits \/ UserDeletes
  BY DEF Next, Controller, LivePass, DeletePass, Environment, Begin, ReadNotFound, ReadFound,
         ReadFault, MarkManagedFails, CreateRejected, CreateImport, CreateRequest,
         CreateFails, ReadBack, ReadBackFails, ExportCertificate, WriteCertificate, WriteKey,
         ExportFails, SyncTags, SyncTagsFails, UpdateReturnsDesired, UpdateRefusesImported,
         UpdateCertificateOptions, UpdateCertificateOptionsFails, LateInitializeFails,
         PatchStatusFails, DeleteRead, DeleteReadFault, DeleteCertificate,
         DeleteCertificateFails, UserRotatesMaterial, ACMIssues, ACMEnds, ExternalDelete,
         Crash, vars
<1> QED
  BY <1>1, <1>2, <1>3

\* A pass that deletes begins on a resource that is being deleted.
LEMMA DeletesStep ==
  ASSUME TypeOK, DeletesOnlyDeleted, [Next]_vars
  PROVE  DeletesOnlyDeleted'
<1> SUFFICES ASSUME Young', pc' \in {"delRead", "delete", "unmanage"}
             PROVE  FALSE
  BY DEF DeletesOnlyDeleted
<1>0. Young
  BY YoungStays
<1>1. CASE Begin
  BY <1>0, <1>1 DEF Begin, Young
<1>2. CASE LivePass
  BY <1>2, LiveShape DEF LivePCs
<1>3. CASE DeletePass
  BY <1>0, <1>3, DeleteShape DEF DeletesOnlyDeleted
<1>4. CASE PatchStatus \/ PatchStatusFails \/ Crash
  BY <1>4 DEF PatchStatus, PatchStatusFails, Crash, Idle
<1>5. CASE UserCreates \/ UserEdits \/ UserDeletes \/ UserRotatesMaterial \/ UNCHANGED vars
           \/ \E a \in ARNs : ACMIssues(a) \/ ACMEnds(a) \/ ExternalDelete(a)
  <2>1. UNCHANGED pc
    BY <1>5 DEF UserCreates, UserEdits, UserDeletes, UserRotatesMaterial, ACMIssues, ACMEnds,
                ExternalDelete, pass, vars
  <2> QED
    BY <1>0, <2>1 DEF DeletesOnlyDeleted
<1> QED
  BY <1>1, <1>2, <1>3, <1>4, <1>5 DEF Next, Controller, Environment

-----------------------------------------------------------------------------
(* Where a sound Status comes from.                                        *)

\* Handing on a sound Status, but for its ARN, keeps it sound.
LEMMA HandOn ==
  ASSUME TypeOK, TypeOK', SecretInv, KeyFollows, [Next]_vars,
         NEW st \in CertificateStatus, Plausible(st), Vouched(st),
         pc' \notin {"update", "writeCrt", "writeKey"},
         latest'.status.serial = st.serial, latest'.status.issued = st.issued,
         latest'.status.type = st.type
  PROVE  LatestSound'
<1>1. cr'.spec.certificate = cr.spec.certificate
  BY ClaimsKept
<1>2. Claimed(st.serial) => Claimed(st.serial)'
  <2>1. ~WriteCertificate
    BY DEF WriteCertificate
  <2> QED
    BY <2>1, ClaimsKept, RecordTypes
<1>3. Plausible(latest.status)'
  BY <1>1 DEF Plausible
<1>4. Vouched(latest.status)'
  BY <1>1, <1>2 DEF Vouched, Claimed, Exported
<1> QED
  BY <1>3, <1>4 DEF LatestSound

\* The recorded Status stays sound while it stays.
LEMMA RecordStays ==
  ASSUME TypeOK, TypeOK', SecretInv, KeyFollows, [Next]_vars, RecordSound,
         ExportIsNews, cr'.status = cr.status, pc' # "idle" => desired'.status = cr.status
  PROVE  RecordSound'
<1>1. cr'.spec.certificate = cr.spec.certificate
  BY ClaimsKept
<1>2. PICK s \in Nat : s = cr.status.serial
  BY RecordTypes
<1>3. ~cr.spec.certificate /\ Claimed(s) => Claimed(s)'
  BY <1>2, ClaimsKept DEF ExportIsNews, WriteCertificate
<1>4. Vouched(cr.status)'
  BY <1>1, <1>2, <1>3 DEF RecordSound, Vouched
<1> QED
  BY <1>1, <1>4 DEF RecordSound, Plausible

\* Without a path that calls for an export, an issued certificate was recorded
\* as issued, and under the serial it has.
LEMMA NoExportDue ==
  ASSUME NEW a, NEW b, a.spec.exportTo,
         newResourceDelta(a, b) \cap {"Spec.Status.IssuedAt", "Spec.Status.Serial"} = {}
  PROVE  /\ b.status.status = "ISSUED" => a.status.issued
         /\ a.status.serial # 0 /\ b.status.serial # 0 => a.status.serial = b.status.serial
<1>1. compareCertificateIssuedAt(a, b) \cap {"Spec.Status.IssuedAt", "Spec.Status.Serial"} = {}
  BY DEF newResourceDelta
<1> QED
  BY <1>1 DEF compareCertificateIssuedAt

\* An export is called for by the first issue or by another serial, when there
\* is a secret to export to.
LEMMA ExportDue ==
  ASSUME NEW a, NEW b,
         newResourceDelta(a, b) \cap {"Spec.Status.IssuedAt", "Spec.Status.Serial"} # {}
  PROVE  /\ a.spec.exportTo
         /\ \/ ~a.status.issued
            \/ a.status.serial # 0 /\ b.status.serial # 0 /\ a.status.serial # b.status.serial
<1>1. PICK p \in compareCertificateIssuedAt(a, b) : TRUE
  BY DEF newResourceDelta, compareKeyAlgorithm, compareOptions
<1> QED
  BY <1>1 DEF compareCertificateIssuedAt

\* Reading a certificate that exists: its Status is plausible, and sound if the
\* comparison with the recorded one calls for no export, or there is no secret.
LEMMA ReadFoundSound ==
  ASSUME TypeOK, TypeOK', SecretInv, KindsAgree, IssuesHaveSerials, KeyFollows, RecordSound,
         ExportsWanted, [Next]_vars, ReadFound
  PROVE  LatestSound'
<1> DEFINE a == desired.status.arn
           c == acm[a]
           obs == ReadOne(desired, c)
<1> USE RecordTypes
<1>1. /\ pc = "read" /\ Exists(a) /\ latest' = obs
      /\ UNCHANGED <<acm, secret, cr, desired>>
      /\ pc' = IF newResourceDelta(desired, obs) = {} THEN "lateInit" ELSE "update"
      /\ ~desired.spec.exportTo => serialOf(obs) \subseteq forgone'.skipped
  <2>1. forgone \in Forgone
    BY DEF TypeOK
  <2>2. ReadFound
    OBVIOUS
  <2> QED
    BY <2>1, <2>2 DEF ReadFound, Goto, Forgone
<1>2. a \in ARNs /\ c \in ACMCertificate /\ c.state # "NONE"
  BY <1>1, ReadType DEF Exists
<1>3. obs.status = observedStatus(a, c)
  BY <1>2, ReadOneType
<1>4. /\ obs.status.arn = a /\ obs.status.serial = c.serial /\ obs.status.issued = c.issued
      /\ obs.status.type = c.type /\ obs.status.status = c.state
  BY <1>3 DEF observedStatus
<1> HIDE DEF obs
<1>5. c.serial \in 0..MaxSerial
  BY <1>2 DEF ACMCertificate
<1>6. /\ c.issued => c.serial # 0
      /\ c.type # "IMPORTED" /\ c.serial # 0 => c.issued
  BY <1>1, <1>2 DEF IssuesHaveSerials
<1>7. c.type = "IMPORTED" <=> cr.spec.certificate
  BY <1>1, <1>2 DEF KindsAgree
<1>8. Plausible(latest.status)'
  BY <1>1, <1>4, <1>6, <1>7 DEF Plausible
<1>9. ASSUME Settled'
      PROVE  Vouched(latest.status)'
  <2>0. PICK s \in Nat : s = c.serial
    BY <1>5, CertificateAssumption
  <2> SUFFICES ASSUME ~cr.spec.certificate, s # 0, desired.spec.exportTo
               PROVE  Claimed(s)'
    <3>1. ~desired.spec.exportTo /\ s # 0 => Claimed(s)'
      <4>1. ~desired.spec.exportTo => secret'.crt = 0
        BY <1>1 DEF ExportsWanted
      <4>2. s # 0 => s \in serialOf(obs)
        BY <1>4, <1>5, <2>0, CertificateAssumption DEF serialOf
      <4> QED
        BY <1>1, <4>1, <4>2 DEF Claimed
    <3> QED
      BY <1>1, <1>4, <2>0, <3>1 DEF Vouched
  <2>2. newResourceDelta(desired, obs) \cap {"Spec.Status.IssuedAt", "Spec.Status.Serial"} = {}
    BY <1>1, <1>9 DEF Settled, mustExport, delta
  <2>3. c.state = "ISSUED"
    BY <1>1, <1>2, <1>7, <2>0 DEF IssuesHaveSerials
  <2>4. /\ cr.status.issued
        /\ cr.status.serial # 0 => cr.status.serial = c.serial
    BY <1>1, <1>4, <2>0, <2>2, <2>3, NoExportDue DEF RecordSound
  <2>5. cr.status.serial = s
    BY <2>0, <2>4 DEF RecordSound, Plausible
  <2>6. ~WriteCertificate
    BY <1>1 DEF WriteCertificate
  <2> QED
    BY <2>5, <2>6, ClaimsKept DEF RecordSound, Vouched
<1>10. latest'.status.serial <= acm'[latest'.status.arn].serial
  BY <1>1, <1>4, <1>5, CertificateAssumption
<1> QED
  BY <1>1, <1>8, <1>9, <1>10 DEF LatestSound

\* Reading a certificate back that was just created: a serial it has by then
\* is recorded without an export, and nothing of it is in the secret.
LEMMA ReadBackSound ==
  ASSUME TypeOK, KindsAgree, IssuesHaveSerials, CreatedIsUnwritten, [Next]_vars, ReadBack
  PROVE  LatestSound'
<1> DEFINE a == latest.status.arn
           c == acm[a]
           obs == ReadOne(latest, c)
<1> USE RecordTypes
<1>1. /\ Exists(a) /\ pc' = "lateInit" /\ UNCHANGED <<acm, secret, cr>>
      /\ latest' = [latest EXCEPT !.status = obs.status, !.conds = obs.conds]
      /\ serialOf(obs) \subseteq forgone'.skipped
  <2>1. forgone \in Forgone
    BY DEF TypeOK
  <2>2. ReadBack
    OBVIOUS
  <2> QED
    BY <2>1, <2>2 DEF ReadBack, Goto, Forgone
<1>2. a \in ARNs /\ c \in ACMCertificate /\ c.state # "NONE"
  BY <1>1, ReadType DEF Exists
<1>3. obs.status = observedStatus(a, c)
  BY <1>2, ReadOneType
<1>4. obs.status.serial = c.serial /\ obs.status.issued = c.issued /\ obs.status.type = c.type
  BY <1>3 DEF observedStatus
<1> HIDE DEF obs
<1>5. latest'.status = obs.status
  BY <1>1 DEF Resource
<1>6. c.serial \in 0..MaxSerial
  BY <1>2 DEF ACMCertificate
<1>7. Plausible(latest.status)'
  BY <1>1, <1>2, <1>4, <1>5 DEF Plausible, IssuesHaveSerials, KindsAgree
<1>8. Vouched(latest.status)'
  <2>1. c.serial # 0 => c.serial \in forgone'.skipped
    BY <1>1, <1>4, <1>6, CertificateAssumption DEF serialOf
  <2>2. c.serial # 0 => secret'.crt # c.serial
    BY <1>1 DEF CreatedIsUnwritten, ReadBack
  <2> QED
    BY <1>4, <1>5, <2>1, <2>2 DEF Vouched, Claimed
<1> QED
  BY <1>1, <1>7, <1>8 DEF LatestSound

\* The export: what the pass writes is at least as new as what it observed,
\* so that after the second write the observed serial is in the secret.
LEMMA ExportSound ==
  ASSUME TypeOK, TypeOK', SecretInv, KeyFollows, ObservedType, LatestSound, [Next]_vars,
         ExportCertificate \/ WriteCertificate \/ WriteKey
  PROVE  LatestSound'
<1> USE RecordTypes, SerialTypes
<1>0. cr'.spec.certificate = cr.spec.certificate
  BY SpecStays
<1>1. CASE ExportCertificate
  <2>1. /\ pc = "update" /\ pc' = "writeCrt" /\ bundle' = acm[latest.status.arn].serial
        /\ UNCHANGED <<latest, cr>>
    BY <1>1 DEF ExportCertificate, ownARN
  <2> QED
    BY <2>1 DEF LatestSound, Plausible, Settled
<1>2. CASE WriteCertificate
  <2>1. pc = "writeCrt" /\ pc' = "writeKey" /\ UNCHANGED <<latest, bundle, cr>>
    BY <1>2 DEF WriteCertificate
  <2> QED
    BY <2>1 DEF LatestSound, Plausible, Settled
<1>3. CASE WriteKey
  <2> DEFINE m == mergeUpdated(desired, latest)
  <2>1. /\ pc = "writeKey" /\ pc' = "lateInit" /\ latest' = onSuccess(m) /\ UNCHANGED cr
        /\ secret'.crt = secret.crt /\ secret'.key = bundle
    BY <1>3 DEF WriteKey, TypeOK
  <2>2. m \in Resource /\ m.status.serial = latest.status.serial
        /\ m.status.issued = latest.status.issued
    BY MergeUpdatedType, MergeUpdatedFields
  <2> HIDE DEF m
  <2>3. latest'.status = m.status
    BY <2>1, <2>2, OnSuccessType
  <2>4. bundle = secret.crt /\ latest.status.serial <= bundle /\ ~cr.spec.certificate
    BY <2>1 DEF SecretInv, BundleInOrder, LatestSound, KeyFollows
  <2>5. Plausible(latest.status)'
    BY <2>1, <2>2, <2>3, <2>4 DEF Plausible, LatestSound
  <2>6. latest.status.serial \in Nat /\ bundle \in Nat
    OBVIOUS
  <2>7. secret'.crt >= latest.status.serial /\ secret'.key >= latest.status.serial
    BY <2>1, <2>4, <2>6
  <2>8. Vouched(latest.status)'
    BY <2>2, <2>3, <2>7 DEF Vouched, Claimed, Exported
  <2> QED
    BY <2>1, <2>5, <2>8 DEF LatestSound
<1> QED
  BY <1>1, <1>2, <1>3

\* A failed export gives up the serial it was about.
LEMMA ExportFailsSound ==
  ASSUME TypeOK, LatestSound, [Next]_vars, ExportFails
  PROVE  LatestSound'
<1>1. \E e \in Errors : FinishError(latest, e)
  BY FailedCalls
<1> USE RecordTypes
<1>2. pc' = "patchStatus" /\ latest'.status = latest.status
  BY <1>1, FinishErrorShape
<1>3. /\ pc \in {"update", "writeCrt", "writeKey"} /\ UNCHANGED cr
      /\ serialOf(latest) \subseteq forgone'.failed
  BY DEF ExportFails, TypeOK, Forgone
<1>4. latest.status.serial # 0 => latest.status.serial \in forgone'.failed
  BY <1>3, CertificateAssumption DEF serialOf
<1> QED
  BY <1>2, <1>3, <1>4 DEF LatestSound, Plausible, Vouched, Claimed

\* Creating hands on the recorded Status, with the new ARN if there is one.
LEMMA CreateSound ==
  ASSUME TypeOK, TypeOK', SecretInv, KeyFollows, RecordSound, [Next]_vars,
         CreateImport \/ CreateRequest
  PROVE  LatestSound'
<1> DEFINE r == [desired EXCEPT !.status.arn = arns + 1]
<1>0. pc # "idle" /\ desired \in Resource /\ cr.status \in CertificateStatus
  BY RecordTypes DEF CreateImport, CreateRequest
<1>1. PICK c, site : Created(c, site)
  BY DEF CreateImport, CreateRequest
<1>2. \/ pc' = "readBack" /\ latest' = onSuccess(r) /\ arns < MaxCerts
      \/ FinishError(desired, "recoverable")
  BY <1>1 DEF Created, Goto
<1>3. arns < MaxCerts => r \in Resource /\ r.status = [desired.status EXCEPT !.arn = arns + 1]
  BY <1>0, CertificateAssumption DEF Resource, CertificateStatus, TypeOK
<1> HIDE DEF r
<1>4. /\ pc' \in {"readBack", "patchStatus"}
      /\ latest'.status.serial = desired.status.serial
      /\ latest'.status.issued = desired.status.issued
      /\ latest'.status.type = desired.status.type
  <2>1. CASE FinishError(desired, "recoverable")
    BY <1>0, <2>1, FinishErrorShape
  <2>2. CASE pc' = "readBack" /\ latest' = onSuccess(r) /\ arns < MaxCerts
    <3>1. latest'.status = [desired.status EXCEPT !.arn = arns + 1]
      BY <1>3, <2>2, OnSuccessType
    <3> QED
      BY <1>0, <2>2, <3>1 DEF Resource, CertificateStatus
  <2> QED
    BY <1>2, <2>1, <2>2
<1> QED
  BY <1>0, <1>4, HandOn DEF RecordSound

\* Updating the Options of a requested certificate: the serial comes from the
\* observation, which called for no export.
LEMMA OptionsSound ==
  ASSUME TypeOK, TypeOK', SecretInv, KeyFollows, KindsAgree, ObservedType, LatestSound,
         [Next]_vars, UpdateCertificateOptions
  PROVE  LatestSound'
<1> DEFINE m == mergeUpdated(desired, latest)
<1>0. /\ pc = "afterTags" \/ (pc = "update" /\ ~mustExport)
      /\ Exists(latest.status.arn) /\ latest.status.type # "IMPORTED"
  BY DEF UpdateCertificateOptions, mustUpdateOptions, tagsDone, imported, ownARN
<1>1. Plausible(latest.status) /\ Vouched(latest.status) /\ latest.status \in CertificateStatus
      /\ desired \in Resource /\ latest \in Resource
  BY <1>0, RecordTypes DEF LatestSound, Settled
<1>2. (pc' = "lateInit" /\ latest' = onSuccess(m)) \/ FinishError(latest, "recoverable")
  BY DEF UpdateCertificateOptions, Goto
<1>3. m \in Resource /\ m.status.serial = latest.status.serial
      /\ m.status.issued = latest.status.issued
  BY <1>1, MergeUpdatedType, MergeUpdatedFields
<1> HIDE DEF m
<1>4. CASE FinishError(latest, "recoverable")
  <2>1. pc' = "patchStatus" /\ latest'.status = latest.status
    BY <1>1, <1>4, FinishErrorShape
  <2> QED
    BY <1>1, <2>1, HandOn
<1>5. CASE pc' = "lateInit" /\ latest' = onSuccess(m)
  <2>1. ~cr.spec.certificate
    BY <1>0 DEF ObservedType, KindsAgree, Exists
  <2>2. latest'.status = m.status /\ m.status \in CertificateStatus
    BY <1>3, <1>5, OnSuccessType DEF Resource
  <2>3. Plausible(m.status) /\ Vouched(m.status)
    BY <1>1, <1>3, <2>1 DEF Plausible, Vouched
  <2> QED
    BY <1>5, <2>2, <2>3, HandOn
<1> QED
  BY <1>2, <1>4, <1>5

\* What is observed stays sound in a live pass, whatever its step.
LEMMA LiveSound ==
  ASSUME IInv, TypeOK', PassInv, SecretInv, RecordInv, Young, [Next]_vars, LivePass
  PROVE  LatestSound'
<1>0. /\ TypeOK /\ KindsAgree /\ IssuesHaveSerials /\ KeyFollows /\ RecordSound /\ LatestSound
      /\ ObservedType /\ ExportsWanted /\ CreatedIsUnwritten
      /\ desired \in Resource /\ latest \in Resource /\ latest.status \in CertificateStatus
      /\ cr.status \in CertificateStatus
  BY RecordTypes DEF IInv, RecordInv, PassInv
<1>1. CASE ReadNotFound \/ MarkManaged \/ MarkManagedFails
  <2>1. pc' \in {"idle", "create", "manage"}
    BY <1>1 DEF ReadNotFound, MarkManaged, MarkManagedFails, Goto, Idle
  <2> QED
    BY <2>1 DEF LatestSound, Settled
<1>2. CASE ReadFault \/ CreateRejected \/ CreateFails \/ UpdateReturnsDesired
  <2>1. pc # "idle"
    BY <1>2 DEF ReadFault, CreateRejected, CreateFails, UpdateReturnsDesired, tagsDone
  <2>2. \/ \E e \in Errors : FinishError(desired, e)
        \/ pc' = "lateInit" /\ latest' = onSuccess(desired)
    BY <1>2, FailedCalls DEF CreateRejected, UpdateReturnsDesired, Goto
  <2>3. pc' \in {"patchStatus", "lateInit"} /\ latest'.status = desired.status
    BY <1>0, <2>2, FinishErrorShape, OnSuccessType
  <2> QED
    BY <1>0, <2>1, <2>3, HandOn DEF RecordSound
<1>3. CASE SyncTagsFails \/ UpdateRefusesImported \/ UpdateCertificateOptionsFails
  <2>1. Settled
    BY <1>3 DEF SyncTagsFails, UpdateRefusesImported, UpdateCertificateOptionsFails, tagsDone,
                mustUpdateOptions, Settled
  <2>2. \E e \in Errors : FinishError(latest, e)
    BY <1>3, FailedCalls DEF UpdateRefusesImported
  <2>3. pc' = "patchStatus" /\ latest'.status = latest.status
    BY <1>0, <2>2, FinishErrorShape
  <2> QED
    BY <1>0, <2>1, <2>3, HandOn DEF LatestSound
<1>4. CASE SyncTags \/ ReadBackFails \/ LateInitialize \/ LateInitializeFails
  <2>1. Settled
    BY <1>4 DEF SyncTags, ReadBackFails, LateInitialize, LateInitializeFails, Settled
  <2>2. pc' \in {"afterTags", "patchStatus"}
    BY <1>4 DEF SyncTags, ReadBackFails, LateInitialize, LateInitializeFails, Goto, Finish
  <2>3. latest'.status = latest.status
    <3>1. CASE SyncTags \/ ReadBackFails
      BY <3>1 DEF SyncTags, ReadBackFails, Goto, Finish
    <3>2. CASE LateInitializeFails
      BY <1>0, <3>2 DEF LateInitializeFails, Finish, Resource
    <3>3. CASE LateInitialize
      <4> DEFINE li == lateInitializeFromReadOneOutput(
                         ReadOne(latest, acm[latest.status.arn]), latest)
      <4>1. \E e, lc, sc : Finish([li EXCEPT !.conds.lateInit = lc, !.conds.synced = sc], e)
        BY <3>3 DEF LateInitialize
      <4>2. li \in Resource /\ li.status = latest.status
        BY <1>0, <3>3, ReadType, LateInitializeType DEF LateInitialize
      <4> HIDE DEF li
      <4> QED
        BY <4>1, <4>2 DEF Finish, Resource
    <3> QED
      BY <1>4, <3>1, <3>2, <3>3
  <2> QED
    BY <1>0, <2>1, <2>2, <2>3, HandOn DEF LatestSound
<1>5. CASE ReadFound
  BY <1>0, <1>5, ReadFoundSound
<1>6. CASE ReadBack
  BY <1>0, <1>6, ReadBackSound
<1>7. CASE CreateImport \/ CreateRequest
  BY <1>0, <1>7, CreateSound
<1>8. CASE ExportCertificate \/ WriteCertificate \/ WriteKey
  BY <1>0, <1>8, ExportSound
<1>9. CASE ExportFails
  BY <1>0, <1>9, ExportFailsSound
<1>10. CASE UpdateCertificateOptions
  BY <1>0, <1>10, OptionsSound
<1> QED
  BY <1>1, <1>2, <1>3, <1>4, <1>5, <1>6, <1>7, <1>8, <1>9, <1>10 DEF LivePass

\* ACM moves on under a pass: serials only rise.
LEMMA ObservedSound ==
  ASSUME TypeOK, TypeOK', SecretInv, KeyFollows, PassFollowsResource, ObservedType,
         LatestSound, [Next]_vars, UNCHANGED pass
  PROVE  LatestSound'
<1> USE RecordTypes, SerialTypes
<1>1. UNCHANGED <<pc, desired, latest, bundle>>
  BY DEF pass
<1>2. mustExport' = mustExport
  BY <1>1 DEF mustExport, delta
<1>3. Settled' = Settled
  BY <1>1, <1>2 DEF Settled
<1>4. cr'.spec.certificate = cr.spec.certificate
  BY SpecStays
<1>5. PICK s \in Nat : s = latest.status.serial
  OBVIOUS
<1>6. Settled => Vouched(latest.status)'
  <2>1. ~WriteCertificate
    BY <1>1 DEF WriteCertificate
  <2>2. Claimed(s) => Claimed(s)'
    BY <2>1, ClaimsKept
  <2> QED
    BY <1>1, <1>4, <1>5, <2>2 DEF LatestSound, Vouched
<1>7. Settled \/ pc \in {"update", "writeCrt", "writeKey"} => Plausible(latest.status)'
  BY <1>1, <1>4 DEF LatestSound, Plausible
<1>8. ASSUME pc = "update"
      PROVE  latest.status.serial <= acm'[latest.status.arn].serial
  <2>1. acm[latest.status.arn].serial <= acm'[latest.status.arn].serial
    <3>1. latest.status.arn \in ARNs /\ acm[latest.status.arn].serial <= serials
      BY <1>8 DEF ObservedType, SecretInv, SerialsInOrder
    <3> QED
      BY <3>1, EnvironmentSerials
  <2>2. latest.status.arn \in ARNs /\ latest.status.serial <= acm[latest.status.arn].serial
    BY <1>8 DEF ObservedType, LatestSound
  <2>3. /\ latest.status.serial \in Nat /\ acm[latest.status.arn].serial \in Nat
        /\ acm'[latest.status.arn].serial \in Nat
    <3>1. acm'[latest.status.arn] \in ACMCertificate
      BY <2>2 DEF TypeOK
    <3> QED
      BY <2>2, <3>1, CertificateAssumption DEF ACMCertificate
  <2> QED
    BY <2>1, <2>2, <2>3
<1> QED
  BY <1>1, <1>3, <1>6, <1>7, <1>8 DEF LatestSound

-----------------------------------------------------------------------------
(* The theorems.                                                           *)

\* A pass that saw no exportTo exports nothing, and exportTo stays.
LEMMA ExportsWantedStep ==
  ASSUME TypeOK, ExportsWanted, [Next]_vars
  PROVE  ExportsWanted'
<1>0. cr.spec.exportTo \in BOOLEAN /\ desired.spec.exportTo \in BOOLEAN
  BY DEF TypeOK, CustomResource, Resource, CertificateSpec
<1>1. cr.spec.exportTo => cr'.spec.exportTo
  BY SpecStays
<1>2. UNCHANGED secret \/ (pc \in {"writeCrt", "writeKey"} /\ desired.spec.exportTo)
  BY RecordFlow DEF WriteCertificate, WriteKey, ExportsWanted
<1>3. ~cr'.spec.exportTo => secret'.crt = 0
  <2>1. pc \in {"writeCrt", "writeKey"} /\ desired.spec.exportTo => cr.spec.exportTo
    BY DEF ExportsWanted
  <2> QED
    BY <1>1, <1>2, <2>1 DEF ExportsWanted
<1>4. CASE Begin
  <2>1. /\ desired'.spec = cr.spec /\ UNCHANGED cr /\ UNCHANGED secret
        /\ pc' \notin {"writeCrt", "writeKey"}
    BY <1>4 DEF Begin
  <2> QED
    BY <1>1, <1>3, <2>1 DEF ExportsWanted
<1>5. CASE ~Begin
  <2> SUFFICES ASSUME pc' # "idle"
               PROVE  /\ ~desired.spec.exportTo
                           => secret'.crt = 0 /\ pc' \notin {"writeCrt", "writeKey"}
                      /\ desired.spec.exportTo => cr'.spec.exportTo
                      /\ UNCHANGED desired
    BY <1>3 DEF ExportsWanted
  <2>1. pc # "idle" /\ UNCHANGED desired
    BY <1>5, PCFlow
  <2>2. ASSUME ~desired.spec.exportTo
        PROVE  secret'.crt = 0 /\ pc' \notin {"writeCrt", "writeKey"}
    <3>1. secret.crt = 0 /\ pc \notin {"writeCrt", "writeKey"}
      BY <2>1, <2>2 DEF ExportsWanted
    <3>2. ~ExportCertificate
      BY <2>2, ExportDue DEF ExportCertificate, mustExport, delta
    <3> QED
      BY <1>2, <2>2, <3>1, <3>2, RecordFlow DEF WriteCertificate
  <2> QED
    BY <1>1, <2>1, <2>2 DEF ExportsWanted
<1> QED
  BY <1>4, <1>5

\* What is created has no serial, or a new one; so has what ACM issues.
LEMMA CreatedStep ==
  ASSUME TypeOK, TypeOK', SecretInv, CreatedIsUnwritten, [Next]_vars
  PROVE  CreatedIsUnwritten'
<1> USE SerialTypes DEF CreatedIsUnwritten
<1>1. secret.crt < serials + 1
  BY DEF SecretInv, SerialsInOrder
<1> SUFFICES ASSUME pc' = "readBack", Exists(latest.status.arn)',
                    acm'[latest'.status.arn].serial # 0
             PROVE  secret'.crt # acm'[latest'.status.arn].serial
  OBVIOUS
<1>2. CASE CreateImport \/ CreateRequest
  <2> DEFINE r == [desired EXCEPT !.status.arn = arns + 1]
  <2>1. PICK c, site : Created(c, site) /\ c.serial \in {0, serials + 1} /\ UNCHANGED secret
    BY <1>2 DEF CreateImport, CreateRequest, importedCertificate, requestedCertificate
  <2>2. /\ latest' = onSuccess(r) /\ arns < MaxCerts
        /\ acm' = [acm EXCEPT ![arns + 1] = c]
    BY <2>1 DEF Created, Goto, FinishError, Finish
  <2>3. r \in Resource /\ r.status.arn = arns + 1 /\ arns + 1 \in ARNs
    <3>1. arns + 1 \in ARNs /\ arns + 1 \in 0..MaxCerts
      BY <2>2, CertificateAssumption DEF TypeOK, ARNs
    <3>2. desired \in Resource
      BY DEF TypeOK
    <3> QED
      BY <3>1, <3>2 DEF Resource, CertificateStatus
  <2> HIDE DEF r
  <2>4. latest'.status.arn = arns + 1
    BY <2>2, <2>3, OnSuccessType
  <2>5. acm'[latest'.status.arn] = c
    BY <2>2, <2>3, <2>4 DEF TypeOK
  <2> QED
    BY <1>1, <2>1, <2>5
<1>3. CASE UNCHANGED pass
  <2>1. latest.status.arn \in ARNs /\ UNCHANGED <<pc, latest>>
    BY <1>3 DEF pass, Exists
  <2> QED
    BY <1>1, <1>3, <2>1, EnvironmentSerials DEF Exists
<1> QED
  BY <1>2, <1>3, PCFlow

\* An export is called for by a serial that is not the recorded one, and ACM
\* only gives out new ones until it is made.
LEMMA ExportNewsStep ==
  ASSUME TypeOK, TypeOK', SecretInv, SerialsKnown, KindsAgree, ObservedType, RecordSound,
         ExportIsNews, cr'.status = cr.status, [Next]_vars
  PROVE  ExportIsNews'
<1> USE SerialTypes, RecordTypes
<1>0. cr'.spec.certificate = cr.spec.certificate
  BY SpecStays
<1> SUFFICES ASSUME ~cr.spec.certificate
             PROVE  /\ pc' = "update" /\ mustExport'
                         => \/ cr.status.serial = 0
                            \/ cr.status.serial # acm'[latest'.status.arn].serial
                    /\ pc' = "writeCrt" => cr.status.serial # bundle'
  BY <1>0 DEF ExportIsNews
<1>1. ASSUME pc' = "update", mustExport', cr.status.serial # 0
      PROVE  cr.status.serial # acm'[latest'.status.arn].serial
  <2>1. CASE ReadFound
    <3> DEFINE a == desired.status.arn
    <3>1. /\ pc = "read" /\ Exists(a) /\ latest' = ReadOne(desired, acm[a])
          /\ UNCHANGED <<acm, desired>>
      BY <2>1 DEF ReadFound, Goto
    <3>2. a \in ARNs /\ acm[a] \in ACMCertificate /\ desired.status = cr.status
      BY <3>1, ReadType DEF RecordSound
    <3>3. latest'.status = observedStatus(a, acm[a])
      BY <3>1, <3>2, ReadOneType DEF Exists
    <3>4. latest'.status.serial = acm[a].serial /\ latest'.status.arn = a
      BY <3>3 DEF observedStatus
    <3>5. cr.status.issued
      BY <1>1 DEF RecordSound, Plausible
    <3>6. newResourceDelta(desired, latest')
            \cap {"Spec.Status.IssuedAt", "Spec.Status.Serial"} # {}
      BY <1>1, <3>1 DEF mustExport, delta
    <3> QED
      BY <3>1, <3>2, <3>4, <3>5, <3>6, ExportDue
  <2>2. CASE UNCHANGED pass
    <3>1. UNCHANGED <<pc, desired, latest>> /\ mustExport
      BY <1>1, <2>2 DEF pass, mustExport, delta
    <3>2. latest.status.arn \in ARNs /\ pc = "update"
      BY <1>1, <3>1 DEF ObservedType
    <3>3. cr.status.serial # acm[latest.status.arn].serial /\ cr.status.serial < serials + 1
      BY <1>1, <3>1, <3>2 DEF ExportIsNews, SerialsKnown
    <3> QED
      BY <2>2, <3>1, <3>2, <3>3, EnvironmentSerials
  <2>3. ~SyncTags
    BY <1>1 DEF SyncTags, Goto
  <2> QED
    BY <1>1, <2>1, <2>2, <2>3, PCFlow
<1>2. ASSUME pc' = "writeCrt"
      PROVE  cr.status.serial # bundle'
  <2>1. CASE ExportCertificate
    <3>1. /\ pc = "update" /\ mustExport /\ bundle' = acm[latest.status.arn].serial
          /\ acm[latest.status.arn].state = "ISSUED"
      BY <2>1 DEF ExportCertificate, exportable, ownARN
    <3>2. acm[latest.status.arn].serial # 0
      BY <3>1 DEF ObservedType, SecretInv, SerialsInOrder
    <3> QED
      BY <3>1, <3>2 DEF ExportIsNews
  <2>2. CASE UNCHANGED <<pc, bundle>>
    BY <1>2, <2>2 DEF ExportIsNews
  <2>3. ~WriteCertificate
    BY <1>2 DEF WriteCertificate
  <2> QED
    BY <1>2, <2>1, <2>2, <2>3, RecordFlow
<1> QED
  BY <1>1, <1>2

\* Every step keeps the recorded and the observed Status sound.
LEMMA SoundStep ==
  ASSUME IInv, TypeOK', PassInv, SecretInv, RecordInv, [Next]_vars, Young'
  PROVE  RecordSound' /\ LatestSound' /\ ExportIsNews'
<1> USE RecordTypes
<1>0. /\ TypeOK /\ KeyFollows /\ RecordSound /\ LatestSound /\ DeletesOnlyDeleted /\ Young
      /\ PassFollowsResource /\ ObservedType /\ ExportIsNews /\ SerialsKnown /\ KindsAgree
      /\ cr'.status \in {cr.status, latest.status}
      /\ cr'.status # cr.status => PatchStatus /\ pc = "patchStatus" /\ pc' = "idle"
  BY YoungStays DEF IInv, Accounting, RecordInv, PassInv, PatchStatus, Idle
<1>1. CASE LivePass
  <2>1. cr'.status = cr.status
    <3>1. pc # "patchStatus"
      BY <1>0, <1>1, LiveShape DEF LivePCs
    <3> QED
      BY <1>0, <3>1
  <2>2. pc' # "idle" => desired'.status = cr.status
    <3>1. pc # "idle" /\ ~Begin
      BY <1>0, <1>1, LiveShape DEF LivePCs, Begin
    <3> QED
      BY <1>0, <3>1, PCFlow DEF RecordSound
  <2> QED
    BY <1>0, <1>1, <2>1, <2>2, RecordStays, LiveSound, ExportNewsStep
<1>2. CASE Begin
  <2>1. cr' = cr /\ desired'.status = cr.status /\ pc' \in {"read", "delRead"}
    BY <1>2 DEF Begin
  <2>2. RecordSound'
    BY <1>0, <2>1, RecordStays
  <2> QED
    BY <2>1, <2>2 DEF LatestSound, Settled, ExportIsNews
<1>3. CASE DeletePass
  BY <1>0, <1>3, DeleteShape DEF DeletesOnlyDeleted
<1>4. CASE PatchStatus \/ PatchStatusFails \/ Crash
  <2>1. pc' = "idle"
    BY <1>4 DEF PatchStatus, PatchStatusFails, Crash, Idle
  <2>2. LatestSound' /\ ExportIsNews'
    BY <2>1 DEF LatestSound, Settled, ExportIsNews
  <2>3. CASE cr'.status = cr.status
    BY <1>0, <2>1, <2>2, <2>3, RecordStays
  <2>4. CASE cr'.status # cr.status
    <3>1. Plausible(latest.status) /\ Vouched(latest.status) /\ cr'.status = latest.status
      BY <1>0, <2>4 DEF LatestSound, Settled
    <3>2. cr'.spec.certificate = cr.spec.certificate
      BY <1>0, ClaimsKept
    <3>3. PICK s \in Nat : s = latest.status.serial
      BY <1>0, RecordTypes
    <3>4. Claimed(s) => Claimed(s)'
      BY <1>0, <2>4, ClaimsKept DEF WriteCertificate
    <3>5. Vouched(cr.status)' /\ Plausible(cr.status)'
      BY <3>1, <3>2, <3>3, <3>4 DEF Vouched, Plausible
    <3> QED
      BY <2>1, <2>2, <3>5 DEF RecordSound
  <2> QED
    BY <2>3, <2>4
<1>5. CASE UNCHANGED pass
  <2>1. UNCHANGED <<pc, desired>>
    BY <1>5 DEF pass
  <2>2. LatestSound'
    BY <1>0, <1>5, ObservedSound
  <2>3. cr'.status = cr.status
    BY <1>0, <2>1
  <2> QED
    BY <1>0, <2>1, <2>2, <2>3, RecordStays, ExportNewsStep DEF RecordSound
<1>6. \/ LivePass \/ Begin \/ DeletePass \/ PatchStatus \/ PatchStatusFails \/ Crash
      \/ UNCHANGED pass
  BY DEF Next, Controller, Environment, UserCreates, UserEdits, UserDeletes,
         UserRotatesMaterial, ACMIssues, ACMEnds, ExternalDelete, vars, pass
<1> QED
  BY <1>1, <1>2, <1>3, <1>4, <1>5, <1>6

\* The Status vouches for the secret at every point of every pass.
THEOREM RecordInvariance == Spec => []RecordInv
<1>1. Init => RecordInv
  BY CertificateAssumption
  DEF Init, RecordInv, KindsAgree, IssuesHaveSerials, KeyFollows, DeletesOnlyDeleted,
      RecordSound, LatestSound, Settled, Plausible, Vouched, Exists, NoCertificate, NoStatus,
      SerialsKnown, ExportsWanted, CreatedIsUnwritten, ExportIsNews, NoResource
<1>2. IInv /\ IInv' /\ PassInv /\ SecretInv /\ RecordInv /\ [Next]_vars => RecordInv'
  <2> SUFFICES ASSUME IInv, IInv', PassInv, SecretInv, RecordInv, [Next]_vars
               PROVE  RecordInv'
    OBVIOUS
  <2>1. TypeOK /\ TypeOK' /\ FreshARNs /\ KindsAgree /\ IssuesHaveSerials /\ KeyFollows
        /\ DeletesOnlyDeleted /\ SerialsKnown /\ ExportsWanted /\ CreatedIsUnwritten
    BY DEF IInv, PassInv, RecordInv
  <2> QED
    BY <2>1, KindsStep, IssuesStep, KeyStep, DeletesStep, SerialsKnownStep, ExportsWantedStep,
       CreatedStep, SoundStep DEF RecordInv
<1> QED
  BY <1>1, <1>2, Invariance, PassInvariance, SecretInvariance, PTL DEF Spec

\* Whatever the passes went through (a restart between the two writes of the
\* secret or before the status patch, a renewal behind an observation, a
\* failed patch), the serial number in the Status of a live resource is in the
\* secret, unless its export failed or it was recorded without an attempt to
\* export it (exportCertificate, compareCertificateIssuedAt).
THEOREM RecordedWasExported == Spec => []RecordedIsExported
<1>1. IInv /\ RecordInv => RecordedIsExported
  BY DEF RecordInv, RecordSound, Young, Vouched, Claimed, Plausible, RecordedIsExported, recorded
<1> QED
  BY <1>1, Invariance, RecordInvariance, PTL

\* A secret whose key is not that of its certificate is one the Status does
\* not call current, unless its export failed: the key is the older half, so
\* the pair is not all there, and a certificate whose export was never tried
\* is not in the secret at all (exportCertificate, its two WriteToSecret).
THEOREM TornSecretNotRecorded == Spec => []TornSecretIsNotRecorded
<1>1. IInv /\ RecordInv => TornSecretIsNotRecorded
  <2> SUFFICES ASSUME IInv, RecordInv PROVE TornSecretIsNotRecorded
    OBVIOUS
  <2>1. TypeOK /\ secret.crt \in Nat /\ secret.key \in Nat
    BY SerialTypes DEF IInv
  <2>2. secret.key <= secret.crt /\ (cr.spec.certificate => secret.crt = 0)
    BY DEF RecordInv, KeyFollows
  <2> SUFFICES ASSUME cr.phase = "live", secret.key # secret.crt, recorded = secret.crt,
                      recorded \notin forgone.failed
               PROVE  FALSE
    BY <2>2 DEF TornSecretIsNotRecorded
  <2>3. secret.key < recorded /\ recorded # 0 /\ ~cr.spec.certificate
    BY <2>1, <2>2
  <2>4. Claimed(recorded)
    BY <2>3 DEF RecordInv, RecordSound, Young, Vouched, recorded
  <2> QED
    BY <2>1, <2>3, <2>4 DEF Claimed, Exported, recorded
<1> QED
  BY <1>1, Invariance, RecordInvariance, PTL
=============================================================================
