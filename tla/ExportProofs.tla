----------------------------- MODULE ExportProofs -----------------------------
(***************************************************************************)
(* Reconciler implements ExportSpec, for all values of the constants: the  *)
(* certificate in the secret never goes back, and a key is only put beside *)
(* its own certificate.                                                    *)
(*                                                                         *)
(* The point is that a pass writes what it exported some steps ago.  Only  *)
(* because ARNs are accounted for (ReconcilerProofs) can no certificate    *)
(* older than the secret's be the one the resource comes to record.        *)
(***************************************************************************)
EXTENDS ReconcilerProofs

USE DEF Errors, Failures

\* The certificates the resource or the pass knows.
Known == {a \in ARNs : Exists(a) /\ a \in {cr.status.arn, latest.status.arn}}

\* ACM numbers what it issues in order.
SerialsInOrder ==
  /\ secret.crt <= serials
  /\ \A a \in ARNs : acm[a].serial <= serials /\ (acm[a].state = "ISSUED" => acm[a].serial # 0)

\* What may be exported next is no older than what was.
SecretIsOldest ==
  \A a \in Known : acm[a].serial # 0 => secret.crt <= acm[a].serial

\* The pair in the hands of the pass is no older than the secret, and no newer
\* than the certificate it came from.
BundleInOrder ==
  /\ pc = "writeCrt" => /\ bundle \in 1..serials
                        /\ secret.crt <= bundle
                        /\ Exists(cr.status.arn) => bundle <= acm[cr.status.arn].serial
  /\ pc = "writeKey" => bundle # 0 /\ bundle = secret.crt

SecretInv == SerialsInOrder /\ SecretIsOldest /\ BundleInOrder

\* A step that issues nothing, exports nothing, and learns of no certificate.
Quiet ==
  /\ UNCHANGED <<serials, secret>>
  /\ \A a \in ARNs : /\ acm'[a].serial = acm[a].serial
                     /\ acm'[a].state # "NONE" => acm[a].state # "NONE"
                     /\ acm'[a].state = "ISSUED" => acm[a].state = "ISSUED"
  /\ cr'.status.arn \in {0, cr.status.arn, latest.status.arn}
  /\ latest'.status.arn \in {0, cr.status.arn, latest.status.arn}
  /\ \/ pc' \notin {"writeCrt", "writeKey"}
     \/ UNCHANGED <<pc, bundle>> /\ cr'.status.arn \in {0, cr.status.arn}

\* The numbers are numbers.
LEMMA SerialTypes ==
  ASSUME TypeOK
  PROVE  /\ serials \in Nat /\ secret.crt \in Nat /\ secret.key \in Nat /\ bundle \in Nat
         /\ \A a \in ARNs : acm[a].serial \in Nat
         /\ cr.status.arn \in ARNs \cup {0} /\ latest.status.arn \in ARNs \cup {0}
  BY CertificateAssumption
  DEF TypeOK, ACMCertificate, CustomResource, Resource, CertificateStatus, ARNs

\* Such a step keeps the invariant.
LEMMA QuietKeeps ==
  ASSUME TypeOK, TypeOK', SecretInv, Quiet
  PROVE  SecretInv'
<1> USE SerialTypes DEF SecretInv
<1>1. SerialsInOrder'
  BY DEF SerialsInOrder, Quiet
<1>2. SecretIsOldest'
  BY DEF SecretIsOldest, Known, Exists, Quiet
<1>3. BundleInOrder'
  BY DEF BundleInOrder, Exists, Quiet
<1> QED
  BY <1>1, <1>2, <1>3

-----------------------------------------------------------------------------
(* Most steps are quiet.                                                   *)

\* Reading, and creating nothing.
LEMMA QuietRead ==
  ASSUME TypeOK, Accounting,
         \/ ReadNotFound \/ ReadFound \/ ReadFault \/ MarkManaged \/ MarkManagedFails
         \/ CreateRejected \/ CreateFails \/ ReadBack \/ ReadBackFails
  PROVE  Quiet
<1> USE DEF Accounting, PassFollowsResource, Quiet
<1>0. desired \in Resource /\ latest \in Resource
  BY DEF TypeOK
<1>1. CASE ReadNotFound
  BY <1>1 DEF ReadNotFound, Goto
<1>2. CASE ReadFound
  <2>1. pc' \in {"lateInit", "update"} /\ latest'.status.arn = desired.status.arn
    BY <1>0, <1>2, ReadType DEF ReadFound, Goto
  <2> QED
    BY <1>2, <2>1 DEF ReadFound
<1>3. CASE ReadFault
  <2>1. pc' = "patchStatus" /\ latest'.status.arn = desired.status.arn
    BY <1>0, <1>3, FinishErrorARN DEF ReadFault
  <2> QED
    BY <1>3, <2>1 DEF ReadFault
<1>4. CASE MarkManaged
  BY <1>4 DEF MarkManaged, Goto, TypeOK, CustomResource
<1>5. CASE MarkManagedFails
  <2>1. pc' = "idle" /\ latest'.status.arn = 0
    BY <1>5, IdleType DEF MarkManagedFails
  <2> QED
    BY <1>5, <2>1 DEF MarkManagedFails
<1>6. CASE CreateRejected
  <2>1. pc' = "patchStatus" /\ latest'.status.arn = desired.status.arn
    BY <1>0, <1>6, FinishErrorARN DEF CreateRejected
  <2> QED
    BY <1>6, <2>1 DEF CreateRejected
<1>7. CASE CreateFails
  <2>1. \E e \in Errors : FinishError(desired, e)
    BY <1>7 DEF CreateFails
  <2>2. pc' = "patchStatus" /\ latest'.status.arn = desired.status.arn
    BY <1>0, <2>1, FinishErrorARN
  <2>3. pc = "create" /\ UNCHANGED <<cr, acm, serials, secret>>
    BY <1>7 DEF CreateFails
  <2> QED
    BY <2>2, <2>3
<1>8. CASE ReadBack
  <2> DEFINE obs == ReadOne(latest, acm[latest.status.arn])
  <2>1. obs.status.arn = latest.status.arn
    BY <1>0, <1>8, ReadType DEF ReadBack
  <2>2. Goto("lateInit", [latest EXCEPT !.status = obs.status, !.conds = obs.conds])
    BY <1>8 DEF ReadBack
  <2>3. pc' = "lateInit" /\ latest'.status.arn = latest.status.arn
    <3> HIDE DEF obs
    <3> QED
      BY <1>0, <2>1, <2>2 DEF Goto, Resource
  <2> QED
    BY <1>8, <2>3 DEF ReadBack
<1>9. CASE ReadBackFails
  BY <1>9 DEF ReadBackFails, Finish
<1> QED
  BY <1>1, <1>2, <1>3, <1>4, <1>5, <1>6, <1>7, <1>8, <1>9

\* Updates that export nothing, and late initialization.
LEMMA QuietUpdate ==
  ASSUME TypeOK, Accounting,
         \/ ExportFails \/ SyncTags \/ SyncTagsFails \/ UpdateReturnsDesired
         \/ UpdateRefusesImported \/ UpdateCertificateOptions
         \/ UpdateCertificateOptionsFails \/ LateInitialize \/ LateInitializeFails
  PROVE  Quiet
<1> USE DEF Accounting, PassFollowsResource, Quiet
<1>0. desired \in Resource /\ latest \in Resource
  BY DEF TypeOK
<1>1. CASE ExportFails
  <2>1. \E e \in Errors : FinishError(latest, e)
    BY <1>1 DEF ExportFails
  <2>2. pc' = "patchStatus" /\ latest'.status.arn = latest.status.arn
    BY <1>0, <2>1, FinishErrorARN
  <2>3. UNCHANGED <<cr, acm, serials, secret>>
    BY <1>1 DEF ExportFails
  <2> QED
    BY <2>2, <2>3
<1>2. CASE SyncTags
  <2>1. \A a \in ARNs : acm'[a].state = acm[a].state /\ acm'[a].serial = acm[a].serial
    BY <1>2 DEF TypeOK, ACMCertificate, SyncTags
  <2> QED
    BY <1>2, <2>1 DEF SyncTags, Goto
<1>3. CASE SyncTagsFails
  <2>1. \A a \in ARNs : acm'[a].state = acm[a].state /\ acm'[a].serial = acm[a].serial
    BY <1>3 DEF TypeOK, ACMCertificate, SyncTagsFails
  <2>2. \E e \in Errors : FinishError(latest, e)
    BY <1>3 DEF SyncTagsFails
  <2>3. pc' = "patchStatus" /\ latest'.status.arn = latest.status.arn
    BY <1>0, <2>2, FinishErrorARN
  <2>4. UNCHANGED <<cr, serials, secret>>
    BY <1>3 DEF SyncTagsFails
  <2> QED
    BY <2>1, <2>3, <2>4
<1>4. CASE UpdateReturnsDesired
  <2>1. pc' = "lateInit" /\ latest'.status.arn = desired.status.arn
    BY <1>0, <1>4, OnSuccessType DEF UpdateReturnsDesired, Goto
  <2>2. pc # "idle" /\ UNCHANGED <<cr, acm, serials, secret>>
    BY <1>4 DEF UpdateReturnsDesired, tagsDone
  <2> QED
    BY <2>1, <2>2
<1>5. CASE UpdateRefusesImported
  <2>1. pc' = "patchStatus" /\ latest'.status.arn = latest.status.arn
    BY <1>0, <1>5, FinishErrorARN DEF UpdateRefusesImported
  <2> QED
    BY <1>5, <2>1 DEF UpdateRefusesImported
<1>6. CASE UpdateCertificateOptions
  <2>1. \A a \in ARNs : acm'[a].state = acm[a].state /\ acm'[a].serial = acm[a].serial
    BY <1>6 DEF TypeOK, ACMCertificate, UpdateCertificateOptions, newOptions
  <2>2. pc # "idle" /\ UNCHANGED <<cr, serials, secret>>
    BY <1>6 DEF UpdateCertificateOptions, mustUpdateOptions, tagsDone
  <2>3. \/ Goto("lateInit", onSuccess(mergeUpdated(desired, latest)))
        \/ FinishError(latest, "recoverable")
    BY <1>6 DEF UpdateCertificateOptions
  <2>4. mergeUpdated(desired, latest) \in Resource
        /\ mergeUpdated(desired, latest).status.arn = desired.status.arn
    BY <1>0, MergeUpdatedType
  <2>5. /\ pc' \in {"lateInit", "patchStatus"}
        /\ latest'.status.arn \in {desired.status.arn, latest.status.arn}
    BY <1>0, <2>3, <2>4, OnSuccessType, FinishErrorARN DEF Goto
  <2> QED
    BY <2>1, <2>2, <2>5
<1>7. CASE UpdateCertificateOptionsFails
  <2>1. pc' = "patchStatus" /\ latest'.status.arn = latest.status.arn
    BY <1>0, <1>7, FinishErrorARN DEF UpdateCertificateOptionsFails
  <2> QED
    BY <1>7, <2>1 DEF UpdateCertificateOptionsFails
<1>8. CASE LateInitialize
  <2> DEFINE obs == ReadOne(latest, acm[latest.status.arn])
             li  == lateInitializeFromReadOneOutput(obs, latest)
  <2>1. li \in Resource /\ li.status = latest.status
    BY <1>0, <1>8, ReadType, LateInitializeType DEF LateInitialize
  <2>2. \E e, lc, sc : Finish([li EXCEPT !.conds.lateInit = lc, !.conds.synced = sc], e)
    BY <1>8 DEF LateInitialize
  <2>3. (\E sp : cr' = [cr EXCEPT !.spec = sp]) \/ UNCHANGED cr
    BY <1>8 DEF LateInitialize
  <2>4. cr'.status = cr.status
    BY <2>3 DEF TypeOK, CustomResource
  <2>5. pc' = "patchStatus" /\ latest'.status = latest.status
    <3> HIDE DEF li
    <3> QED
      BY <2>1, <2>2 DEF Finish, Resource
  <2>6. UNCHANGED <<acm, serials, secret>>
    BY <1>8 DEF LateInitialize
  <2> QED
    BY <2>4, <2>5, <2>6
<1>9. CASE LateInitializeFails
  <2>1. pc' = "patchStatus" /\ latest'.status = latest.status
    BY <1>0, <1>9 DEF LateInitializeFails, Finish, Resource
  <2> QED
    BY <1>9, <2>1 DEF LateInitializeFails
<1> QED
  BY <1>1, <1>2, <1>3, <1>4, <1>5, <1>6, <1>7, <1>8, <1>9

\* A pass begins or ends, and deletes.
LEMMA QuietEnds ==
  ASSUME TypeOK, Accounting, Begin \/ DeletePass \/ PatchStatus \/ PatchStatusFails
  PROVE  Quiet
<1> USE DEF Accounting, PassFollowsResource, Quiet
<1>0. desired \in Resource /\ latest \in Resource
  BY DEF TypeOK
<1>1. CASE Begin
  BY <1>1 DEF Begin
<1>2. CASE DeleteRead
  <2>1. CASE Exists(desired.status.arn)
    <3>1. pc' = "delete" /\ latest'.status.arn = desired.status.arn
      BY <1>0, <1>2, <2>1, ReadType DEF DeleteRead, Goto
    <3> QED
      BY <1>2, <3>1 DEF DeleteRead
  <2>2. CASE ~Exists(desired.status.arn)
    BY <1>2, <2>2 DEF DeleteRead, Goto
  <2> QED
    BY <2>1, <2>2
<1>3. CASE DeleteReadFault
  <2>1. pc' = "patchStatus" /\ latest'.status.arn = desired.status.arn
    BY <1>0, <1>3, FinishErrorARN DEF DeleteReadFault
  <2> QED
    BY <1>3, <2>1 DEF DeleteReadFault
<1>4. CASE DeleteCertificate
  <2>1. \A a \in ARNs : /\ acm'[a].serial = acm[a].serial
                        /\ acm'[a].state \in {"NONE", acm[a].state}
    BY <1>4 DEF TypeOK, ACMCertificate, DeleteCertificate
  <2>2. pc' \in {"unmanage", "patchStatus"} /\ latest'.status.arn = latest.status.arn
    BY <1>0, <1>4, FinishErrorARN DEF DeleteCertificate, Goto
  <2> QED
    BY <1>4, <2>1, <2>2 DEF DeleteCertificate
<1>5. CASE DeleteCertificateFails
  <2>1. pc' = "patchStatus" /\ latest'.status.arn = latest.status.arn
    BY <1>0, <1>5, FinishErrorARN DEF DeleteCertificateFails
  <2> QED
    BY <1>5, <2>1 DEF DeleteCertificateFails
<1>6. CASE MarkUnmanaged
  <2>1. pc' = "idle" /\ latest'.status.arn = 0
    BY <1>6, IdleType DEF MarkUnmanaged
  <2>2. \/ UNCHANGED cr
        \/ cr' = [cr EXCEPT !.phase = "gone", !.managed = FALSE, !.status = NoStatus,
                            !.conds = NoConditions]
    BY <1>6 DEF MarkUnmanaged
  <2>3. cr'.status.arn \in {0, cr.status.arn}
    <3>1. NoStatus.arn = 0
      BY DEF NoStatus
    <3>2. CASE UNCHANGED cr
      BY <3>2
    <3>3. CASE cr' = [cr EXCEPT !.phase = "gone", !.managed = FALSE, !.status = NoStatus,
                                !.conds = NoConditions]
      <4>1. cr'.status = NoStatus
        BY <3>3 DEF TypeOK, CustomResource
      <4> QED
        BY <3>1, <4>1
    <3> QED
      BY <2>2, <3>2, <3>3
  <2> QED
    BY <1>6, <2>1, <2>3 DEF MarkUnmanaged
<1>7. CASE PatchStatus \/ PatchStatusFails
  <2>1. pc' = "idle" /\ latest'.status.arn = 0
    BY <1>7, IdleType DEF PatchStatus, PatchStatusFails
  <2>2. cr'.status.arn \in {cr.status.arn, latest.status.arn}
    BY <1>7 DEF PatchStatus, PatchStatusFails, TypeOK, CustomResource
  <2> QED
    BY <1>7, <2>1, <2>2 DEF PatchStatus, PatchStatusFails
<1> QED
  BY <1>1, <1>2, <1>3, <1>4, <1>5, <1>6, <1>7 DEF DeletePass

\* Users and restarts, and what ACM does but for issuing.
LEMMA QuietEnvironment ==
  ASSUME TypeOK,
         \/ UserCreates \/ UserEdits \/ UserDeletes \/ UserRotatesMaterial \/ Crash
         \/ \E a \in ARNs : ACMEnds(a) \/ ExternalDelete(a)
  PROVE  Quiet
<1> USE DEF Quiet
<1>1. CASE UserCreates \/ UserEdits \/ UserDeletes
  <2>1. \/ \E p : cr' = [cr EXCEPT !.phase = p]
        \/ \E sp : cr' = [cr EXCEPT !.spec = sp]
        \/ cr' = [cr EXCEPT !.phase = "gone", !.status = NoStatus, !.conds = NoConditions]
    BY <1>1 DEF UserCreates, UserEdits, UserDeletes
  <2>2. cr'.status.arn \in {0, cr.status.arn}
    <3>1. NoStatus.arn = 0
      BY DEF NoStatus
    <3>2. cr'.status \in {cr.status, NoStatus}
      BY <2>1 DEF TypeOK, CustomResource
    <3> QED
      BY <3>1, <3>2
  <2> QED
    BY <1>1, <2>2 DEF UserCreates, UserEdits, UserDeletes, pass
<1>2. CASE UserRotatesMaterial
  BY <1>2 DEF UserRotatesMaterial, pass
<1>3. CASE Crash
  <2>1. pc' = "idle" /\ latest'.status.arn = 0
    BY <1>3, IdleType DEF Crash
  <2> QED
    BY <1>3, <2>1 DEF Crash
<1>4. ASSUME NEW a \in ARNs, ACMEnds(a) \/ ExternalDelete(a)
      PROVE  Quiet
  <2>1. \A b \in ARNs : /\ acm'[b].serial = acm[b].serial
                        /\ acm'[b].state # "NONE" => acm[b].state # "NONE"
                        /\ acm'[b].state = "ISSUED" => acm[b].state = "ISSUED"
    BY <1>4 DEF TypeOK, ACMCertificate, ACMEnds, ExternalDelete
  <2> QED
    BY <1>4, <2>1 DEF ACMEnds, ExternalDelete, pass
<1> QED
  BY <1>1, <1>2, <1>3, <1>4

-----------------------------------------------------------------------------
(* The steps that are not.                                                 *)

\* ACM creates a certificate: without a serial, or with the newest.
LEMMA CreateKeepsOrder ==
  ASSUME TypeOK, TypeOK', Accounting, SecretInv, CreateImport \/ CreateRequest
  PROVE  SecretInv'
<1> USE SerialTypes
<1>1. PICK c, site : /\ Created(c, site)
                     /\ \/ c = importedCertificate /\ serials' = serials + 1
                        \/ \E p : c = requestedCertificate(p) /\ serials' = serials
  BY DEF CreateImport, CreateRequest
<1>2. \/ c.serial = serials + 1 /\ c.state = "ISSUED" /\ serials' = serials + 1
      \/ c.serial = 0 /\ c.state # "ISSUED" /\ serials' = serials
  BY <1>1 DEF importedCertificate, requestedCertificate
<1>3. arns + 1 \in ARNs /\ acm' = [acm EXCEPT ![arns + 1] = c]
  BY <1>1, CertificateAssumption DEF Created, ARNs, TypeOK
<1>4. \A a \in ARNs : acm'[a] = IF a = arns + 1 THEN c ELSE acm[a]
  BY <1>3 DEF TypeOK
<1>5. pc = "create" /\ desired.status.arn = cr.status.arn /\ UNCHANGED <<cr, secret>>
  BY DEF CreateImport, CreateRequest, Accounting, PassFollowsResource
<1>6. /\ pc' \in {"readBack", "patchStatus"}
      /\ latest'.status.arn \in {arns + 1, cr.status.arn}
  <2>1. desired \in Resource
    BY DEF TypeOK
  <2> DEFINE r == [desired EXCEPT !.status.arn = arns + 1]
  <2>2. r \in Resource /\ r.status.arn = arns + 1
    BY <1>3, <2>1 DEF Resource, CertificateStatus, ARNs
  <2>3. Goto("readBack", onSuccess(r)) \/ FinishError(desired, "recoverable")
    BY <1>1 DEF Created
  <2> HIDE DEF r
  <2> QED
    BY <1>5, <2>1, <2>2, <2>3, OnSuccessType, FinishErrorARN DEF Goto
<1>7. SerialsInOrder'
  BY <1>2, <1>4, <1>5 DEF SecretInv, SerialsInOrder
<1>8. SecretIsOldest'
  <2> SUFFICES ASSUME NEW a \in ARNs, Exists(a)', a \in {cr.status.arn, latest.status.arn}',
                      acm'[a].serial # 0
               PROVE  secret'.crt <= acm'[a].serial
    BY DEF SecretIsOldest, Known
  <2>1. CASE a = arns + 1
    BY <1>2, <1>4, <1>5, <2>1 DEF SecretInv, SerialsInOrder
  <2>2. CASE a # arns + 1
    BY <1>4, <1>5, <1>6, <2>2 DEF SecretInv, SecretIsOldest, Known, Exists
  <2> QED
    BY <2>1, <2>2
<1>9. BundleInOrder'
  BY <1>6 DEF BundleInOrder
<1> QED
  BY <1>7, <1>8, <1>9 DEF SecretInv

\* ACM issues or renews: the newest serial of all.
LEMMA IssueKeepsOrder ==
  ASSUME TypeOK, TypeOK', SecretInv, NEW b \in ARNs, ACMIssues(b)
  PROVE  SecretInv'
<1> USE SerialTypes
<1>1. /\ serials' = serials + 1
      /\ UNCHANGED <<cr, secret, pc, latest, bundle>>
      /\ acm[b].state # "NONE"
  BY DEF ACMIssues, pass
<1>2. \A a \in ARNs : /\ a = b => acm'[a].serial = serials + 1 /\ acm'[a].state = "ISSUED"
                      /\ a # b => acm'[a] = acm[a]
  BY DEF ACMIssues, TypeOK, ACMCertificate
<1>3. SerialsInOrder'
  BY <1>1, <1>2 DEF SecretInv, SerialsInOrder
<1>4. SecretIsOldest'
  BY <1>1, <1>2 DEF SecretInv, SerialsInOrder, SecretIsOldest, Known, Exists
<1>5. BundleInOrder'
  BY <1>1, <1>2 DEF SecretInv, SerialsInOrder, BundleInOrder, Exists
<1> QED
  BY <1>3, <1>4, <1>5 DEF SecretInv

\* The export and its two writes.
LEMMA ExportKeepsOrder ==
  ASSUME TypeOK, TypeOK', Accounting, SecretInv,
         ExportCertificate \/ WriteCertificate \/ WriteKey
  PROVE  SecretInv'
<1> USE SerialTypes DEF SecretInv
<1>0. desired \in Resource /\ latest \in Resource
  BY DEF TypeOK
<1>1. latest.status.arn = cr.status.arn /\ desired.status.arn = cr.status.arn
  BY DEF ExportCertificate, WriteCertificate, WriteKey, Accounting, LatestARN,
         PassFollowsResource
<1>2. CASE ExportCertificate
  <2>1. cr.status.arn \in Known /\ acm[cr.status.arn].serial # 0
    BY <1>1, <1>2 DEF ExportCertificate, ownARN, Known, Exists, exportable, SerialsInOrder
  <2>2. bundle' = acm[cr.status.arn].serial /\ pc' = "writeCrt"
    BY <1>1, <1>2 DEF ExportCertificate, ownARN
  <2>3. UNCHANGED <<cr, acm, serials, secret, latest>>
    BY <1>2 DEF ExportCertificate
  <2>4. BundleInOrder'
    BY <2>1, <2>2, <2>3 DEF BundleInOrder, SerialsInOrder, SecretIsOldest, Known
  <2> QED
    BY <2>3, <2>4 DEF SerialsInOrder, SecretIsOldest, Known, Exists
<1>3. CASE WriteCertificate
  <2>1. /\ secret'.crt = bundle /\ pc' = "writeKey" /\ pc = "writeCrt"
        /\ UNCHANGED <<cr, acm, serials, latest, bundle>>
    BY <1>3 DEF WriteCertificate, TypeOK
  <2>2. bundle \in 1..serials /\ (Exists(cr.status.arn) => bundle <= acm[cr.status.arn].serial)
    BY <2>1 DEF BundleInOrder
  <2>3. SecretIsOldest'
    BY <1>1, <2>1, <2>2 DEF SecretIsOldest, Known, Exists
  <2> QED
    BY <2>1, <2>2, <2>3 DEF SerialsInOrder, BundleInOrder
<1>4. CASE WriteKey
  <2>1. latest'.status.arn = desired.status.arn
    BY <1>0, <1>4, MergeUpdatedType, OnSuccessType DEF WriteKey
  <2>2. secret'.crt = secret.crt /\ pc' = "lateInit" /\ UNCHANGED <<cr, acm, serials>>
    BY <1>4 DEF WriteKey, TypeOK
  <2> QED
    BY <1>1, <2>1, <2>2 DEF SerialsInOrder, SecretIsOldest, Known, Exists, BundleInOrder
<1> QED
  BY <1>2, <1>3, <1>4

\* Every step keeps the secret in order.
LEMMA SecretStep ==
  ASSUME IInv, TypeOK', SecretInv, [Next]_vars
  PROVE  SecretInv'
<1>0. TypeOK /\ Accounting
  BY DEF IInv
<1>1. CASE Quiet
  BY <1>0, <1>1, QuietKeeps
<1>2. CASE CreateImport \/ CreateRequest
  BY <1>0, <1>2, CreateKeepsOrder
<1>3. CASE ExportCertificate \/ WriteCertificate \/ WriteKey
  BY <1>0, <1>3, ExportKeepsOrder
<1>4. CASE \E a \in ARNs : ACMIssues(a)
  BY <1>0, <1>4, IssueKeepsOrder
<1>5. CASE UNCHANGED vars
  BY <1>5 DEF vars, SecretInv, SerialsInOrder, SecretIsOldest, BundleInOrder, Known, Exists
<1> QED
  BY <1>0, <1>1, <1>2, <1>3, <1>4, <1>5, QuietRead, QuietUpdate, QuietEnds, QuietEnvironment
  DEF Next, Controller, LivePass, Environment

\* Initially nothing is issued and the secret is empty.
LEMMA SecretInit == Init => SecretInv
<1> SUFFICES ASSUME Init PROVE SecretInv
  OBVIOUS
<1>1. \A a \in ARNs : acm[a].serial = 0 /\ acm[a].state = "NONE"
  BY DEF Init, NoCertificate
<1>2. secret.crt = 0 /\ serials = 0 /\ pc = "idle"
  BY DEF Init
<1> QED
  BY <1>1, <1>2 DEF SecretInv, SerialsInOrder, SecretIsOldest, BundleInOrder, Known, Exists

\* Every step is a step of ExportSpec, or none.
LEMMA ExportStep ==
  ASSUME TypeOK, Accounting, SecretInv, [Next]_vars
  PROVE  [Export!Next]_(Export!vars)
<1> USE SerialTypes DEF Export!vars, Export!Next
<1>1. CASE UNCHANGED <<serials, secret>>
  BY <1>1
<1>2. CASE CreateImport \/ \E a \in ARNs : ACMIssues(a)
  BY <1>2 DEF CreateImport, ACMIssues, Export!Issue
<1>3. CASE CreateRequest
  BY <1>3 DEF CreateRequest
<1>4. CASE ExportCertificate
  BY <1>4 DEF ExportCertificate
<1>5. CASE WriteCertificate
  BY <1>5 DEF WriteCertificate, SecretInv, BundleInOrder, Export!PutCertificate
<1>6. CASE WriteKey
  BY <1>6 DEF WriteKey, SecretInv, BundleInOrder, Export!PutKey
<1>7. CASE Quiet
  BY <1>7 DEF Quiet
<1>8. CASE UNCHANGED vars
  BY <1>8 DEF vars
<1> QED
  BY <1>2, <1>3, <1>4, <1>5, <1>6, <1>7, <1>8,
     QuietRead, QuietUpdate, QuietEnds, QuietEnvironment
  DEF Next, Controller, LivePass, Environment

\* What the pass may write next is never older than the secret.
THEOREM SecretInvariance == Spec => []SecretInv
<1>1. IInv /\ IInv' /\ SecretInv /\ [Next]_vars => SecretInv'
  BY SecretStep DEF IInv
<1> QED
  BY <1>1, SecretInit, Invariance, PTL DEF Spec

\* The export of the controller is the one ExportSpec promises: whatever the
\* numbers of certificates, renewals, failures and restarts, the certificate
\* in the secret never goes back and a key is put only beside its own
\* certificate (exportCertificate and its two WriteToSecret).
THEOREM ExportImplemented == Spec => ImplementsExport
<1>1. Init => Export!Init
  BY DEF Init, Export!Init
<1>2. IInv /\ SecretInv /\ [Next]_vars => [Export!Next]_(Export!vars)
  BY ExportStep DEF IInv
<1> QED
  BY <1>1, <1>2, Invariance, SecretInvariance, PTL DEF Spec, ImplementsExport, Export!Spec
=============================================================================
