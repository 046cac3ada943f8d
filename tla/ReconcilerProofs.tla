--------------------------- MODULE ReconcilerProofs ---------------------------
(***************************************************************************)
(* Proofs about Reconciler for all values of its constants: the type       *)
(* invariant, and that no order of create, update, delete, user actions,   *)
(* failures and restarts loses track of a certificate.                     *)
(***************************************************************************)
EXTENDS ReconcilerProperties, CertificateProofs, FiniteSetTheorems

USE DEF Errors, Failures

-----------------------------------------------------------------------------
(* The inductive invariant behind the accounting of certificates.          *)

\* While the pass runs it works on the ARN the cluster records.
PassFollowsResource ==
  pc # "idle" => desired.status.arn = cr.status.arn /\ cr.phase # "none"

\* What the observed resource knows at each point of the pass.
LatestARN ==
  /\ pc \in {"idle", "read", "manage", "create", "delRead"} => latest.status.arn = 0
  /\ pc \in {"update", "afterTags", "writeCrt", "writeKey", "delete"}
       => latest.status.arn = cr.status.arn
  /\ pc \in {"readBack", "lateInit", "patchStatus"} /\ Exists(cr.status.arn)
       => latest.status.arn = cr.status.arn
  /\ pc = "unmanage" => latest.status.arn \in {0, cr.status.arn}

\* Create and the removal of the finalizer come when nothing is left.
NothingLeft ==
  pc \in {"manage", "create", "unmanage"} => ~Exists(cr.status.arn)

\* The finalizer is there from before Create to after Delete.
Managed ==
  /\ cr.status.arn # 0 \/ latest.status.arn # 0 \/ pc \in {"create", "readBack"}
       => cr.managed
  /\ cr.managed => cr.phase \in {"live", "deleting"}

\* A creation is lost to a failed call or a restart, one at a time.
LossesBounded == Cardinality(lost) <= used.faults + used.crashes

Accounting ==
  /\ PassFollowsResource
  /\ LatestARN
  /\ NothingLeft
  /\ Managed
  /\ EveryCertificateAccounted

IInv ==
  /\ TypeOK
  /\ Accounting
  /\ LossesBounded
-----------------------------------------------------------------------------
(* Type correctness.                                                       *)

\* The part of TypeOK about the locals of the pass.
PassType ==
  /\ pc \in PCs
  /\ desired \in Resource
  /\ latest \in Resource
  /\ err \in Errors
  /\ bundle \in 0..MaxSerial

\* The zero resource is a resource.
LEMMA NoResourceType == NoResource \in Resource /\ NoResource.status.arn = 0
<1>1. (CHOOSE t \in TagSets : TRUE) \in TagSets
  BY CertificateAssumption
<1>2. NoResource.spec \in CertificateSpec
  BY <1>1, CertificateAssumption DEF NoResource, CertificateSpec
<1>3. NoStatus \in CertificateStatus /\ NoStatus.arn = 0
  BY CertificateAssumption DEF NoStatus, CertificateStatus
<1>4. NoConditions \in Conditions
  BY DEF NoConditions, Conditions, ConditionStatus
<1>5. NoResource = [spec |-> NoResource.spec, status |-> NoStatus, conds |-> NoConditions]
  BY DEF NoResource
<1> QED
  BY <1>2, <1>3, <1>4, <1>5 DEF Resource

\* The zero Status and conditions are what they should be.
LEMMA NoStatusType == NoStatus \in CertificateStatus /\ NoConditions \in Conditions
  BY CertificateAssumption
  DEF NoStatus, CertificateStatus, NoConditions, Conditions, ConditionStatus

\* An ARN that is not given out has a well-formed entry all the same.
LEMMA NoCertificateType == NoCertificate \in ACMCertificate
<1>1. (CHOOSE t \in TagSets : TRUE) \in TagSets /\ (CHOOSE d \in Domains : TRUE) \in Domains
  BY CertificateAssumption
<1> QED
  BY <1>1, CertificateAssumption DEF NoCertificate, ACMCertificate, Types, Preferences

\* A fault is taken from the budget.
LEMMA FaultType ==
  ASSUME TypeOK, NEW site, Fault(site)
  PROVE  /\ used' \in Budgets
         /\ used'.faults = used.faults + 1
         /\ used'.crashes = used.crashes
  BY ReconcilerAssumption DEF TypeOK, Fault, Budgets

\* The ways a step of the pass ends keep the locals well-formed.
LEMMA GotoType ==
  ASSUME TypeOK, NEW next \in PCs, NEW r \in Resource, Goto(next, r)
  PROVE  PassType'
  BY DEF TypeOK, Goto, PassType

\* The end of a pass, with a resource to write to the Status.
LEMMA FinishType ==
  ASSUME TypeOK, NEW r \in Resource, NEW e \in Errors, Finish(r, e)
  PROVE  PassType'
  BY CertificateAssumption DEF TypeOK, Finish, PassType, PCs

\* The end of a pass by an error of the resource manager (onError).
LEMMA FinishErrorType ==
  ASSUME TypeOK, NEW r \in Resource, NEW e \in Errors, FinishError(r, e)
  PROVE  PassType'
  BY OnErrorType, FinishType DEF FinishError

\* Between passes the locals are the zero values.
LEMMA IdleType ==
  ASSUME Idle
  PROVE  PassType' /\ pc' = "idle" /\ latest'.status.arn = 0
  BY NoResourceType, CertificateAssumption DEF Idle, PassType, PCs

\* What is added to the history is of its type.
LEMMA ForgoneType ==
  ASSUME TypeOK
  PROVE  /\ \A e : ForgoCondition(e) => forgone' \in Forgone
         /\ \A S \in SUBSET (1..MaxSerial) :
              /\ [forgone EXCEPT !.failed = @ \cup S] \in Forgone
              /\ [forgone EXCEPT !.skipped = @ \cup S] \in Forgone
         /\ \A r : serialOf(r) \in SUBSET (1..MaxSerial)
<1>1. forgone \in Forgone
  BY DEF TypeOK
<1>2. \A e : ForgoCondition(e) => forgone' \in Forgone
  BY <1>1 DEF ForgoCondition, Forgone
<1>3. \A S \in SUBSET (1..MaxSerial) :
        /\ [forgone EXCEPT !.failed = @ \cup S] \in Forgone
        /\ [forgone EXCEPT !.skipped = @ \cup S] \in Forgone
  BY <1>1 DEF Forgone
<1>4. \A r : serialOf(r) \in SUBSET (1..MaxSerial)
  BY DEF serialOf
<1> QED
  BY <1>2, <1>3, <1>4

\* Reading a certificate that exists gives a resource under the same ARN.
LEMMA ReadType ==
  ASSUME TypeOK, NEW r \in Resource, Exists(r.status.arn)
  PROVE  /\ r.status.arn \in ARNs
         /\ acm[r.status.arn] \in ACMCertificate
         /\ ReadOne(r, acm[r.status.arn]) \in Resource
         /\ ReadOne(r, acm[r.status.arn]).status.arn = r.status.arn
         /\ ReadOne(r, acm[r.status.arn]).spec.opts # Nil
<1>1. r.status.arn \in ARNs
  BY DEF Exists, ARNs, Resource, CertificateStatus
<1>2. acm[r.status.arn] \in ACMCertificate /\ acm[r.status.arn].state # "NONE"
  BY <1>1 DEF TypeOK, Exists
<1> DEFINE c == acm[r.status.arn]
<1>3. [ct |-> c.ct, export |-> c.export] \in CertificateOptions
  BY <1>2 DEF ACMCertificate, CertificateOptions
<1>4. observedSpec(r.spec, c).opts # Nil
  BY <1>3, NilAssumption DEF observedSpec, CertificateOptions, Preferences, Resource, CertificateSpec
<1> QED
  BY <1>1, <1>2, <1>4, ReadOneType
\* Every certificate ACM creates is one (ImportCertificate, RequestCertificate).
LEMMA ImportedType ==
  ASSUME TypeOK, serials < MaxSerial
  PROVE  importedCertificate \in ACMCertificate
<1>1. (CHOOSE d \in Domains : TRUE) \in Domains
  BY CertificateAssumption
<1>2. serials + 1 \in 0..MaxSerial
  BY CertificateAssumption DEF TypeOK
<1>3. desired.spec.tags \in TagSets /\ material \in Families
  BY DEF TypeOK, Resource, CertificateSpec
<1> QED
  BY <1>1, <1>2, <1>3, CertificateAssumption
  DEF importedCertificate, ACMCertificate, States, Types, Preferences

\* RequestCertificate, from the payload newCreateRequestPayload builds.
LEMMA RequestedType ==
  ASSUME NEW s \in CertificateSpec, newCreateRequestPayload(s).domain # Nil
  PROVE  requestedCertificate(newCreateRequestPayload(s)) \in ACMCertificate
<1> DEFINE p      == newCreateRequestPayload(s)
           type   == IF p.ca THEN "PRIVATE" ELSE "AMAZON_ISSUED"
           family == IF p.alg = Nil THEN DefaultFamily ELSE p.alg.family
           ct     == IF p.ct = Nil THEN "ENABLED" ELSE p.ct
           export == IF p.export = Nil THEN "DISABLED" ELSE p.export
           names  == IF p.san = 0 THEN 1 ELSE p.san
<1>1. p.alg \in KeyAlgorithms \cup {Nil} /\ p.domain \in Domains
      /\ p.san \in 0..MaxNames /\ p.tags \in TagSets
  BY DEF newCreateRequestPayload, CertificateSpec
<1>2. p.ct \in Preferences \cup {Nil} /\ p.export \in Preferences \cup {Nil}
  <2> DEFINE o == IF s.opts = Nil THEN [ct |-> Nil, export |-> Nil] ELSE s.opts
  <2>1. o \in CertificateOptions
    BY DEF CertificateSpec, CertificateOptions
  <2>2. p.ct = o.ct /\ (p.export = o.export \/ p.export = "ENABLED")
    BY DEF newCreateRequestPayload
  <2> HIDE DEF p, o
  <2> QED
    BY <2>1, <2>2 DEF CertificateOptions, Preferences
<1>3. type \in Types
  BY DEF Types
<1>4. family \in Families
  BY <1>1, CertificateAssumption DEF KeyAlgorithms
<1>5. ct \in Preferences /\ export \in Preferences
  BY <1>2 DEF Preferences
<1>6. names \in 1..MaxNames
  BY <1>1, CertificateAssumption
<1>7. 0 \in 0..MaxSerial
  BY CertificateAssumption
<1>8. requestedCertificate(p)
        = [state |-> "PENDING_VALIDATION", type |-> type, family |-> family, ct |-> ct,
           export |-> export, domain |-> p.domain, names |-> names,
           issued |-> FALSE, serial |-> 0, tags |-> p.tags]
  BY DEF requestedCertificate
<1> HIDE DEF p, type, family, ct, export, names
<1>9. requestedCertificate(p) \in ACMCertificate
  BY <1>1, <1>3, <1>4, <1>5, <1>6, <1>7, <1>8 DEF ACMCertificate, States
<1> QED
  BY <1>9 DEF p

\* What Created leaves well-formed, answer lost or not.
LEMMA CreatedType ==
  ASSUME TypeOK, NEW c \in ACMCertificate, NEW site, Created(c, site)
  PROVE  /\ PassType'
         /\ acm' \in [ARNs -> ACMCertificate]
         /\ arns' \in 0..MaxCerts
         /\ lost' \in SUBSET ARNs
         /\ used' \in Budgets
<1>1. arns + 1 \in ARNs /\ arns + 1 \in 0..MaxCerts
  BY CertificateAssumption DEF TypeOK, Created, ARNs
<1>2. acm' \in [ARNs -> ACMCertificate] /\ arns' \in 0..MaxCerts
  BY <1>1 DEF TypeOK, Created
<1> DEFINE r == [desired EXCEPT !.status.arn = arns + 1]
<1>3. r \in Resource
  BY <1>1 DEF TypeOK, Resource, CertificateStatus
<1>4. CASE Goto("readBack", onSuccess(r)) /\ UNCHANGED <<used, lost>>
  <2>1. PassType'
    BY <1>3, <1>4, OnSuccessType, GotoType DEF PCs
  <2> QED
    BY <1>2, <1>4, <2>1 DEF TypeOK
<1>5. CASE Fault(site) /\ FinishError(desired, "recoverable") /\ lost' = lost \cup {arns + 1}
  <2>1. PassType'
    BY <1>5, FinishErrorType DEF TypeOK
  <2> QED
    BY <1>1, <1>2, <1>5, <2>1, FaultType DEF TypeOK
<1> QED
  BY <1>4, <1>5 DEF Created

\* The initial state is well-formed.
LEMMA TypeInit == Init => TypeOK
<1> SUFFICES ASSUME Init PROVE TypeOK
  OBVIOUS
<1>1. cr \in CustomResource
  BY NoStatusType, ReconcilerAssumption DEF Init, CustomResource
<1>2. acm \in [ARNs -> ACMCertificate]
  BY NoCertificateType DEF Init
<1>3. PassType
  BY NoResourceType, CertificateAssumption DEF Init, PassType, PCs
<1>4. secret \in [crt : 0..MaxSerial, key : 0..MaxSerial]
  BY CertificateAssumption DEF Init
<1>5. used \in Budgets
  BY ReconcilerAssumption DEF Init, Budgets
<1>6. arns \in 0..MaxCerts /\ serials \in 0..MaxSerial
  BY CertificateAssumption DEF Init
<1>7. queued \in BOOLEAN
  BY DEF Init
<1>8. forgone \in Forgone
  BY DEF Init, Forgone
<1> QED
  BY <1>1, <1>2, <1>3, <1>4, <1>5, <1>6, <1>7, <1>8 DEF Init, TypeOK, PassType

\* A call that fails ends the pass in an error, with the resource it was given.
LEMMA FailedCalls ==
  /\ ReadFault \/ CreateFails \/ DeleteReadFault
       => \E e \in Failures : FinishError(desired, e)
  /\ ExportFails \/ SyncTagsFails \/ UpdateCertificateOptionsFails \/ DeleteCertificateFails
       => \E e \in Failures : FinishError(latest, e)
<1>1. ReadFault \/ CreateFails \/ DeleteReadFault
        => \E e \in Failures : FinishError(desired, e)
  BY DEF ReadFault, CreateFails, DeleteReadFault
<1>2. ExportFails \/ SyncTagsFails \/ UpdateCertificateOptionsFails \/ DeleteCertificateFails
        => \E e \in Failures : FinishError(latest, e)
  BY DEF ExportFails, SyncTagsFails, UpdateCertificateOptionsFails, DeleteCertificateFails
<1> QED
  BY <1>1, <1>2

\* Every step keeps the state well-formed: first the passes over a live
\* resource, one step per action.
LEMMA TypeLivePass ==
  ASSUME TypeOK, LivePass
  PROVE  TypeOK'
<1> USE DEF PassType
<1>0. desired \in Resource /\ latest \in Resource
  BY DEF TypeOK
<1>1. CASE ReadNotFound
  <2>1. PassType'
    BY <1>0, <1>1, GotoType DEF ReadNotFound, PCs
  <2> QED
    BY <1>1, <2>1 DEF TypeOK, ReadNotFound
<1>2. CASE ReadFound
  <2> DEFINE obs == ReadOne(desired, acm[desired.status.arn])
  <2>1. obs \in Resource
    BY <1>0, <1>2, ReadType DEF ReadFound
  <2>2. \E n \in PCs : Goto(n, obs)
    BY <1>2 DEF ReadFound, PCs
  <2>3. PassType'
    BY <2>1, <2>2, GotoType
  <2>4. forgone' \in Forgone
    <3> DEFINE S == IF desired.spec.exportTo THEN {} ELSE serialOf(obs)
    <3>1. forgone' = [forgone EXCEPT !.skipped = @ \cup S]
      BY <1>2 DEF ReadFound
    <3>2. S \in SUBSET (1..MaxSerial)
      BY ForgoneType
    <3> QED
      BY <3>1, <3>2, ForgoneType
  <2> QED
    BY <1>2, <2>3, <2>4 DEF TypeOK, ReadFound
<1>3. CASE ReadFault
  <2>1. PassType'
    BY <1>0, <1>3, FailedCalls, FinishErrorType
  <2> QED
    BY <1>3, <2>1, FaultType DEF TypeOK, ReadFault
<1>4. CASE MarkManaged
  <2>1. PassType'
    BY <1>0, <1>4, GotoType DEF MarkManaged, PCs
  <2> QED
    BY <1>4, <2>1 DEF TypeOK, MarkManaged, CustomResource
<1>5. CASE MarkManagedFails
  <2>1. PassType'
    BY <1>5, IdleType DEF MarkManagedFails
  <2>2. used' \in Budgets
    BY <1>5, FaultType DEF TypeOK, MarkManagedFails
  <2> QED
    BY <1>5, <2>1, <2>2 DEF TypeOK, MarkManagedFails
<1>6. CASE CreateRejected
  <2>1. PassType'
    BY <1>0, <1>6, FinishErrorType DEF CreateRejected
  <2> QED
    BY <1>6, <2>1 DEF TypeOK, CreateRejected
<1>7. CASE CreateImport
  <2>1. serials' \in 0..MaxSerial
    BY <1>7, CertificateAssumption DEF TypeOK, CreateImport
  <2> QED
    BY <1>7, <2>1, ImportedType, CreatedType DEF TypeOK, CreateImport
<1>8. CASE CreateRequest
  <2> DEFINE p == newCreateRequestPayload(desired.spec)
  <2>1. requestedCertificate(p) \in ACMCertificate
    BY <1>0, <1>8, RequestedType DEF CreateRequest, Resource
  <2> QED
    BY <1>8, <2>1, CreatedType DEF TypeOK, CreateRequest
<1>9. CASE CreateFails
  <2>2. PassType'
    BY <1>0, <1>9, FailedCalls, FinishErrorType
  <2>3. used' \in Budgets
    BY <1>9, FaultType DEF TypeOK, CreateFails
  <2> QED
    BY <1>9, <2>2, <2>3 DEF TypeOK, CreateFails
<1>10. CASE ReadBack
  <2> DEFINE obs == ReadOne(latest, acm[latest.status.arn])
             r == [latest EXCEPT !.status = obs.status, !.conds = obs.conds]
  <2>1. obs \in Resource
    BY <1>0, <1>10, ReadType DEF ReadBack
  <2>2. r \in Resource
    <3> HIDE DEF obs
    <3> QED BY <1>0, <2>1 DEF Resource
  <2>3. PassType'
    BY <1>10, <2>2, GotoType DEF ReadBack, PCs
  <2>4. forgone' \in Forgone
    BY <1>10, ForgoneType DEF ReadBack
  <2> QED
    BY <1>10, <2>3, <2>4 DEF TypeOK, ReadBack
<1>11. CASE ReadBackFails
  <2>0. \E e \in Errors : Finish(latest, e)
    BY <1>11 DEF ReadBackFails
  <2>1. PassType'
    BY <1>0, <2>0, FinishType
  <2>2. used' \in Budgets
    BY <1>11, FaultType DEF TypeOK, ReadBackFails
  <2>3. forgone' \in Forgone
    BY <1>11, ForgoneType DEF TypeOK, ReadBackFails
  <2> QED
    BY <1>11, <2>1, <2>2, <2>3 DEF TypeOK, ReadBackFails
<1>12. CASE ExportCertificate
  <2>1. acm[ownARN] \in ACMCertificate
    BY <1>0, <1>12, ReadType DEF ExportCertificate, ownARN
  <2>2. acm[ownARN].serial \in 0..MaxSerial
    BY <2>1 DEF ACMCertificate
  <2> QED
    BY <1>12, <2>2 DEF TypeOK, ExportCertificate, PCs
<1>13. CASE WriteCertificate
  BY <1>13 DEF TypeOK, WriteCertificate, PCs
<1>14. CASE WriteKey
  <2>1. latest' \in Resource
    BY <1>0, <1>14, MergeUpdatedType, OnSuccessType DEF WriteKey
  <2> QED
    BY <1>14, <2>1, CertificateAssumption DEF TypeOK, WriteKey, PCs
<1>15. CASE ExportFails
  <2>2. PassType'
    BY <1>0, <1>15, FailedCalls, FinishErrorType
  <2>3. used' \in Budgets
    BY <1>15, FaultType DEF TypeOK, ExportFails
  <2>4. forgone' \in Forgone
    BY <1>15, ForgoneType DEF ExportFails
  <2> QED
    BY <1>15, <2>2, <2>3, <2>4 DEF TypeOK, ExportFails
<1>16. CASE SyncTags
  <2>1. PassType'
    BY <1>0, <1>16, GotoType DEF SyncTags, PCs
  <2>2. ownARN \in ARNs /\ acm[ownARN] \in ACMCertificate
    BY <1>0, <1>16, ReadType DEF SyncTags, ownARN
  <2>3. [acm[ownARN] EXCEPT !.tags = desired.spec.tags] \in ACMCertificate
    BY <1>0, <2>2 DEF ACMCertificate, Resource, CertificateSpec
  <2>4. acm' \in [ARNs -> ACMCertificate]
    BY <1>16, <2>2, <2>3 DEF TypeOK, SyncTags
  <2> QED
    BY <1>16, <2>1, <2>4 DEF TypeOK, SyncTags
<1>17. CASE SyncTagsFails
  <2>2. PassType'
    BY <1>0, <1>17, FailedCalls, FinishErrorType
  <2>3. used' \in Budgets
    BY <1>17, FaultType DEF TypeOK, SyncTagsFails
  <2>4. ASSUME Exists(ownARN), NEW t \in TagSets,
               acm' = [acm EXCEPT ![ownARN].tags = t]
        PROVE  acm' \in [ARNs -> ACMCertificate]
    <3>1. ownARN \in ARNs /\ acm[ownARN] \in ACMCertificate
      BY <1>0, <2>4, ReadType DEF ownARN
    <3>2. [acm[ownARN] EXCEPT !.tags = t] \in ACMCertificate
      BY <1>0, <3>1 DEF ACMCertificate, Resource, CertificateSpec
    <3> QED
      BY <2>4, <3>1, <3>2 DEF TypeOK
  <2>5. acm' \in [ARNs -> ACMCertificate]
    BY <1>17, <2>4 DEF TypeOK, SyncTagsFails
  <2> QED
    BY <1>17, <2>2, <2>3, <2>5 DEF TypeOK, SyncTagsFails
<1>18. CASE UpdateReturnsDesired
  <2>1. PassType'
    BY <1>0, <1>18, OnSuccessType, GotoType DEF UpdateReturnsDesired, PCs
  <2> QED
    BY <1>18, <2>1 DEF TypeOK, UpdateReturnsDesired
<1>19. CASE UpdateRefusesImported
  <2>1. PassType'
    BY <1>0, <1>19, FinishErrorType DEF UpdateRefusesImported
  <2> QED
    BY <1>19, <2>1 DEF TypeOK, UpdateRefusesImported
<1>20. CASE UpdateCertificateOptions
  <2>1. mergeUpdated(desired, latest) \in Resource
    BY <1>0, MergeUpdatedType
  <2>2. PassType'
    BY <1>0, <1>20, <2>1, OnSuccessType, GotoType, FinishErrorType
    DEF UpdateCertificateOptions, PCs
  <2>3. used' \in Budgets
    BY <1>20, FaultType DEF TypeOK, UpdateCertificateOptions
  <2>4. ownARN \in ARNs /\ acm[ownARN] \in ACMCertificate
    BY <1>0, <1>20, ReadType DEF UpdateCertificateOptions, ownARN
  <2>5. desired.spec.opts \in CertificateOptions
    BY <1>0, <1>20 DEF UpdateCertificateOptions, Resource, CertificateSpec
  <2>6. newOptions(acm[ownARN], desired.spec.opts) \in ACMCertificate
    BY <2>4, <2>5 DEF newOptions, ACMCertificate, CertificateOptions
  <2>7. acm' \in [ARNs -> ACMCertificate]
    BY <1>20, <2>4, <2>6 DEF TypeOK, UpdateCertificateOptions
  <2> QED
    BY <1>20, <2>2, <2>3, <2>7 DEF TypeOK, UpdateCertificateOptions
<1>21. CASE UpdateCertificateOptionsFails
  <2>1. PassType'
    BY <1>0, <1>21, FailedCalls, FinishErrorType
  <2>2. used' \in Budgets
    BY <1>21, FaultType DEF TypeOK, UpdateCertificateOptionsFails
  <2> QED
    BY <1>21, <2>1, <2>2 DEF TypeOK, UpdateCertificateOptionsFails
<1>22. CASE LateInitialize
  <2> DEFINE obs == ReadOne(latest, acm[latest.status.arn])
             li  == lateInitializeFromReadOneOutput(obs, latest)
             incomplete == incompleteLateInitialization(li)
             lc  == IF incomplete THEN "False" ELSE "True"
             sc  == IF incomplete THEN "False" ELSE li.conds.synced
             res == [li EXCEPT !.conds.lateInit = lc, !.conds.synced = sc]
             e   == IF incomplete THEN "recoverable" ELSE "none"
  <2>1. obs \in Resource /\ obs.spec.opts # Nil
    BY <1>0, <1>22, ReadType DEF LateInitialize
  <2>2. li \in Resource /\ li.spec.opts # Nil
    BY <1>0, <2>1, LateInitializeType
  <2>3. lc \in ConditionStatus /\ sc \in ConditionStatus /\ e \in Errors
    <3> HIDE DEF li, incomplete
    <3> QED BY <2>2 DEF ConditionStatus, Resource, Conditions
  <2>4. res \in Resource
    <3> HIDE DEF li, lc, sc
    <3> QED BY <2>2, <2>3 DEF Resource, Conditions
  <2>5. \/ cr' = [cr EXCEPT !.spec = mergePatch(cr.spec, latest.spec, li.spec)]
           /\ Finish(res, e) /\ UNCHANGED used
        \/ Fault("patchSpec") /\ Finish(res, "recoverable") /\ UNCHANGED cr
    BY <1>22 DEF LateInitialize
  <2>6. mergePatch(cr.spec, latest.spec, li.spec) \in CertificateSpec
    <3> HIDE DEF li
    <3>1. /\ cr.spec \in CertificateSpec
          /\ latest.spec \in CertificateSpec
          /\ li.spec \in CertificateSpec
      BY <1>0, <2>2 DEF TypeOK, Resource, CustomResource
    <3> QED
      BY <2>2, <3>1, MergePatchType
  <2> HIDE DEF obs, li, res, e
  <2>7. PassType'
    BY <2>3, <2>4, <2>5, FinishType
  <2>8. cr' \in CustomResource
    BY <2>5, <2>6 DEF TypeOK, CustomResource
  <2>9. used' \in Budgets
    BY <2>5, FaultType DEF TypeOK
  <2> QED
    BY <1>22, <2>7, <2>8, <2>9 DEF TypeOK, LateInitialize
<1>23. CASE LateInitializeFails
  <2> DEFINE res == [latest EXCEPT !.conds.lateInit = "False", !.conds.synced = "False"]
  <2>1. res \in Resource
    BY <1>0 DEF Resource, Conditions, ConditionStatus
  <2>2. \E e \in Errors : Finish(res, e)
    BY <1>23 DEF LateInitializeFails
  <2>3. PassType'
    BY <2>1, <2>2, FinishType
  <2>4. used' \in Budgets
    BY <1>23, FaultType DEF TypeOK, LateInitializeFails
  <2>5. forgone' \in Forgone
    BY <1>23, ForgoneType DEF TypeOK, LateInitializeFails
  <2> QED
    BY <1>23, <2>3, <2>4, <2>5 DEF TypeOK, LateInitializeFails
<1> QED
  BY <1>1, <1>2, <1>3, <1>4, <1>5, <1>6, <1>7, <1>8, <1>9, <1>10, <1>11, <1>12, <1>13,
     <1>14, <1>15, <1>16, <1>17, <1>18, <1>19, <1>20, <1>21, <1>22, <1>23 DEF LivePass

\* The other steps of the controller.
LEMMA TypeController ==
  ASSUME TypeOK, Begin \/ DeletePass \/ PatchStatus \/ PatchStatusFails
  PROVE  TypeOK'
<1> USE DEF PassType
<1>0. desired \in Resource /\ latest \in Resource
  BY DEF TypeOK
<1>1. CASE Begin
  <2>1. desired' \in Resource
    BY <1>1, NoStatusType DEF TypeOK, Begin, CustomResource, Resource
  <2>2. forgone' \in Forgone
    BY <1>1, ForgoneType DEF Begin
  <2> QED
    BY <1>1, <2>1, <2>2 DEF TypeOK, Begin, PCs
<1>2. CASE DeleteRead
  <2>1. PassType'
    BY <1>0, <1>2, ReadType, GotoType DEF DeleteRead, PCs
  <2> QED
    BY <1>2, <2>1 DEF TypeOK, DeleteRead
<1>3. CASE DeleteReadFault
  <2>1. PassType'
    BY <1>0, <1>3, FailedCalls, FinishErrorType
  <2> QED
    BY <1>3, <2>1, FaultType DEF TypeOK, DeleteReadFault
<1>4. CASE DeleteCertificate
  <2>1. PassType'
    BY <1>0, <1>4, GotoType, FinishErrorType DEF DeleteCertificate, PCs
  <2>2. used' \in Budgets
    BY <1>4, FaultType DEF TypeOK, DeleteCertificate
  <2>3. ownARN \in ARNs /\ acm[ownARN] \in ACMCertificate
    BY <1>0, <1>4, ReadType DEF DeleteCertificate, ownARN
  <2>4. [acm[ownARN] EXCEPT !.state = "NONE"] \in ACMCertificate
    BY <2>3 DEF ACMCertificate
  <2>5. acm' \in [ARNs -> ACMCertificate]
    BY <1>4, <2>3, <2>4 DEF TypeOK, DeleteCertificate
  <2> QED
    BY <1>4, <2>1, <2>2, <2>5 DEF TypeOK, DeleteCertificate
<1>5. CASE DeleteCertificateFails
  <2>1. PassType'
    BY <1>0, <1>5, FailedCalls, FinishErrorType
  <2>2. used' \in Budgets
    BY <1>5, FaultType DEF TypeOK, DeleteCertificateFails
  <2> QED
    BY <1>5, <2>1, <2>2 DEF TypeOK, DeleteCertificateFails
<1>6. CASE MarkUnmanaged
  <2>1. PassType'
    BY <1>6, IdleType DEF MarkUnmanaged
  <2>2. used' \in Budgets
    BY <1>6, FaultType DEF TypeOK, MarkUnmanaged
  <2>3. cr' \in CustomResource
    BY <1>6, NoStatusType DEF TypeOK, MarkUnmanaged, CustomResource
  <2>4. queued' \in BOOLEAN
    BY <1>6 DEF TypeOK, MarkUnmanaged
  <2> QED
    BY <1>6, <2>1, <2>2, <2>3, <2>4 DEF TypeOK, MarkUnmanaged
<1>7. CASE PatchStatus
  <2>1. PassType'
    BY <1>7, IdleType DEF PatchStatus
  <2>2. cr' \in CustomResource
    BY <1>0, <1>7 DEF TypeOK, PatchStatus, CustomResource, Resource
  <2>3. queued' \in BOOLEAN
    BY <1>7 DEF PatchStatus
  <2> QED
    BY <1>7, <2>1, <2>2, <2>3 DEF TypeOK, PatchStatus
<1>8. CASE PatchStatusFails
  <2>1. PassType'
    BY <1>8, IdleType DEF PatchStatusFails
  <2>2. used' \in Budgets
    BY <1>8, FaultType DEF PatchStatusFails
  <2>3. queued' \in BOOLEAN
    BY <1>8 DEF PatchStatusFails
  <2>4. forgone' \in Forgone
    BY <1>8, ForgoneType DEF PatchStatusFails
  <2> QED
    BY <1>8, <2>1, <2>2, <2>3, <2>4 DEF TypeOK, PatchStatusFails, Unrecorded
<1> QED
  BY <1>1, <1>2, <1>3, <1>4, <1>5, <1>6, <1>7, <1>8 DEF DeletePass

\* An edited Spec is a Spec.
LEMMA EditedType ==
  ASSUME NEW s \in CertificateSpec, NEW t \in edited(s)
  PROVE  t \in CertificateSpec
<1>1. ASSUME NEW p \in Preferences,
             t = [s EXCEPT !.opts = IF @ = Nil THEN [ct |-> p, export |-> Nil]
                                    ELSE [ct |-> p, export |-> @.export]]
      PROVE  t \in CertificateSpec
  <2> DEFINE o == IF s.opts = Nil THEN [ct |-> p, export |-> Nil]
                  ELSE [ct |-> p, export |-> s.opts.export]
  <2>1. o \in CertificateOptions
    BY DEF CertificateSpec, CertificateOptions
  <2>2. t = [s EXCEPT !.opts = o]
    BY <1>1 DEF CertificateSpec
  <2> HIDE DEF o
  <2> QED
    BY <2>1, <2>2 DEF CertificateSpec
<1>2. ASSUME NEW d \in Domains, t = [s EXCEPT !.domain = d]
      PROVE  t \in CertificateSpec
  BY <1>2 DEF CertificateSpec
<1>3. ASSUME NEW g \in TagSets, t = [s EXCEPT !.tags = g]
      PROVE  t \in CertificateSpec
  BY <1>3 DEF CertificateSpec
<1>4. ASSUME t = [s EXCEPT !.exportTo = TRUE]
      PROVE  t \in CertificateSpec
  BY <1>4 DEF CertificateSpec
<1> QED
  BY <1>1, <1>2, <1>3, <1>4 DEF edited

\* Users, ACM and restarts keep the state well-formed.
LEMMA TypeEnvironment ==
  ASSUME TypeOK, Environment
  PROVE  TypeOK'
<1> USE DEF PassType
<1>1. CASE UserCreates
  <2>1. cr' \in CustomResource
    BY <1>1 DEF TypeOK, UserCreates, CustomResource
  <2> QED
    BY <1>1, <2>1 DEF TypeOK, UserCreates, pass
<1>2. CASE UserEdits
  <2>1. used' \in Budgets
    BY <1>2, ReconcilerAssumption DEF TypeOK, UserEdits, Budgets
  <2>2. cr' \in CustomResource
    <3>1. PICK s \in edited(cr.spec) : cr' = [cr EXCEPT !.spec = s]
      BY <1>2 DEF UserEdits
    <3>2. s \in CertificateSpec
      BY EditedType DEF TypeOK, CustomResource
    <3> QED
      BY <3>1, <3>2 DEF TypeOK, CustomResource
  <2> QED
    BY <1>2, <2>1, <2>2 DEF TypeOK, UserEdits, pass
<1>3. CASE UserDeletes
  <2>1. cr' \in CustomResource
    BY <1>3, NoStatusType DEF TypeOK, UserDeletes, CustomResource
  <2> QED
    BY <1>3, <2>1 DEF TypeOK, UserDeletes, pass
<1>4. CASE UserRotatesMaterial
  <2>1. used' \in Budgets
    BY <1>4, ReconcilerAssumption DEF TypeOK, UserRotatesMaterial, Budgets
  <2> QED
    BY <1>4, <2>1 DEF TypeOK, UserRotatesMaterial, pass
<1>5. ASSUME NEW a \in ARNs, ACMIssues(a)
      PROVE  TypeOK'
  <2>1. serials + 1 \in 0..MaxSerial
    BY <1>5, CertificateAssumption DEF TypeOK, ACMIssues
  <2>2. [acm[a] EXCEPT !.state = "ISSUED", !.issued = TRUE, !.serial = serials + 1]
          \in ACMCertificate
    BY <2>1 DEF TypeOK, ACMCertificate, States
  <2>3. acm' \in [ARNs -> ACMCertificate]
    BY <1>5, <2>2 DEF TypeOK, ACMIssues
  <2> QED
    BY <1>5, <2>1, <2>3 DEF TypeOK, ACMIssues, pass
<1>6. ASSUME NEW a \in ARNs, ACMEnds(a)
      PROVE  TypeOK'
  <2>1. \A st \in States : [acm[a] EXCEPT !.state = st] \in ACMCertificate
    BY DEF TypeOK, ACMCertificate, States
  <2>2. acm' \in [ARNs -> ACMCertificate]
    BY <1>6, <2>1 DEF TypeOK, ACMEnds, States
  <2> QED
    BY <1>6, <2>2 DEF TypeOK, ACMEnds, pass
<1>7. ASSUME NEW a \in ARNs, ExternalDelete(a)
      PROVE  TypeOK'
  <2>1. [acm[a] EXCEPT !.state = "NONE"] \in ACMCertificate
    BY DEF TypeOK, ACMCertificate
  <2>2. acm' \in [ARNs -> ACMCertificate]
    BY <1>7, <2>1 DEF TypeOK, ExternalDelete
  <2>3. used' \in Budgets
    BY <1>7, ReconcilerAssumption DEF TypeOK, ExternalDelete, Budgets
  <2> QED
    BY <1>7, <2>2, <2>3 DEF TypeOK, ExternalDelete, pass
<1>8. CASE Crash
  <2>1. PassType'
    BY <1>8, IdleType DEF Crash
  <2>2. used' \in Budgets
    BY <1>8, ReconcilerAssumption DEF TypeOK, Crash, Budgets
  <2> QED
    BY <1>8, <2>1, <2>2 DEF TypeOK, Crash, Unrecorded
<1> QED
  BY <1>1, <1>2, <1>3, <1>4, <1>5, <1>6, <1>7, <1>8 DEF Environment

\* Every step of the system keeps the state well-formed.
LEMMA TypeStep ==
  ASSUME TypeOK, [Next]_vars
  PROVE  TypeOK'
<1>1. CASE Next
  BY <1>1, TypeLivePass, TypeController, TypeEnvironment DEF Next, Controller
<1>2. CASE UNCHANGED vars
  BY <1>2 DEF TypeOK, vars
<1> QED
  BY <1>1, <1>2

\* Every state of every behaviour is well-formed: late initialization and the
\* merge patch always produce a Spec the schema admits, and no failure leaves
\* half a resource in the Status or in the hands of the pass.
THEOREM TypeCorrect == Spec => []TypeOK
<1>1. Init => TypeOK
  BY TypeInit
<1>2. TypeOK /\ [Next]_vars => TypeOK'
  BY TypeStep
<1> QED
  BY <1>1, <1>2, PTL DEF Spec

-----------------------------------------------------------------------------
(* The accounting of certificates.                                         *)

\* What the ways a step ends do to the ARNs the pass holds.
LEMMA FinishErrorARN ==
  ASSUME TypeOK, NEW r \in Resource, NEW e \in Errors, FinishError(r, e)
  PROVE  pc' = "patchStatus" /\ latest'.status.arn = r.status.arn /\ desired' = desired
  BY OnErrorType DEF FinishError, Finish

\* Steps of a live pass that leave ACM and the resource's Status alone.
LEMMA AccountingRead ==
  ASSUME TypeOK, Accounting,
         \/ ReadNotFound \/ ReadFound \/ ReadFault \/ MarkManaged \/ MarkManagedFails
         \/ CreateRejected \/ CreateFails \/ ReadBack \/ ReadBackFails
  PROVE  Accounting'
<1> USE DEF Accounting, PassFollowsResource, LatestARN, NothingLeft, Managed,
            EveryCertificateAccounted, Unrecorded, Exists
<1>0. desired \in Resource /\ latest \in Resource
  BY DEF TypeOK
<1>1. CASE ReadNotFound
  BY <1>1 DEF ReadNotFound, Goto, requiredFieldsMissingFromReadOneInput
<1>2. CASE ReadFound
  <2>1. /\ pc' \in {"lateInit", "update"} /\ desired' = desired
        /\ latest'.status.arn = desired.status.arn
    BY <1>0, <1>2, ReadType DEF ReadFound, Goto
  <2> QED
    BY <1>2, <2>1 DEF ReadFound
<1>3. CASE ReadFault
  <2>1. /\ pc' = "patchStatus" /\ desired' = desired
        /\ latest'.status.arn = desired.status.arn
    BY <1>0, <1>3, FailedCalls, FinishErrorARN
  <2> QED
    BY <1>3, <2>1 DEF ReadFault
<1>4. CASE MarkManaged
  <2>1. /\ cr'.managed = TRUE /\ cr'.status = cr.status /\ cr'.phase = cr.phase
        /\ cr.phase \in {"live", "deleting"}
    BY <1>4 DEF MarkManaged, TypeOK, CustomResource
  <2> QED
    BY <1>4, <2>1 DEF MarkManaged, Goto
<1>5. CASE MarkManagedFails
  <2>1. pc' = "idle" /\ latest'.status.arn = 0
    BY <1>5, IdleType DEF MarkManagedFails
  <2> QED
    BY <1>5, <2>1 DEF MarkManagedFails
<1>6. CASE CreateRejected
  <2>1. /\ pc' = "patchStatus" /\ desired' = desired
        /\ latest'.status.arn = desired.status.arn
    BY <1>0, <1>6, FinishErrorARN DEF CreateRejected
  <2> QED
    BY <1>6, <2>1 DEF CreateRejected
<1>7. CASE CreateFails
  <2>1. \E e \in Errors : FinishError(desired, e)
    BY <1>7, FailedCalls
  <2>2. /\ pc' = "patchStatus" /\ desired' = desired
        /\ latest'.status.arn = desired.status.arn
    BY <1>0, <2>1, FinishErrorARN
  <2>3. pc = "create" /\ UNCHANGED <<cr, acm, lost>>
    BY <1>7 DEF CreateFails
  <2> QED
    BY <2>2, <2>3
<1>8. CASE ReadBack
  <2>1. pc' = "lateInit" /\ desired' = desired /\ latest'.status.arn = latest.status.arn
    <3> DEFINE obs == ReadOne(latest, acm[latest.status.arn])
    <3>1. obs.status.arn = latest.status.arn
      BY <1>0, <1>8, ReadType DEF ReadBack
    <3>2. Goto("lateInit", [latest EXCEPT !.status = obs.status, !.conds = obs.conds])
      BY <1>8 DEF ReadBack
    <3> HIDE DEF obs
    <3> QED
      BY <1>0, <3>1, <3>2 DEF Goto, Resource
  <2> QED
    BY <1>8, <2>1 DEF ReadBack
<1>9. CASE ReadBackFails
  BY <1>9 DEF ReadBackFails, Finish
<1> QED
  BY <1>1, <1>2, <1>3, <1>4, <1>5, <1>6, <1>7, <1>8, <1>9

\* ACM creates a certificate: the pass has it, or its answer was lost.
LEMMA AccountingCreate ==
  ASSUME TypeOK, Accounting, pc = "create", NEW c, NEW site,
         Created(c, site), UNCHANGED cr
  PROVE  Accounting'
<1> USE DEF Accounting, PassFollowsResource, LatestARN, NothingLeft, Managed,
            EveryCertificateAccounted, Unrecorded, Exists
<1>0. desired \in Resource /\ arns \in Nat /\ arns + 1 \in ARNs
  BY CertificateAssumption DEF TypeOK, Created, ARNs
<1>1. \A a \in ARNs : a # arns + 1 => acm'[a] = acm[a]
  BY <1>0 DEF TypeOK, Created
<1>2. cr.status.arn \in ARNs \cup {0}
  BY CertificateAssumption DEF TypeOK, CustomResource, CertificateStatus, ARNs
<1>3. CASE Goto("readBack", onSuccess([desired EXCEPT !.status.arn = arns + 1]))
           /\ UNCHANGED <<used, lost>>
  <2> DEFINE r == [desired EXCEPT !.status.arn = arns + 1]
  <2>1. r \in Resource /\ r.status.arn = arns + 1
    BY <1>0 DEF Resource, CertificateStatus, ARNs
  <2>2. pc' = "readBack" /\ desired' = desired /\ latest'.status.arn = arns + 1
    <3> HIDE DEF r
    <3>1. Goto("readBack", onSuccess(r))
      BY <1>3 DEF r
    <3> QED
      BY <2>1, <3>1, OnSuccessType DEF Goto
  <2>3. lost' = lost
    BY <1>3
  <2>4. latest.status.arn = 0 /\ cr.managed /\ ~Exists(cr.status.arn)
        /\ cr.phase \in {"live", "deleting"} /\ cr.phase # "none"
        /\ desired.status.arn = cr.status.arn
    OBVIOUS
  <2>5. EveryCertificateAccounted'
    BY <1>0, <1>1, <2>2, <2>3, <2>4
  <2>6. Exists(cr.status.arn)' => cr.status.arn = arns + 1
    BY <1>1, <1>2, <2>4
  <2> QED
    BY <2>2, <2>4, <2>5, <2>6
<1>4. CASE Fault(site) /\ FinishError(desired, "recoverable") /\ lost' = lost \cup {arns + 1}
  <2>1. /\ pc' = "patchStatus" /\ desired' = desired
        /\ latest'.status.arn = desired.status.arn
    BY <1>0, <1>4, FinishErrorARN
  <2>2. latest.status.arn = 0 /\ desired.status.arn = cr.status.arn /\ cr.managed
        /\ cr.phase \in {"live", "deleting"}
    OBVIOUS
  <2>3. EveryCertificateAccounted'
    BY <1>0, <1>1, <1>4, <2>1, <2>2
  <2> QED
    BY <2>1, <2>2, <2>3
<1> QED
  BY <1>3, <1>4 DEF Created

\* sdkUpdate and late initialization: the certificate stays what it is.
LEMMA AccountingUpdate ==
  ASSUME TypeOK, Accounting,
         \/ ExportCertificate \/ WriteCertificate \/ WriteKey \/ ExportFails
         \/ SyncTags \/ SyncTagsFails \/ UpdateReturnsDesired \/ UpdateRefusesImported
         \/ UpdateCertificateOptions \/ UpdateCertificateOptionsFails
         \/ LateInitialize \/ LateInitializeFails
  PROVE  Accounting'
<1> USE DEF Accounting, PassFollowsResource, LatestARN, NothingLeft, Managed,
            EveryCertificateAccounted, Unrecorded, Exists
<1>0. desired \in Resource /\ latest \in Resource
  BY DEF TypeOK
<1>1. CASE ExportCertificate
  BY <1>1 DEF ExportCertificate
<1>2. CASE WriteCertificate
  BY <1>2 DEF WriteCertificate
<1>3. CASE WriteKey
  <2>1. latest'.status.arn = desired.status.arn
    BY <1>0, <1>3, MergeUpdatedType, OnSuccessType DEF WriteKey
  <2> QED
    BY <1>3, <2>1 DEF WriteKey
<1>4. CASE ExportFails
  <2>1. \E e \in Errors : FinishError(latest, e)
    BY <1>4, FailedCalls
  <2>2. pc' = "patchStatus" /\ desired' = desired /\ latest'.status.arn = latest.status.arn
    BY <1>0, <2>1, FinishErrorARN
  <2>3. pc \in {"update", "writeCrt", "writeKey"} /\ UNCHANGED <<cr, acm, lost>>
    BY <1>4 DEF ExportFails
  <2> QED
    BY <2>2, <2>3
<1>5. CASE SyncTags
  <2>1. \A a \in ARNs : acm'[a].state = acm[a].state
    BY <1>5 DEF TypeOK, ACMCertificate, SyncTags
  <2>2. cr.status.arn \in ARNs \cup {0}
    BY CertificateAssumption DEF TypeOK, CustomResource, CertificateStatus, ARNs
  <2>3. pc = "update" /\ pc' = "afterTags" /\ UNCHANGED <<cr, latest, desired, lost>>
    BY <1>5 DEF SyncTags, Goto
  <2> QED
    BY <2>1, <2>2, <2>3
<1>6. CASE SyncTagsFails
  <2>1. \A a \in ARNs : acm'[a].state = acm[a].state
    BY <1>6 DEF TypeOK, ACMCertificate, SyncTagsFails
  <2>2. cr.status.arn \in ARNs \cup {0}
    BY CertificateAssumption DEF TypeOK, CustomResource, CertificateStatus, ARNs
  <2>3. \E e \in Errors : FinishError(latest, e)
    BY <1>6, FailedCalls
  <2>4. pc' = "patchStatus" /\ desired' = desired /\ latest'.status.arn = latest.status.arn
    BY <1>0, <2>3, FinishErrorARN
  <2>5. pc = "update" /\ UNCHANGED <<cr, lost>>
    BY <1>6 DEF SyncTagsFails
  <2> QED
    BY <2>1, <2>2, <2>4, <2>5
<1>7. CASE UpdateReturnsDesired
  <2>1. pc' = "lateInit" /\ desired' = desired /\ latest'.status.arn = desired.status.arn
    BY <1>0, <1>7, OnSuccessType DEF UpdateReturnsDesired, Goto
  <2>2. pc \in {"update", "afterTags"} /\ UNCHANGED <<cr, acm, lost>>
    BY <1>7 DEF UpdateReturnsDesired, tagsDone
  <2> QED
    BY <2>1, <2>2
<1>8. CASE UpdateRefusesImported
  <2>1. pc' = "patchStatus" /\ desired' = desired /\ latest'.status.arn = latest.status.arn
    BY <1>0, <1>8, FinishErrorARN DEF UpdateRefusesImported
  <2>2. pc \in {"update", "afterTags"} /\ UNCHANGED <<cr, acm, lost>>
    BY <1>8 DEF UpdateRefusesImported, tagsDone
  <2> QED
    BY <2>1, <2>2
<1>9. CASE UpdateCertificateOptions
  <2>1. \A a \in ARNs : acm'[a].state = acm[a].state
    BY <1>9 DEF TypeOK, ACMCertificate, UpdateCertificateOptions, newOptions
  <2>2. cr.status.arn \in ARNs \cup {0}
    BY CertificateAssumption DEF TypeOK, CustomResource, CertificateStatus, ARNs
  <2>3. mergeUpdated(desired, latest) \in Resource
        /\ mergeUpdated(desired, latest).status.arn = desired.status.arn
    BY <1>0, MergeUpdatedType
  <2>4. pc \in {"update", "afterTags"} /\ UNCHANGED <<cr, lost>>
    BY <1>9 DEF UpdateCertificateOptions, mustUpdateOptions, tagsDone
  <2>5. \/ Goto("lateInit", onSuccess(mergeUpdated(desired, latest)))
        \/ FinishError(latest, "recoverable")
    BY <1>9 DEF UpdateCertificateOptions
  <2>6. CASE Goto("lateInit", onSuccess(mergeUpdated(desired, latest)))
    <3>1. pc' = "lateInit" /\ desired' = desired /\ latest'.status.arn = desired.status.arn
      BY <2>3, <2>6, OnSuccessType DEF Goto
    <3> QED
      BY <2>1, <2>2, <2>4, <3>1
  <2>7. CASE FinishError(latest, "recoverable")
    <3>1. pc' = "patchStatus" /\ desired' = desired
          /\ latest'.status.arn = latest.status.arn
      BY <1>0, <2>7, FinishErrorARN
    <3> QED
      BY <2>1, <2>2, <2>4, <3>1
  <2> QED
    BY <2>5, <2>6, <2>7
<1>10. CASE UpdateCertificateOptionsFails
  <2>1. pc' = "patchStatus" /\ desired' = desired /\ latest'.status.arn = latest.status.arn
    BY <1>0, <1>10, FailedCalls, FinishErrorARN
  <2>2. pc \in {"update", "afterTags"} /\ UNCHANGED <<cr, acm, lost>>
    BY <1>10 DEF UpdateCertificateOptionsFails, mustUpdateOptions, tagsDone
  <2> QED
    BY <2>1, <2>2
<1>11. CASE LateInitialize
  <2> DEFINE obs == ReadOne(latest, acm[latest.status.arn])
             li  == lateInitializeFromReadOneOutput(obs, latest)
  <2>1. li \in Resource /\ li.status = latest.status
    BY <1>0, <1>11, ReadType, LateInitializeType DEF LateInitialize
  <2>2. \E e, lc, sc : Finish([li EXCEPT !.conds.lateInit = lc, !.conds.synced = sc], e)
    BY <1>11 DEF LateInitialize
  <2>3. \/ \E sp : cr' = [cr EXCEPT !.spec = sp]
        \/ UNCHANGED cr
    BY <1>11 DEF LateInitialize
  <2>4. cr'.status = cr.status /\ cr'.phase = cr.phase /\ cr'.managed = cr.managed
    BY <2>3 DEF TypeOK, CustomResource
  <2>5. pc' = "patchStatus" /\ desired' = desired /\ latest'.status = latest.status
    <3> HIDE DEF li
    <3> QED
      BY <2>1, <2>2 DEF Finish, Resource
  <2>6. pc = "lateInit" /\ UNCHANGED <<acm, lost>>
    BY <1>11 DEF LateInitialize
  <2> QED
    BY <2>4, <2>5, <2>6
<1>12. CASE LateInitializeFails
  <2>1. pc' = "patchStatus" /\ desired' = desired /\ latest'.status = latest.status
    BY <1>0, <1>12 DEF LateInitializeFails, Finish, Resource
  <2> QED
    BY <1>12, <2>1 DEF LateInitializeFails
<1> QED
  BY <1>1, <1>2, <1>3, <1>4, <1>5, <1>6, <1>7, <1>8, <1>9, <1>10, <1>11, <1>12

\* A pass begins or ends, and deletes.
LEMMA AccountingEnds ==
  ASSUME TypeOK, Accounting, Begin \/ DeletePass \/ PatchStatus \/ PatchStatusFails
  PROVE  Accounting'
<1> USE DEF Accounting, PassFollowsResource, LatestARN, NothingLeft, Managed,
            EveryCertificateAccounted, Unrecorded, Exists
<1>0. desired \in Resource /\ latest \in Resource
  BY DEF TypeOK
<1>1. CASE Begin
  BY <1>1 DEF Begin
<1>2. CASE DeleteRead
  <2>1. CASE Exists(desired.status.arn)
    <3>1. pc' = "delete" /\ desired' = desired /\ latest'.status.arn = desired.status.arn
      BY <1>0, <1>2, <2>1, ReadType DEF DeleteRead, Goto
    <3> QED
      BY <1>2, <3>1 DEF DeleteRead
  <2>2. CASE ~Exists(desired.status.arn)
    BY <1>2, <2>2 DEF DeleteRead, Goto
  <2> QED
    BY <2>1, <2>2
<1>3. CASE DeleteReadFault
  <2>1. /\ pc' = "patchStatus" /\ desired' = desired
        /\ latest'.status.arn = desired.status.arn
    BY <1>0, <1>3, FailedCalls, FinishErrorARN
  <2> QED
    BY <1>3, <2>1 DEF DeleteReadFault
<1>4. CASE DeleteCertificate
  <2>1. \A a \in ARNs : acm'[a].state = IF a = ownARN THEN "NONE" ELSE acm[a].state
    BY <1>4 DEF TypeOK, ACMCertificate, DeleteCertificate
  <2>2. cr.status.arn \in ARNs \cup {0}
    BY CertificateAssumption DEF TypeOK, CustomResource, CertificateStatus, ARNs
  <2>3. pc = "delete" /\ ownARN = cr.status.arn /\ UNCHANGED <<cr, lost>>
    BY <1>4 DEF DeleteCertificate, ownARN
  <2>4. ~Exists(cr.status.arn)'
    BY <2>1, <2>2, <2>3
  <2>5. desired' = desired /\ latest'.status.arn = latest.status.arn
        /\ pc' \in {"unmanage", "patchStatus"}
    BY <1>0, <1>4, FinishErrorARN DEF DeleteCertificate, Goto
  <2> QED
    BY <2>1, <2>2, <2>3, <2>4, <2>5
<1>5. CASE DeleteCertificateFails
  <2>1. pc' = "patchStatus" /\ desired' = desired /\ latest'.status.arn = latest.status.arn
    BY <1>0, <1>5, FailedCalls, FinishErrorARN
  <2> QED
    BY <1>5, <2>1 DEF DeleteCertificateFails
<1>6. CASE MarkUnmanaged
  <2>1. pc' = "idle" /\ latest'.status.arn = 0
    BY <1>6, IdleType DEF MarkUnmanaged
  <2>2. Unrecorded = {}
    BY <1>6 DEF MarkUnmanaged
  <2>3. CASE UNCHANGED cr
    BY <1>6, <2>1, <2>2, <2>3 DEF MarkUnmanaged
  <2>4. CASE cr' = [cr EXCEPT !.phase = "gone", !.managed = FALSE, !.status = NoStatus,
                              !.conds = NoConditions]
    <3>1. ~cr'.managed /\ cr'.status.arn = 0
      BY <2>4 DEF TypeOK, CustomResource, NoStatus
    <3> QED
      BY <1>6, <2>1, <2>2, <3>1 DEF MarkUnmanaged
  <2> QED
    BY <1>6, <2>3, <2>4 DEF MarkUnmanaged
<1>7. CASE PatchStatus
  <2>1. pc' = "idle" /\ latest'.status.arn = 0
    BY <1>7, IdleType DEF PatchStatus
  <2>2. CASE cr.phase = "gone"
    BY <1>7, <2>1, <2>2 DEF PatchStatus
  <2>3. CASE cr.phase # "gone"
    <3>1. /\ cr'.status = latest.status
          /\ cr'.phase = cr.phase
          /\ cr'.managed = cr.managed
      BY <1>7, <2>3 DEF PatchStatus, TypeOK, CustomResource
    <3> QED
      BY <1>7, <2>1, <3>1 DEF PatchStatus
  <2> QED
    BY <2>2, <2>3
<1>8. CASE PatchStatusFails
  <2>1. pc' = "idle" /\ latest'.status.arn = 0
    BY <1>8, IdleType DEF PatchStatusFails
  <2> QED
    BY <1>8, <2>1 DEF PatchStatusFails
<1> QED
  BY <1>1, <1>2, <1>3, <1>4, <1>5, <1>6, <1>7, <1>8 DEF DeletePass

\* Users, ACM and restarts.
LEMMA AccountingEnvironment ==
  ASSUME TypeOK, Accounting, Environment
  PROVE  Accounting'
<1> USE DEF Accounting, PassFollowsResource, LatestARN, NothingLeft, Managed,
            EveryCertificateAccounted, Unrecorded, Exists
<1>0. desired \in Resource /\ latest \in Resource
  BY DEF TypeOK
<1>00. cr.status.arn \in ARNs \cup {0}
  BY CertificateAssumption DEF TypeOK, CustomResource, CertificateStatus, ARNs
<1>1. CASE UserCreates
  <2>1. cr'.status = cr.status /\ cr'.phase = "live" /\ cr'.managed = cr.managed
    BY <1>1 DEF UserCreates, TypeOK, CustomResource
  <2> QED
    BY <1>1, <2>1 DEF UserCreates, pass
<1>2. CASE UserEdits
  <2>1. cr'.status = cr.status /\ cr'.phase = cr.phase /\ cr'.managed = cr.managed
    BY <1>2 DEF UserEdits, TypeOK, CustomResource
  <2> QED
    BY <1>2, <2>1 DEF UserEdits, pass
<1>3. CASE UserDeletes
  <2>1. CASE cr.managed
    <3>1. cr'.status = cr.status /\ cr'.phase = "deleting" /\ cr'.managed = cr.managed
      BY <1>3, <2>1 DEF UserDeletes, TypeOK, CustomResource
    <3> QED
      BY <1>3, <3>1 DEF UserDeletes, pass
  <2>2. CASE ~cr.managed
    <3>1. cr'.status.arn = 0 /\ cr'.phase = "gone" /\ cr'.managed = cr.managed
      BY <1>3, <2>2 DEF UserDeletes, TypeOK, CustomResource, NoStatus
    <3>2. cr.status.arn = 0 /\ latest.status.arn = 0
      BY <2>2
    <3> QED
      BY <1>3, <2>2, <3>1, <3>2 DEF UserDeletes, pass
  <2> QED
    BY <2>1, <2>2
<1>4. CASE UserRotatesMaterial
  BY <1>4 DEF UserRotatesMaterial, pass
<1>5. ASSUME NEW a \in ARNs, ACMIssues(a) \/ ACMEnds(a)
      PROVE  Accounting'
  <2>1. \A b \in ARNs : acm'[b].state = "NONE" <=> acm[b].state = "NONE"
    BY <1>5 DEF TypeOK, ACMCertificate, ACMIssues, ACMEnds
  <2> QED
    BY <1>00, <1>5, <2>1 DEF ACMIssues, ACMEnds, pass
<1>6. ASSUME NEW a \in ARNs, ExternalDelete(a)
      PROVE  Accounting'
  <2>1. \A b \in ARNs : acm[b].state = "NONE" => acm'[b].state = "NONE"
    BY <1>6 DEF TypeOK, ACMCertificate, ExternalDelete
  <2> QED
    BY <1>00, <1>6, <2>1 DEF ExternalDelete, pass
<1>7. CASE Crash
  <2>1. pc' = "idle" /\ latest'.status.arn = 0
    BY <1>7, IdleType DEF Crash
  <2> QED
    BY <1>7, <2>1 DEF Crash
<1> QED
  BY <1>1, <1>2, <1>3, <1>4, <1>5, <1>6, <1>7 DEF Environment

\* Every step of the system keeps the certificates accounted for.
LEMMA AccountingStep ==
  ASSUME TypeOK, Accounting, [Next]_vars
  PROVE  Accounting'
<1>1. CASE CreateImport \/ CreateRequest
  BY <1>1, AccountingCreate DEF CreateImport, CreateRequest
<1>2. CASE UNCHANGED vars
  BY <1>2 DEF vars, Accounting, PassFollowsResource, LatestARN, NothingLeft, Managed,
              EveryCertificateAccounted, Unrecorded, Exists
<1> QED
  BY <1>1, <1>2, AccountingRead, AccountingUpdate, AccountingEnds, AccountingEnvironment
  DEF Next, Controller, LivePass

\* Initially there is no certificate.
LEMMA AccountingInit == Init => Accounting
<1> SUFFICES ASSUME Init PROVE Accounting
  OBVIOUS
<1>1. cr.status.arn = 0 /\ ~cr.managed
  BY DEF Init, NoStatus
<1>2. latest.status.arn = 0 /\ pc = "idle"
  BY NoResourceType DEF Init
<1>3. \A a \in ARNs : acm[a].state = "NONE"
  BY DEF Init, NoCertificate
<1> QED
  BY <1>1, <1>2, <1>3
  DEF Accounting, PassFollowsResource, LatestARN, NothingLeft, Managed,
      EveryCertificateAccounted, Unrecorded, Exists

-----------------------------------------------------------------------------
(* How many certificates can be left behind.                               *)

\* There are finitely many ARNs.
LEMMA ARNsFinite == IsFiniteSet(ARNs)
  BY FS_Interval, CertificateAssumption DEF ARNs

\* A set of ARNs has a size.
LEMMA LostSize ==
  ASSUME NEW S \in SUBSET ARNs
  PROVE  IsFiniteSet(S) /\ Cardinality(S) \in Nat
  BY ARNsFinite, FS_Subset, FS_CardinalityType

\* One more loss is one more element at most.
LEMMA OneMoreLost ==
  ASSUME NEW S \in SUBSET ARNs, NEW x
  PROVE  /\ Cardinality(S \cup {x}) \in Nat
         /\ Cardinality(S \cup {x}) <= Cardinality(S) + 1
  BY LostSize, FS_AddElement, FS_CardinalityType

\* A loss is paid for by a failed call or a restart.
LEMMA LossesStep ==
  ASSUME TypeOK, LossesBounded, [Next]_vars
  PROVE  LossesBounded'
<1>0. /\ lost \in SUBSET ARNs
      /\ used \in Budgets
      /\ used.faults \in Nat
      /\ used.crashes \in Nat
      /\ Cardinality(lost) <= used.faults + used.crashes
  BY ReconcilerAssumption DEF TypeOK, Budgets, LossesBounded
<1>00. Cardinality(lost) \in Nat
  BY <1>0, LostSize
<1>1. \A x : /\ Cardinality(lost \cup {x}) \in Nat
             /\ Cardinality(lost \cup {x}) <= Cardinality(lost) + 1
  BY <1>0, OneMoreLost
<1>2. /\ Cardinality(lost \cup Unrecorded) \in Nat
      /\ Cardinality(lost \cup Unrecorded) <= Cardinality(lost) + 1
  <2>1. lost \cup Unrecorded = lost \/ lost \cup Unrecorded = lost \cup {latest.status.arn}
    BY DEF Unrecorded
  <2>2. CASE lost \cup Unrecorded = lost
    <3>1. Cardinality(lost) <= Cardinality(lost) + 1
      BY <1>00
    <3> QED
      BY <1>00, <2>2, <3>1, Zenon
  <2>3. CASE lost \cup Unrecorded = lost \cup {latest.status.arn}
    BY <1>1, <2>3, Zenon
  <2> QED
    BY <2>1, <2>2, <2>3
<1>3. ASSUME NEW site, Fault(site)
      PROVE  used'.faults = used.faults + 1 /\ used'.crashes = used.crashes
  BY <1>3, FaultType
<1>4. CASE CreateImport \/ CreateRequest
  <2>1. PICK c, site : Created(c, site)
    BY <1>4 DEF CreateImport, CreateRequest
  <2>2. \/ UNCHANGED <<used, lost>>
        \/ Fault(site) /\ lost' = lost \cup {arns + 1}
    BY <2>1 DEF Created
  <2>3. CASE UNCHANGED <<used, lost>>
    BY <1>0, <2>3 DEF LossesBounded
  <2>4. CASE Fault(site) /\ lost' = lost \cup {arns + 1}
    <3>1. used'.faults = used.faults + 1 /\ used'.crashes = used.crashes
      BY <1>3, <2>4
    <3>2. Cardinality(lost') \in Nat /\ Cardinality(lost') <= Cardinality(lost) + 1
      BY <1>1, <2>4, Zenon
    <3> QED
      BY <1>0, <1>00, <3>1, <3>2 DEF LossesBounded
  <2> QED
    BY <2>2, <2>3, <2>4
<1>5. CASE PatchStatusFails
  <2>1. used'.faults = used.faults + 1 /\ used'.crashes = used.crashes
    BY <1>3, <1>5 DEF PatchStatusFails
  <2>2. lost' = lost \cup Unrecorded
    BY <1>5 DEF PatchStatusFails
  <2> QED
    BY <1>0, <1>00, <1>2, <2>1, <2>2 DEF LossesBounded
<1>6. CASE Crash
  <2>1. used'.crashes = used.crashes + 1 /\ used'.faults = used.faults
    BY <1>0, <1>6 DEF Crash, Budgets
  <2>2. lost' = lost \cup Unrecorded
    BY <1>6 DEF Crash
  <2> QED
    BY <1>0, <1>00, <1>2, <2>1, <2>2 DEF LossesBounded
<1>7. ASSUME lost' = lost,
             \/ used' = used
             \/ \E site : Fault(site)
             \/ used' = [used EXCEPT !.edits = @ + 1]
             \/ used' = [used EXCEPT !.deletes = @ + 1]
      PROVE  LossesBounded'
  <2>1. used'.faults \in {used.faults, used.faults + 1} /\ used'.crashes = used.crashes
    BY <1>0, <1>3, <1>7 DEF Budgets
  <2> QED
    BY <1>0, <1>00, <1>7, <2>1 DEF LossesBounded
<1>8. CASE \/ ReadNotFound \/ ReadFound \/ ReadFault \/ MarkManaged \/ MarkManagedFails
           \/ CreateRejected \/ CreateFails \/ ReadBack \/ ReadBackFails
  BY <1>7, <1>8
  DEF ReadNotFound, ReadFound, ReadFault, MarkManaged, MarkManagedFails, CreateRejected,
      CreateFails, ReadBack, ReadBackFails
<1>9. CASE \/ ExportCertificate \/ WriteCertificate \/ WriteKey \/ ExportFails
           \/ SyncTags \/ SyncTagsFails \/ UpdateReturnsDesired \/ UpdateRefusesImported
           \/ UpdateCertificateOptions \/ UpdateCertificateOptionsFails
           \/ LateInitialize \/ LateInitializeFails
  BY <1>7, <1>9
  DEF ExportCertificate, WriteCertificate, WriteKey, ExportFails, SyncTags, SyncTagsFails,
      UpdateReturnsDesired, UpdateRefusesImported, UpdateCertificateOptions,
      UpdateCertificateOptionsFails, LateInitialize, LateInitializeFails
<1>10. CASE Begin \/ DeletePass \/ PatchStatus
  BY <1>7, <1>10
  DEF Begin, DeletePass, PatchStatus, DeleteRead, DeleteReadFault, DeleteCertificate,
      DeleteCertificateFails, MarkUnmanaged
<1>11. CASE \/ UserCreates \/ UserEdits \/ UserDeletes \/ UserRotatesMaterial
            \/ \E a \in ARNs : ACMIssues(a) \/ ACMEnds(a) \/ ExternalDelete(a)
  BY <1>7, <1>11
  DEF UserCreates, UserEdits, UserDeletes, UserRotatesMaterial, ACMIssues, ACMEnds,
      ExternalDelete
<1>12. CASE UNCHANGED vars
  BY <1>12 DEF vars, LossesBounded
<1> QED
  BY <1>4, <1>5, <1>6, <1>8, <1>9, <1>10, <1>11, <1>12
  DEF Next, Controller, LivePass, Environment

-----------------------------------------------------------------------------
(* The theorems.                                                           *)

\* The inductive invariant holds throughout.
THEOREM Invariance == Spec => []IInv
<1>1. Init => IInv
  <2>1. Init => LossesBounded
    BY FS_EmptySet DEF Init, LossesBounded
  <2> QED
    BY <2>1, TypeInit, AccountingInit DEF IInv
<1>2. IInv /\ [Next]_vars => IInv'
  BY TypeStep, AccountingStep, LossesStep DEF IInv
<1> QED
  BY <1>1, <1>2, PTL DEF Spec

\* For any number of failed calls, restarts, edits and external deletions, a
\* certificate that exists in ACM is recorded, in the hands of the pass, or
\* one whose creation was lost to a failure (sdkCreate, sdkDelete, the status
\* patch).
THEOREM CertificatesAccounted == Spec => []EveryCertificateAccounted
<1>1. IInv => EveryCertificateAccounted
  BY DEF IInv, Accounting
<1> QED
  BY <1>1, Invariance, PTL

\* However long the controller runs, it leaves behind at most as many
\* certificates as there were failed calls and restarts.
THEOREM LeaksBounded == Spec => []LeakNeedsFailure
<1>1. IInv => LeakNeedsFailure
  <2> SUFFICES ASSUME IInv PROVE LeakNeedsFailure
    OBVIOUS
  <2> DEFINE left == {a \in ARNs : Exists(a) /\ a # cr.status.arn /\ a \notin Unrecorded}
  <2>1. left \subseteq lost
    BY DEF IInv, Accounting, EveryCertificateAccounted
  <2>2. IsFiniteSet(lost)
    BY ARNsFinite, FS_Subset DEF IInv, TypeOK
  <2>3. Cardinality(left) <= Cardinality(lost) /\ Cardinality(left) \in Nat
    BY <2>1, <2>2, FS_Subset, FS_CardinalityType
  <2>4. Cardinality(lost) \in Nat /\ used.faults \in Nat /\ used.crashes \in Nat
    BY <2>2, FS_CardinalityType, ReconcilerAssumption DEF IInv, TypeOK, Budgets
  <2>5. Cardinality(lost) <= used.faults + used.crashes
    BY DEF IInv, LossesBounded
  <2> HIDE DEF left
  <2>6. Cardinality(left) <= used.faults + used.crashes
    BY <2>3, <2>4, <2>5
  <2> QED
    BY <2>6 DEF left, LeakNeedsFailure
<1> QED
  BY <1>1, Invariance, PTL

\* A resource that has, or is about to have, a certificate has the finalizer
\* and is there, whatever users do meanwhile (MarkManaged before Create).
THEOREM FinalizerStays == Spec => []FinalizerProtects
<1>1. IInv => FinalizerProtects
  BY DEF IInv, Accounting, Managed, FinalizerProtects, Unrecorded, Exists
<1> QED
  BY <1>1, Invariance, PTL

\* sdkCreate never runs while the recorded certificate exists.
THEOREM CreatesWhenGone == Spec => CreateOnlyWhenGone
<1>1. IInv /\ [Next]_vars => [arns' # arns => ~Exists(cr.status.arn)]_vars
  <2> SUFFICES ASSUME IInv, Next, arns' # arns
               PROVE  ~Exists(cr.status.arn)
    BY DEF vars
  <2>1. pc = "create"
    BY DEF Next, Controller, LivePass, DeletePass, Environment, Begin, ReadNotFound,
           ReadFound, ReadFault, MarkManaged, MarkManagedFails, CreateRejected,
           CreateImport, CreateRequest, CreateFails, ReadBack, ReadBackFails,
           ExportCertificate, WriteCertificate, WriteKey, ExportFails, SyncTags,
           SyncTagsFails, UpdateReturnsDesired, UpdateRefusesImported,
           UpdateCertificateOptions, UpdateCertificateOptionsFails, LateInitialize,
           LateInitializeFails, PatchStatus, PatchStatusFails, DeleteRead,
           DeleteReadFault, DeleteCertificate, DeleteCertificateFails, MarkUnmanaged,
           UserCreates, UserEdits, UserDeletes, UserRotatesMaterial, ACMIssues,
           ACMEnds, ExternalDelete, Crash
  <2> QED
    BY <2>1 DEF IInv, Accounting, NothingLeft
<1> QED
  BY <1>1, Invariance, PTL DEF Spec, CreateOnlyWhenGone
=============================================================================
