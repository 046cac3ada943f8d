------------------------------ MODULE PassProofs ------------------------------
(***************************************************************************)
(* Proofs about the passes of Reconciler for all values of its constants:  *)
(* imported certificates keep their options, late initialization fills     *)
(* gaps only, and a resource that is parked says so.                       *)
(***************************************************************************)
EXTENDS ReconcilerProofs

USE DEF Errors, Failures

\* ARNs not given out yet are free.
FreshARNs == \A a \in ARNs : a > arns => ~Exists(a)

\* sdkUpdate knows what type of certificate it is about to change.
ObservedType ==
  pc \in {"update", "afterTags"}
    => latest.status.arn \in ARNs /\ latest.status.type = acm[latest.status.arn].type

\* The resource has every field that late initialization would fill in: it is
\* the observed one.  DomainValidationOptions are described only for a
\* certificate Amazon issued, so they may stay empty.
FilledIn(r) ==
  /\ r.spec.alg # Nil /\ r.spec.san # 0
  /\ r.spec.opts # Nil /\ r.spec.opts.export # Nil
  /\ r.status.arn \in ARNs
  /\ r.spec.dvo = 0 => acm[r.status.arn].type # "AMAZON_ISSUED"

\* What late initialization starts from: the Spec the pass read, or an
\* observation that leaves it nothing to do.
LateInitBase ==
  /\ pc = "readBack" => latest.spec = desired.spec
  /\ pc = "lateInit" => latest.spec = desired.spec \/ FilledIn(latest)

\* Options that were there when the pass read the Spec are there still.
OptionsStay == pc # "idle" /\ desired.spec.opts # Nil => cr.spec.opts # Nil

PassInv == FreshARNs /\ ObservedType /\ LateInitBase /\ OptionsStay

\* The end of a pass that will not be repeated carries the condition, or is one
\* of those that lose it.
TerminalIsSaid ==
  pc = "patchStatus" /\ err = "terminal"
    => latest.conds.terminal = "True" \/ forgone.condition

ParkInv == TerminalIsSaid /\ ParkedIsTerminal

LivePCs == {"read", "manage", "create", "readBack", "update", "afterTags",
            "writeCrt", "writeKey", "lateInit"}

-----------------------------------------------------------------------------
(* What the steps of a pass have in common.                                *)

\* onError with a terminal error sets the condition.
LEMMA OnErrorTerminal ==
  ASSUME NEW r \in Resource
  PROVE  onError(r, "terminal").conds.terminal = "True"
  BY DEF onError, updateConditions, Resource, Conditions

\* The end of a pass by an error: the resource it hands over, and the error.
LEMMA FinishErrorShape ==
  ASSUME NEW r \in Resource, NEW e \in Errors, FinishError(r, e)
  PROVE  /\ pc' = "patchStatus" /\ err' = e /\ UNCHANGED desired
         /\ latest'.status = r.status /\ latest'.spec = r.spec
         /\ e = "terminal" => latest'.conds.terminal = "True"
  BY OnErrorType, OnErrorTerminal DEF FinishError, Finish

\* The steps that change a certificate ACM has, besides sdkCreate.
LEMMA ACMSteps ==
  ASSUME [Next]_vars, ~CreateImport, ~CreateRequest
  PROVE  \/ UNCHANGED acm \/ SyncTags \/ SyncTagsFails \/ UpdateCertificateOptions
         \/ DeleteCertificate
         \/ \E b \in ARNs : ACMIssues(b) \/ ACMEnds(b) \/ ExternalDelete(b)
  BY DEF Next, Controller, LivePass, DeletePass, Environment, Begin, ReadNotFound, ReadFound,
         ReadFault, MarkManaged, MarkManagedFails, CreateRejected, CreateFails, ReadBack,
         ReadBackFails, ExportCertificate, WriteCertificate, WriteKey, ExportFails,
         UpdateReturnsDesired, UpdateRefusesImported, UpdateCertificateOptionsFails,
         LateInitialize, LateInitializeFails, PatchStatus, PatchStatusFails, DeleteRead,
         DeleteReadFault, DeleteCertificateFails, MarkUnmanaged, UserCreates, UserEdits,
         UserDeletes, UserRotatesMaterial, Crash, vars

\* Only sdkCreate gives an ARN another type, and nothing but it brings a
\* certificate to life.
LEMMA TypesFixed ==
  ASSUME TypeOK, [Next]_vars, ~CreateImport, ~CreateRequest
  PROVE  /\ arns' = arns
         /\ \A a \in ARNs : /\ acm'[a].type = acm[a].type
                            /\ acm'[a].state # "NONE" => acm[a].state # "NONE"
<1> USE DEF TypeOK, ACMCertificate
<1> DEFINE Goal == \A a \in ARNs : /\ acm'[a].type = acm[a].type
                                   /\ acm'[a].state # "NONE" => acm[a].state # "NONE"
<1>1. ASSUME UNCHANGED acm
      PROVE  Goal
  BY <1>1
<1>2. ASSUME SyncTags \/ SyncTagsFails
      PROVE  Goal
  <2>1. UNCHANGED acm \/ \E t : acm' = [acm EXCEPT ![ownARN].tags = t]
    BY <1>2 DEF SyncTags, SyncTagsFails
  <2> QED
    BY <2>1
<1>3. ASSUME UpdateCertificateOptions
      PROVE  Goal
  BY <1>3 DEF UpdateCertificateOptions, newOptions
<1>4. ASSUME DeleteCertificate
      PROVE  Goal
  BY <1>4 DEF DeleteCertificate
<1>5. ASSUME NEW b \in ARNs, ACMIssues(b) \/ ACMEnds(b) \/ ExternalDelete(b)
      PROVE  Goal
  BY <1>5 DEF ACMIssues, ACMEnds, ExternalDelete
<1>6. arns' = arns
  BY DEF Next, Controller, LivePass, DeletePass, Environment, Begin, ReadNotFound, ReadFound,
         ReadFault, MarkManaged, MarkManagedFails, CreateRejected, CreateFails, ReadBack,
         ReadBackFails, ExportCertificate, WriteCertificate, WriteKey, ExportFails,
         SyncTags, SyncTagsFails, UpdateCertificateOptions, DeleteCertificate,
         UpdateReturnsDesired, UpdateRefusesImported, UpdateCertificateOptionsFails,
         LateInitialize, LateInitializeFails, PatchStatus, PatchStatusFails, DeleteRead,
         DeleteReadFault, DeleteCertificateFails, MarkUnmanaged, UserCreates, UserEdits,
         UserDeletes, UserRotatesMaterial, Crash, vars, ACMIssues, ACMEnds, ExternalDelete
<1> QED
  BY <1>1, <1>2, <1>3, <1>4, <1>5, <1>6, ACMSteps

\* How a pass gets where it gets, and which steps leave its copy alone.
LEMMA PCFlow ==
  ASSUME [Next]_vars
  PROVE  /\ pc' \in {"update", "afterTags"} => ReadFound \/ SyncTags \/ UNCHANGED pass
         /\ pc' = "readBack" => CreateImport \/ CreateRequest \/ UNCHANGED pass
         /\ pc' = "lateInit" => \/ ReadFound \/ ReadBack \/ WriteKey \/ UpdateReturnsDesired
                                \/ UpdateCertificateOptions \/ UNCHANGED pass
         /\ Begin \/ pc' = "idle" \/ UNCHANGED desired
         /\ pc' # "idle" => Begin \/ pc # "idle"
         /\ UNCHANGED pass => ~CreateImport /\ ~CreateRequest
<1> USE DEF Goto, Finish, FinishError, Idle, Created, pass
<1>1. CASE LivePass
  BY <1>1
  DEF LivePass, ReadNotFound, ReadFound, ReadFault, MarkManaged, MarkManagedFails,
      CreateRejected, CreateImport, CreateRequest, CreateFails, ReadBack, ReadBackFails,
      ExportCertificate, WriteCertificate, WriteKey, ExportFails, SyncTags, SyncTagsFails,
      UpdateReturnsDesired, UpdateRefusesImported, UpdateCertificateOptions, tagsDone,
      mustUpdateOptions, UpdateCertificateOptionsFails, LateInitialize, LateInitializeFails
<1>2. CASE Begin \/ DeletePass \/ PatchStatus \/ PatchStatusFails
  BY <1>2
  DEF Begin, DeletePass, DeleteRead, DeleteReadFault, DeleteCertificate,
      DeleteCertificateFails, MarkUnmanaged, PatchStatus, PatchStatusFails,
      CreateImport, CreateRequest
<1>3. CASE Environment \/ UNCHANGED vars
  BY <1>3
  DEF Environment, UserCreates, UserEdits, UserDeletes, UserRotatesMaterial, ACMIssues,
      ACMEnds, ExternalDelete, Crash, vars, CreateImport, CreateRequest
<1> QED
  BY <1>1, <1>2, <1>3 DEF Next, Controller

\* A new ARN is one nobody had.
LEMMA FreshStep ==
  ASSUME TypeOK, FreshARNs, [Next]_vars
  PROVE  FreshARNs'
<1>1. CASE CreateImport \/ CreateRequest
  <2>1. PICK c, site : Created(c, site)
    BY <1>1 DEF CreateImport, CreateRequest
  <2>2. arns' = arns + 1 /\ acm' = [acm EXCEPT ![arns + 1] = c]
    BY <2>1 DEF Created
  <2> QED
    BY <2>2, CertificateAssumption DEF FreshARNs, Exists, TypeOK, ARNs
<1>2. CASE ~CreateImport /\ ~CreateRequest
  BY <1>2, TypesFixed DEF FreshARNs, Exists
<1> QED
  BY <1>1, <1>2

\* The type observed is the type the certificate keeps.
LEMMA ObservedTypeStep ==
  ASSUME TypeOK, ObservedType, [Next]_vars
  PROVE  ObservedType'
<1> SUFFICES ASSUME pc' \in {"update", "afterTags"}
             PROVE  latest'.status.arn \in ARNs
                    /\ latest'.status.type = acm'[latest'.status.arn].type
  BY DEF ObservedType
<1>0. desired \in Resource /\ latest \in Resource
  BY DEF TypeOK
<1>1. CASE ReadFound
  <2>1. latest' = ReadOne(desired, acm[desired.status.arn]) /\ UNCHANGED acm
        /\ Exists(desired.status.arn)
    BY <1>1 DEF ReadFound, Goto
  <2>2. desired.status.arn \in ARNs /\ acm[desired.status.arn] \in ACMCertificate
    BY <1>0, <2>1, ReadType
  <2>3. latest'.status = observedStatus(desired.status.arn, acm[desired.status.arn])
    BY <1>0, <2>1, <2>2, ReadOneType DEF Exists
  <2> QED
    BY <2>1, <2>2, <2>3 DEF observedStatus
<1>2. CASE SyncTags \/ UNCHANGED pass
  <2>1. UNCHANGED latest /\ pc \in {"update", "afterTags"}
    BY <1>2 DEF SyncTags, Goto, pass
  <2>2. ~CreateImport /\ ~CreateRequest
    BY <2>1 DEF CreateImport, CreateRequest
  <2> QED
    BY <2>1, <2>2, TypesFixed DEF ObservedType
<1> QED
  BY <1>1, <1>2, PCFlow

-----------------------------------------------------------------------------
(* The Spec under a pass.                                                  *)

\* What LateInitialize writes: a merge patch of what one more observation of
\* the certificate fills in.
LEMMA LateInitializeShape ==
  ASSUME TypeOK, LateInitialize
  PROVE  LET c == acm[latest.status.arn]
             o == observedSpec(latest.spec, c)
             n == lateInitializedSpec(o, latest.spec)
         IN /\ latest.status.arn \in ARNs
            /\ o \in CertificateSpec /\ o.opts # Nil
            /\ n \in CertificateSpec /\ n.opts # Nil
            /\ c.type # "AMAZON_ISSUED" => o.dvo = 0
            /\ cr'.spec = mergePatch(cr.spec, latest.spec, n) \/ UNCHANGED cr
            /\ cr'.phase = cr.phase /\ cr'.conds = cr.conds /\ cr'.status = cr.status
<1> DEFINE c == acm[latest.status.arn]
           o == observedSpec(latest.spec, c)
           n == lateInitializedSpec(o, latest.spec)
<1>0. latest \in Resource /\ latest.spec \in CertificateSpec /\ cr \in CustomResource
  BY DEF TypeOK, Resource
<1>1. latest.status.arn \in ARNs /\ c \in ACMCertificate /\ c.state # "NONE"
  BY <1>0, ReadType DEF LateInitialize, Exists
<1>2. ReadOne(latest, c).spec = o
  BY <1>0, <1>1, ReadOneType
<1>3. o \in CertificateSpec
  BY <1>0, <1>1, ObservedSpecType
<1>4. o.opts # Nil /\ (c.type # "AMAZON_ISSUED" => o.dvo = 0)
  <2>1. /\ o.opts = [ct |-> c.ct, export |-> c.export]
        /\ o.dvo = IF c.type = "AMAZON_ISSUED" THEN c.names ELSE 0
    BY <1>0 DEF observedSpec, CertificateSpec
  <2>2. [ct |-> c.ct, export |-> c.export] # Nil
    BY <1>1, NilAssumption DEF ACMCertificate, Preferences
  <2> QED
    BY <2>1, <2>2
<1>5. n \in CertificateSpec /\ n.opts # Nil
  BY <1>0, <1>3, <1>4, LateInitializedSpecType
<1>6. lateInitializeFromReadOneOutput(ReadOne(latest, c), latest).spec = n
  BY <1>0, <1>2 DEF lateInitializeFromReadOneOutput, Resource
<1>7. \/ UNCHANGED cr
      \/ cr' = [cr EXCEPT !.spec = mergePatch(@, latest.spec, n)]
  BY <1>6 DEF LateInitialize
<1> HIDE DEF n, o
<1>8. /\ cr'.spec = mergePatch(cr.spec, latest.spec, n) \/ UNCHANGED cr
      /\ cr'.phase = cr.phase /\ cr'.conds = cr.conds /\ cr'.status = cr.status
  BY <1>0, <1>7 DEF CustomResource
<1> QED
  BY <1>1, <1>3, <1>4, <1>5, <1>8 DEF n, o

\* An edit keeps what a Spec is made from, and the Options if there are any.
LEMMA EditedKeeps ==
  ASSUME NEW s \in CertificateSpec, NEW t \in edited(s)
  PROVE  /\ t.certificate = s.certificate
         /\ s.opts # Nil => t.opts # Nil
         /\ s.exportTo => t.exportTo
<1>1. ASSUME NEW p \in Preferences,
             t = [s EXCEPT !.opts = IF @ = Nil THEN [ct |-> p, export |-> Nil]
                                    ELSE [ct |-> p, export |-> @.export]]
      PROVE  /\ t.certificate = s.certificate /\ t.exportTo = s.exportTo
             /\ s.opts # Nil => t.opts # Nil
  <2>1. /\ t.certificate = s.certificate /\ t.exportTo = s.exportTo
        /\ s.opts # Nil => t.opts = [ct |-> p, export |-> s.opts.export]
    BY <1>1 DEF CertificateSpec
  <2>2. s.opts # Nil => [ct |-> p, export |-> s.opts.export] # Nil
    BY NilAssumption DEF CertificateSpec, CertificateOptions, Preferences
  <2> QED
    BY <2>1, <2>2
<1>2. ASSUME NEW d \in Domains, t = [s EXCEPT !.domain = d]
      PROVE  t.certificate = s.certificate /\ t.opts = s.opts /\ t.exportTo = s.exportTo
  BY <1>2 DEF CertificateSpec
<1>3. ASSUME NEW d \in TagSets, t = [s EXCEPT !.tags = d]
      PROVE  t.certificate = s.certificate /\ t.opts = s.opts /\ t.exportTo = s.exportTo
  BY <1>3 DEF CertificateSpec
<1>4. ASSUME t = [s EXCEPT !.exportTo = TRUE]
      PROVE  t.certificate = s.certificate /\ t.opts = s.opts /\ t.exportTo
  BY <1>4 DEF CertificateSpec
<1> QED
  BY <1>1, <1>2, <1>3, <1>4 DEF edited

\* Nothing turns an import into a request or back, and nothing takes away the
\* Options of the Spec or the secret to export to.
LEMMA SpecStays ==
  ASSUME TypeOK, [Next]_vars
  PROVE  /\ cr'.spec.certificate = cr.spec.certificate
         /\ cr.spec.opts # Nil => cr'.spec.opts # Nil
         /\ cr.spec.exportTo => cr'.spec.exportTo
<1>0. cr \in CustomResource /\ cr.spec \in CertificateSpec /\ latest.spec \in CertificateSpec
  BY DEF TypeOK, CustomResource, Resource
<1>1. CASE LateInitialize
  BY <1>0, <1>1, LateInitializeShape, MergePatchKeeps, MergePatchOptions
<1>2. CASE UserEdits
  <2>1. PICK t \in edited(cr.spec) : cr' = [cr EXCEPT !.spec = t]
    BY <1>2 DEF UserEdits
  <2>2. cr'.spec = t
    BY <1>0, <2>1 DEF CustomResource
  <2> QED
    BY <1>0, <2>2, EditedKeeps
<1>3. ~LateInitialize /\ ~UserEdits => cr'.spec = cr.spec
  BY <1>0
  DEF Next, Controller, LivePass, DeletePass, Environment, Begin, ReadNotFound, ReadFound,
      ReadFault, MarkManaged, MarkManagedFails, CreateRejected, CreateImport, CreateRequest,
      CreateFails, ReadBack, ReadBackFails, ExportCertificate, WriteCertificate, WriteKey,
      ExportFails, SyncTags, SyncTagsFails, UpdateReturnsDesired, UpdateRefusesImported,
      UpdateCertificateOptions, UpdateCertificateOptionsFails, LateInitializeFails,
      PatchStatus, PatchStatusFails, DeleteRead, DeleteReadFault, DeleteCertificate,
      DeleteCertificateFails, MarkUnmanaged, UserCreates, UserDeletes, UserRotatesMaterial,
      ACMIssues, ACMEnds, ExternalDelete, Crash, vars, CustomResource
<1> QED
  BY <1>1, <1>2, <1>3

\* Options in the pass's copy were read from the resource, which keeps them.
LEMMA OptionsStayStep ==
  ASSUME TypeOK, OptionsStay, [Next]_vars
  PROVE  OptionsStay'
<1>1. CASE Begin
  <2>1. desired'.spec = cr.spec /\ UNCHANGED cr
    BY <1>1 DEF Begin
  <2> QED
    BY <2>1 DEF OptionsStay
<1>2. CASE pc' = "idle"
  BY <1>2 DEF OptionsStay
<1>3. CASE ~Begin /\ pc' # "idle"
  BY <1>3, PCFlow, SpecStays DEF OptionsStay
<1> QED
  BY <1>1, <1>2, <1>3

\* An observation leaves late initialization nothing to do.
LEMMA ObservedIsFilledIn ==
  ASSUME TypeOK, NEW r \in Resource, Exists(r.status.arn)
  PROVE  FilledIn(ReadOne(r, acm[r.status.arn]))
<1> DEFINE c == acm[r.status.arn]
           o == ReadOne(r, c)
<1>1. r.status.arn \in ARNs /\ c \in ACMCertificate /\ c.state # "NONE"
  BY ReadType DEF Exists
<1>2. o.spec = observedSpec(r.spec, c) /\ o.status.arn = r.status.arn
      /\ o.spec \in CertificateSpec
  BY <1>1, ReadOneType DEF Resource
<1>3. /\ o.spec.alg = [family |-> c.family, sep |-> "-"]
      /\ o.spec.opts = [ct |-> c.ct, export |-> c.export]
      /\ o.spec.san = c.names
      /\ o.spec.dvo = IF c.type = "AMAZON_ISSUED" THEN c.names ELSE 0
  BY <1>2 DEF observedSpec, Resource, CertificateSpec
<1>4. /\ [ct |-> c.ct, export |-> c.export] # Nil
      /\ c.export # Nil /\ c.names # 0
  BY <1>1, NilAssumption DEF ACMCertificate, Preferences
<1>5. [family |-> c.family, sep |-> "-"] # Nil
  <2>1. [family |-> c.family, sep |-> "-"] \in [family : Families, sep : {"_", "-"}]
    BY <1>1 DEF ACMCertificate
  <2> QED
    BY <2>1, NilAlgorithmAssumption
<1> HIDE DEF o
<1> QED
  BY <1>1, <1>2, <1>3, <1>4, <1>5 DEF FilledIn, o

\* Late initialization starts from the Spec the pass read, whichever way it
\* gets there, or from an observation.
LEMMA LateInitBaseStep ==
  ASSUME TypeOK, LateInitBase, [Next]_vars
  PROVE  LateInitBase'
<1>0. desired \in Resource /\ latest \in Resource
  BY DEF TypeOK
<1>1. ASSUME UNCHANGED pass
      PROVE  LateInitBase'
  <2>1. UNCHANGED <<pc, desired, latest>>
    BY <1>1 DEF pass
  <2>2. \A a \in ARNs : acm'[a].type = acm[a].type
    BY <1>1, PCFlow, TypesFixed
  <2>3. FilledIn(latest) => FilledIn(latest)'
    BY <2>1, <2>2 DEF FilledIn
  <2> QED
    BY <2>1, <2>3 DEF LateInitBase
<1>2. ASSUME pc' = "readBack", CreateImport \/ CreateRequest
      PROVE  latest'.spec = desired'.spec
  <2>1. PICK c, site : Created(c, site)
    BY <1>2 DEF CreateImport, CreateRequest
  <2> DEFINE r == [desired EXCEPT !.status.arn = arns + 1]
  <2>2. latest' = onSuccess(r) /\ UNCHANGED desired /\ arns < MaxCerts
    BY <1>2, <2>1 DEF Created, Goto, FinishError, Finish
  <2>3. r \in Resource /\ r.spec = desired.spec
    BY <1>0, <2>2, CertificateAssumption DEF Resource, CertificateStatus, TypeOK
  <2> HIDE DEF r
  <2> QED
    BY <2>2, <2>3, OnSuccessType
<1>3. ASSUME ReadFound
      PROVE  FilledIn(latest)'
  <2>1. latest' = ReadOne(desired, acm[desired.status.arn]) /\ UNCHANGED acm
        /\ Exists(desired.status.arn)
    BY <1>3 DEF ReadFound, Goto
  <2> QED
    BY <1>0, <2>1, ObservedIsFilledIn DEF FilledIn
<1>4. ASSUME ReadBack
      PROVE  latest'.spec = desired'.spec
  <2> DEFINE obs == ReadOne(latest, acm[latest.status.arn])
  <2>1. latest' = [latest EXCEPT !.status = obs.status, !.conds = obs.conds]
        /\ UNCHANGED desired /\ pc = "readBack"
    BY <1>4 DEF ReadBack, Goto
  <2> HIDE DEF obs
  <2> QED
    BY <1>0, <2>1 DEF LateInitBase, Resource
<1>5. ASSUME WriteKey \/ UpdateReturnsDesired \/ UpdateCertificateOptions, pc' = "lateInit"
      PROVE  latest'.spec = desired'.spec
  <2>1. UNCHANGED desired /\ latest' \in {onSuccess(desired), onSuccess(mergeUpdated(desired, latest))}
    BY <1>5 DEF WriteKey, UpdateReturnsDesired, UpdateCertificateOptions, Goto, FinishError, Finish
  <2> DEFINE m == mergeUpdated(desired, latest)
  <2>2. m \in Resource /\ m.spec = desired.spec
    BY <1>0, MergeUpdatedType, MergeUpdatedFields
  <2> HIDE DEF m
  <2>3. onSuccess(desired).spec = desired.spec /\ onSuccess(m).spec = desired.spec
    BY <1>0, <2>2, OnSuccessType
  <2> QED
    BY <2>1, <2>3 DEF m
<1>6. UNCHANGED pass \/ (pc' = "readBack" => latest'.spec = desired'.spec)
  BY <1>2, PCFlow
<1>7. UNCHANGED pass \/ (pc' = "lateInit" => latest'.spec = desired'.spec \/ FilledIn(latest)')
  BY <1>3, <1>4, <1>5, PCFlow
<1> QED
  BY <1>1, <1>6, <1>7 DEF LateInitBase

\* What a pass knows of ACM and of the Spec stays right to its end.
THEOREM PassInvariance == Spec => []PassInv
<1>1. Init => PassInv
  BY DEF Init, PassInv, FreshARNs, ObservedType, LateInitBase, OptionsStay, Exists, NoCertificate
<1>2. IInv /\ PassInv /\ [Next]_vars => PassInv'
  BY FreshStep, ObservedTypeStep, LateInitBaseStep, OptionsStayStep DEF IInv, PassInv
<1> QED
  BY <1>1, <1>2, Invariance, PTL DEF Spec

-----------------------------------------------------------------------------
(* Imported certificates, and late initialization.                         *)

\* Only UpdateCertificateOptions changes options, and a creation those of an
\* ARN nobody had.
LEMMA OptionsOfOthers ==
  ASSUME TypeOK, [Next]_vars, ~UpdateCertificateOptions, ~CreateImport, ~CreateRequest,
         NEW a \in ARNs
  PROVE  acm'[a].ct = acm[a].ct /\ acm'[a].export = acm[a].export
<1> USE DEF TypeOK, ACMCertificate
<1>1. CASE UNCHANGED acm
  BY <1>1
<1>2. CASE SyncTags \/ SyncTagsFails
  <2>1. UNCHANGED acm \/ \E t : acm' = [acm EXCEPT ![ownARN].tags = t]
    BY <1>2 DEF SyncTags, SyncTagsFails
  <2> QED
    BY <2>1
<1>3. CASE DeleteCertificate
  BY <1>3 DEF DeleteCertificate
<1>4. ASSUME NEW b \in ARNs, ACMIssues(b) \/ ACMEnds(b) \/ ExternalDelete(b)
      PROVE  acm'[a].ct = acm[a].ct /\ acm'[a].export = acm[a].export
  BY <1>4 DEF ACMIssues, ACMEnds, ExternalDelete
<1> QED
  BY <1>1, <1>2, <1>3, <1>4, ACMSteps

\* sdkUpdate refuses to change an imported certificate by the type it observed
\* some calls ago, and the certificate is still of that type: no behaviour
\* changes the options of one.
THEOREM ImportsKeepOptions == Spec => ImportedOptionsFixed
<1> DEFINE Kept == \A a \in ARNs : Exists(a) /\ acm[a].type = "IMPORTED" =>
                     acm'[a].ct = acm[a].ct /\ acm'[a].export = acm[a].export
<1>1. ASSUME IInv, PassInv, [Next]_vars
      PROVE  Kept
  <2> USE <1>1
  <2>0. TypeOK
    BY DEF IInv
  <2>1. CASE UpdateCertificateOptions
    <3>1. /\ pc \in {"update", "afterTags"} /\ latest.status.type # "IMPORTED"
          /\ acm' = [acm EXCEPT ![latest.status.arn] =
                       newOptions(acm[latest.status.arn], desired.spec.opts)]
      BY <2>1 DEF UpdateCertificateOptions, mustUpdateOptions, tagsDone, imported, ownARN
    <3>2. acm[latest.status.arn].type # "IMPORTED"
      BY <3>1 DEF PassInv, ObservedType
    <3> QED
      BY <2>0, <3>1, <3>2 DEF TypeOK
  <2>2. CASE CreateImport \/ CreateRequest
    <3>1. PICK c : acm' = [acm EXCEPT ![arns + 1] = c]
      BY <2>2 DEF CreateImport, CreateRequest, Created
    <3>2. \A a \in ARNs : Exists(a) => a # arns + 1
      BY <2>0, CertificateAssumption DEF PassInv, FreshARNs, TypeOK, ARNs
    <3> QED
      BY <2>0, <3>1, <3>2 DEF TypeOK
  <2>3. CASE ~UpdateCertificateOptions /\ ~CreateImport /\ ~CreateRequest
    BY <2>0, <2>3, OptionsOfOthers
  <2> QED
    BY <2>1, <2>2, <2>3
<1>2. IInv /\ PassInv /\ [Next]_vars => [Kept]_vars
  BY <1>1
<1> QED
  BY <1>2, Invariance, PassInvariance, PTL DEF Spec, ImportedOptionsFixed

\* However the Spec was edited since the pass read it, late initialization
\* leaves every field alone that was set then: the base of its merge patch is
\* what the pass read, or needs no patch.
THEOREM LateInitializationSafe == Spec => LateInitializationFillsGaps
<1> DEFINE Gaps == pc = "lateInit" /\ pc' # pc =>
             LET was == desired.spec  now == cr.spec  then == cr'.spec
             IN /\ was.alg # Nil => then.alg = now.alg
                /\ was.san # 0 => then.san = now.san
                /\ was.dvo # 0 => then.dvo = now.dvo
                /\ was.opts # Nil => then.opts # Nil /\ then.opts.ct = now.opts.ct
                /\ was.opts # Nil /\ was.opts.export # Nil => then.opts.export = now.opts.export
                /\ <<then.domain, then.tags, then.exportTo>> = <<now.domain, now.tags, now.exportTo>>
<1>1. ASSUME IInv, PassInv, [Next]_vars, pc = "lateInit", pc' # pc
      PROVE  Gaps
  <2> USE <1>1
  <2>0. /\ TypeOK /\ cr.spec \in CertificateSpec /\ latest.spec \in CertificateSpec
        /\ desired.spec.opts # Nil => cr.spec.opts # Nil
    BY DEF IInv, TypeOK, CustomResource, Resource, PassInv, OptionsStay
  <2>1. CASE cr'.spec = cr.spec
    BY <2>0, <2>1
  <2>2. CASE cr'.spec # cr.spec
    <3> DEFINE o == observedSpec(latest.spec, acm[latest.status.arn])
               n == lateInitializedSpec(o, latest.spec)
    <3>1. LateInitialize
      BY <2>0, <2>2
      DEF Next, Controller, LivePass, DeletePass, Environment, Begin, ReadNotFound, ReadFound,
          ReadFault, MarkManaged, MarkManagedFails, CreateRejected, CreateImport, CreateRequest,
          CreateFails, ReadBack, ReadBackFails, ExportCertificate, WriteCertificate, WriteKey,
          ExportFails, SyncTags, SyncTagsFails, UpdateReturnsDesired, UpdateRefusesImported,
          UpdateCertificateOptions, UpdateCertificateOptionsFails, tagsDone, mustUpdateOptions,
          LateInitializeFails, PatchStatus, PatchStatusFails, DeleteRead, DeleteReadFault,
          DeleteCertificate, DeleteCertificateFails, MarkUnmanaged, UserCreates, UserEdits,
          UserDeletes, UserRotatesMaterial, ACMIssues, ACMEnds, ExternalDelete, Crash, pass, vars
    <3>2. /\ o \in CertificateSpec /\ n \in CertificateSpec /\ n.opts # Nil
          /\ acm[latest.status.arn].type # "AMAZON_ISSUED" => o.dvo = 0
          /\ cr'.spec = mergePatch(cr.spec, latest.spec, n)
      BY <2>0, <2>2, <3>1, LateInitializeShape
    <3> HIDE DEF o
    <3>3. /\ latest.spec.alg # Nil => n.alg = latest.spec.alg
          /\ latest.spec.san # 0 => n.san = latest.spec.san
          /\ latest.spec.dvo # 0 \/ o.dvo = 0 => n.dvo = latest.spec.dvo
          /\ latest.spec.opts # Nil /\ latest.spec.opts.export # Nil => n.opts = latest.spec.opts
      BY <2>0, <3>2, LateInitializedKeeps
    <3> HIDE DEF n
    <3>4. /\ n.alg = latest.spec.alg => cr'.spec.alg = cr.spec.alg
          /\ n.san = latest.spec.san => cr'.spec.san = cr.spec.san
          /\ n.dvo = latest.spec.dvo => cr'.spec.dvo = cr.spec.dvo
          /\ n.opts = latest.spec.opts => cr'.spec.opts = cr.spec.opts
          /\ cr'.spec.domain = cr.spec.domain /\ cr'.spec.tags = cr.spec.tags
          /\ cr'.spec.exportTo = cr.spec.exportTo
      BY <2>0, <3>2, MergePatchKeeps
    <3>5. CASE latest.spec = desired.spec
      <4>1. desired.spec.opts # Nil => cr'.spec.opts # Nil /\ cr'.spec.opts.ct = cr.spec.opts.ct
        BY <2>0, <3>2, <3>5, MergePatchOptions
      <4> QED
        BY <3>3, <3>4, <3>5, <4>1
    <3>6. CASE FilledIn(latest)
      BY <2>0, <3>2, <3>3, <3>4, <3>6 DEF FilledIn
    <3> QED
      BY <3>5, <3>6 DEF PassInv, LateInitBase
  <2> QED
    BY <2>1, <2>2
<1>2. IInv /\ PassInv /\ [Next]_vars => [Gaps]_vars
  BY <1>1
<1> QED
  BY <1>2, Invariance, PassInvariance, PTL DEF Spec, LateInitializationFillsGaps

-----------------------------------------------------------------------------
(* Resources that are not reconciled any more.                             *)

\* A step of a live pass goes on, hands over to the status patch, with the
\* condition if the error is terminal, or gives up and queues the resource.
LEMMA LiveShape ==
  ASSUME TypeOK, LivePass
  PROVE  /\ pc \in LivePCs
         /\ cr'.phase = cr.phase /\ cr'.conds = cr.conds
         /\ \/ pc' \in LivePCs /\ UNCHANGED queued
            \/ /\ pc' = "patchStatus" /\ UNCHANGED queued
               /\ err' = "terminal" => latest'.conds.terminal = "True" \/ forgone'.condition
            \/ pc' = "idle" /\ queued'
<1> DEFINE Stays == cr'.phase = cr.phase /\ cr'.conds = cr.conds
           Ends  == /\ pc' = "patchStatus" /\ UNCHANGED queued
                    /\ err' = "terminal" => latest'.conds.terminal = "True" \/ forgone'.condition
<1> USE DEF LivePCs
<1>0. desired \in Resource /\ latest \in Resource
  BY DEF TypeOK
<1>1. pc \in LivePCs
  BY DEF LivePass, ReadNotFound, ReadFound, ReadFault, MarkManaged, MarkManagedFails,
         CreateRejected, CreateImport, CreateRequest, CreateFails, ReadBack, ReadBackFails,
         ExportCertificate, WriteCertificate, WriteKey, ExportFails, SyncTags, SyncTagsFails,
         UpdateReturnsDesired, UpdateRefusesImported, UpdateCertificateOptions, tagsDone,
         mustUpdateOptions, UpdateCertificateOptionsFails, LateInitialize, LateInitializeFails
<1>2. Stays
  <2>1. CASE LateInitialize
    BY <2>1, LateInitializeShape
  <2>2. CASE MarkManaged
    BY <2>2 DEF MarkManaged, TypeOK, CustomResource
  <2> QED
    BY <2>1, <2>2
    DEF LivePass, ReadNotFound, ReadFound, ReadFault, MarkManagedFails,
        CreateRejected, CreateImport, CreateRequest, CreateFails, ReadBack, ReadBackFails,
        ExportCertificate, WriteCertificate, WriteKey, ExportFails, SyncTags, SyncTagsFails,
        UpdateReturnsDesired, UpdateRefusesImported, UpdateCertificateOptions,
        UpdateCertificateOptionsFails, LateInitializeFails
<1>3. CASE \E r \in Resource, e \in Errors : FinishError(r, e)
  <2>1. pc' = "patchStatus" /\ (err' = "terminal" => latest'.conds.terminal = "True")
    BY <1>3, FinishErrorShape
  <2>2. UNCHANGED queued
    BY <1>1, <2>1
    DEF LivePass, ReadNotFound, ReadFound, ReadFault, MarkManaged, MarkManagedFails, Idle,
        CreateRejected, CreateImport, CreateRequest, CreateFails, ReadBack, ReadBackFails,
        ExportCertificate, WriteCertificate, WriteKey, ExportFails, SyncTags, SyncTagsFails,
        UpdateReturnsDesired, UpdateRefusesImported, UpdateCertificateOptions,
        UpdateCertificateOptionsFails, LateInitialize, LateInitializeFails
  <2> QED
    BY <1>1, <1>2, <2>1, <2>2
<1>4. CASE ReadBackFails \/ LateInitialize \/ LateInitializeFails
  <2>1. pc' = "patchStatus" /\ UNCHANGED queued
    BY <1>4 DEF ReadBackFails, LateInitialize, LateInitializeFails, Finish
  <2>2. err' = "terminal" => \E e \in Failures : err' = e /\ ForgoCondition(e)
    BY <1>4 DEF ReadBackFails, LateInitialize, LateInitializeFails, Finish
  <2>3. err' = "terminal" => forgone'.condition
    BY <2>2 DEF ForgoCondition, TypeOK, Forgone
  <2> QED
    BY <1>1, <1>2, <2>1, <2>3
<1>5. CASE MarkManagedFails
  BY <1>1, <1>2, <1>5 DEF MarkManagedFails, Idle
<1>6. CASE ReadNotFound \/ ReadFound \/ MarkManaged \/ ReadBack \/ ExportCertificate
           \/ WriteCertificate \/ WriteKey \/ SyncTags \/ UpdateReturnsDesired
  <2>1. pc' \in LivePCs /\ UNCHANGED queued
    BY <1>6 DEF ReadNotFound, ReadFound, MarkManaged, ReadBack, ExportCertificate,
                WriteCertificate, WriteKey, SyncTags, UpdateReturnsDesired, Goto
  <2> QED
    BY <1>1, <1>2, <2>1
<1>7. CASE CreateImport \/ CreateRequest
  <2>1. (pc' = "readBack" /\ UNCHANGED queued) \/ FinishError(desired, "recoverable")
    BY <1>7 DEF CreateImport, CreateRequest, Created, Goto
  <2> QED
    BY <1>0, <1>1, <1>2, <1>3, <2>1
<1>8. CASE UpdateCertificateOptions
  <2>1. (pc' = "lateInit" /\ UNCHANGED queued) \/ FinishError(latest, "recoverable")
    BY <1>8 DEF UpdateCertificateOptions, Goto
  <2> QED
    BY <1>0, <1>1, <1>2, <1>3, <2>1
<1>9. CASE \/ ReadFault \/ CreateRejected \/ CreateFails \/ ExportFails \/ SyncTagsFails
           \/ UpdateRefusesImported \/ UpdateCertificateOptionsFails
  <2>1. \E r \in {desired, latest}, e \in Errors : FinishError(r, e)
    BY <1>9, FailedCalls DEF CreateRejected, UpdateRefusesImported
  <2> QED
    BY <1>0, <1>3, <2>1
<1> QED
  BY <1>4, <1>5, <1>6, <1>7, <1>8, <1>9 DEF LivePass

\* A step of a pass that deletes goes on, hands over, with the condition if the
\* error is terminal, queues the resource, or is its end.
LEMMA DeleteShape ==
  ASSUME TypeOK, DeletePass
  PROVE  /\ pc \in {"delRead", "delete", "unmanage"}
         /\ \/ pc' \in {"delete", "unmanage"} /\ UNCHANGED <<cr, queued>>
            \/ /\ pc' = "patchStatus" /\ UNCHANGED <<cr, queued>>
               /\ err' = "terminal" => latest'.conds.terminal = "True"
            \/ pc' = "idle" /\ ((queued' /\ UNCHANGED cr) \/ cr'.phase = "gone")
<1>0. desired \in Resource /\ latest \in Resource
  BY DEF TypeOK
<1>1. CASE DeleteRead
  BY <1>1 DEF DeleteRead, Goto
<1>2. CASE DeleteReadFault \/ DeleteCertificateFails
  <2>1. \E r \in Resource, e \in Errors : FinishError(r, e)
    BY <1>0, <1>2, FailedCalls
  <2> QED
    BY <1>2, <2>1, FinishErrorShape DEF DeleteReadFault, DeleteCertificateFails
<1>3. CASE DeleteCertificate
  <2>1. Goto("unmanage", latest) \/ FinishError(latest, "recoverable")
    BY <1>3 DEF DeleteCertificate
  <2> QED
    BY <1>0, <1>3, <2>1, FinishErrorShape DEF DeleteCertificate, Goto
<1>4. CASE MarkUnmanaged
  BY <1>4 DEF MarkUnmanaged, Idle, TypeOK, CustomResource
<1> QED
  BY <1>1, <1>2, <1>3, <1>4 DEF DeletePass

\* Every step keeps the promise of a parked resource.
LEMMA ParkStep ==
  ASSUME TypeOK, ParkInv, [Next]_vars
  PROVE  ParkInv'
<1> USE DEF ParkInv, TerminalIsSaid, ParkedIsTerminal, Parked
<1>0. queued \in BOOLEAN /\ cr \in CustomResource
  BY DEF TypeOK
<1>1. CASE LivePass
  BY <1>0, <1>1, LiveShape DEF LivePCs
<1>2. CASE DeletePass
  BY <1>0, <1>2, DeleteShape
<1>3. CASE Begin
  BY <1>0, <1>3 DEF Begin
<1>4. CASE PatchStatus
  <2>1. /\ pc = "patchStatus" /\ pc' = "idle" /\ queued' = (queued \/ err # "terminal")
        /\ UNCHANGED forgone
    BY <1>4 DEF PatchStatus, Idle, requeue
  <2>2. cr'.phase = cr.phase /\ (cr.phase = "live" => cr'.conds = latest.conds)
    BY <1>0, <1>4 DEF PatchStatus, CustomResource
  <2> QED
    BY <1>0, <2>1, <2>2
<1>5. CASE PatchStatusFails
  <2>1. pc' = "idle" /\ queued' = (queued \/ err # "terminal")
    BY <1>5 DEF PatchStatusFails, Idle, requeue
  <2>2. forgone'.condition = (err = "terminal")
    BY <1>5 DEF PatchStatusFails, ForgoCondition, TypeOK, Forgone
  <2> QED
    BY <1>0, <2>1, <2>2
<1>6. CASE UserCreates \/ UserEdits \/ UserDeletes
  <2>1. queued' /\ UNCHANGED <<pc, err, latest, forgone>>
    BY <1>6 DEF UserCreates, UserEdits, UserDeletes, pass
  <2> QED
    BY <2>1
<1>7. CASE Crash
  BY <1>7 DEF Crash, Idle
<1>8. CASE UserRotatesMaterial \/ UNCHANGED vars
           \/ \E a \in ARNs : ACMIssues(a) \/ ACMEnds(a) \/ ExternalDelete(a)
  <2>1. UNCHANGED <<cr, queued, pc, err, latest, forgone>>
    BY <1>8 DEF UserRotatesMaterial, ACMIssues, ACMEnds, ExternalDelete, pass, vars
  <2> QED
    BY <2>1
<1> QED
  BY <1>1, <1>2, <1>3, <1>4, <1>5, <1>6, <1>7, <1>8 DEF Next, Controller, Environment

\* A live resource that is never reconciled again has the Terminal condition:
\* an error that is not retried set it first (onError), no later step takes it
\* away without queueing the resource, and an edit during the pass does queue it.
\* The exceptions are the three ways the condition of the very last pass is lost,
\* any fault sites and terminal errors of any call included.
THEOREM ParkedSaysSo == Spec => []ParkedIsTerminal
<1>1. Init => ParkInv
  BY DEF Init, ParkInv, TerminalIsSaid, ParkedIsTerminal, Parked
<1>2. IInv /\ ParkInv /\ [Next]_vars => ParkInv'
  BY ParkStep DEF IInv
<1>3. ParkInv => ParkedIsTerminal
  BY DEF ParkInv
<1> QED
  BY <1>1, <1>2, <1>3, Invariance, PTL DEF Spec
=============================================================================
