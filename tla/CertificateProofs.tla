--------------------------- MODULE CertificateProofs ---------------------------
(***************************************************************************)
(* Lemmas about the operators of Certificate: what each of them does to    *)
(* the shape of a resource, and which fields it leaves alone.              *)
(***************************************************************************)
EXTENDS Certificate, TLAPS

USE DEF Errors

\* Conditions stay conditions (updateConditions).
LEMMA UpdateConditionsType ==
  ASSUME NEW conds \in Conditions, NEW ok \in BOOLEAN, NEW e \in Errors
  PROVE  updateConditions(conds, ok, e) \in Conditions
  BY DEF updateConditions, Conditions, ConditionStatus

\* onError touches the conditions and nothing else.
LEMMA OnErrorType ==
  ASSUME NEW r \in Resource, NEW e \in Errors
  PROVE  /\ onError(r, e) \in Resource
         /\ onError(r, e).spec = r.spec
         /\ onError(r, e).status = r.status
  BY UpdateConditionsType DEF onError, Resource

\* onSuccess touches the conditions and nothing else.
LEMMA OnSuccessType ==
  ASSUME NEW r \in Resource
  PROVE  /\ onSuccess(r) \in Resource
         /\ onSuccess(r).spec = r.spec
         /\ onSuccess(r).status = r.status
  BY UpdateConditionsType DEF onSuccess, Resource

\* What sdkFind puts into the Spec is a Spec.
LEMMA ObservedSpecType ==
  ASSUME NEW s \in CertificateSpec, NEW c \in ACMCertificate
  PROVE  observedSpec(s, c) \in CertificateSpec
<1> DEFINE ca   == c.type = "PRIVATE"
           dvo  == IF c.type = "AMAZON_ISSUED" THEN c.names ELSE 0
           alg  == [family |-> c.family, sep |-> "-"]
           opts == [ct |-> c.ct, export |-> c.export]
<1>1. ca \in BOOLEAN
  OBVIOUS
<1>2. /\ c.names \in 0..MaxNames
      /\ dvo \in 0..MaxNames
  BY CertificateAssumption DEF ACMCertificate
<1>3. alg \in KeyAlgorithms \cup {Nil}
  BY DEF ACMCertificate, KeyAlgorithms
<1>4. opts \in CertificateOptions \cup {Nil}
  BY DEF ACMCertificate, CertificateOptions
<1>5. /\ c.domain \in Domains \cup {Nil}
      /\ c.tags \in TagSets
  BY DEF ACMCertificate
<1>6. observedSpec(s, c) = [s EXCEPT !.ca = ca, !.domain = c.domain, !.dvo = dvo,
                                     !.alg = alg, !.opts = opts, !.san = c.names,
                                     !.tags = c.tags]
  BY DEF observedSpec
<1> HIDE DEF ca, dvo, alg, opts
<1> QED
  BY <1>1, <1>2, <1>3, <1>4, <1>5, <1>6 DEF CertificateSpec

\* ReadOne of a certificate that exists yields a resource under the same ARN.
LEMMA ReadOneType ==
  ASSUME NEW r \in Resource, NEW c \in ACMCertificate, c.state # "NONE"
  PROVE  /\ ReadOne(r, c) \in Resource
         /\ ReadOne(r, c).status = observedStatus(r.status.arn, c)
         /\ ReadOne(r, c).status.arn = r.status.arn
         /\ ReadOne(r, c).spec = observedSpec(r.spec, c)
<1> DEFINE o == [r EXCEPT !.spec = observedSpec(@, c),
                          !.status = observedStatus(@.arn, c)]
<1>1. observedSpec(r.spec, c) \in CertificateSpec
  BY ObservedSpecType DEF Resource
<1>2. observedStatus(r.status.arn, c) \in CertificateStatus
  BY DEF observedStatus, CertificateStatus, Resource, ACMCertificate, States
<1>3. /\ o \in Resource
      /\ o.spec = observedSpec(r.spec, c)
      /\ o.status = observedStatus(r.status.arn, c)
  BY <1>1, <1>2 DEF Resource
<1>4. observedStatus(r.status.arn, c).arn = r.status.arn
  BY DEF observedStatus
<1> QED
  BY <1>3, <1>4, OnSuccessType DEF ReadOne

\* The merge of sdkUpdate keeps the ARN of the desired resource.
LEMMA MergeUpdatedType ==
  ASSUME NEW d \in Resource, NEW l \in Resource
  PROVE  /\ mergeUpdated(d, l) \in Resource
         /\ mergeUpdated(d, l).status.arn = d.status.arn
  BY DEF mergeUpdated, Resource, CertificateStatus

\* Late initialization of a Spec gives a Spec, with Options when there are any
\* to take.
LEMMA LateInitializedSpecType ==
  ASSUME NEW o \in CertificateSpec, NEW l \in CertificateSpec, o.opts # Nil
  PROVE  /\ lateInitializedSpec(o, l) \in CertificateSpec
         /\ lateInitializedSpec(o, l).opts # Nil
<1> DEFINE alg  == IF l.alg = Nil THEN o.alg ELSE l.alg
           opts == IF l.opts = Nil THEN o.opts
                   ELSE IF l.opts.export = Nil
                        THEN withExport(l.opts, o.opts.export)
                   ELSE l.opts
           san  == IF l.san = 0 THEN o.san ELSE l.san
           dvo  == IF l.dvo = 0 THEN o.dvo ELSE l.dvo
<1>1. /\ alg \in KeyAlgorithms \cup {Nil}
      /\ san \in 0..MaxNames
      /\ dvo \in 0..MaxNames
  BY DEF CertificateSpec
<1>2. opts \in CertificateOptions \cup {Nil} /\ opts # Nil
  <2>1. /\ o.opts \in CertificateOptions
        /\ l.opts \in CertificateOptions \cup {Nil}
    BY DEF CertificateSpec
  <2>2. \A p \in CertificateOptions : withExport(p, o.opts.export) \in CertificateOptions
    BY <2>1 DEF withExport, CertificateOptions
  <2> QED
    BY <2>1, <2>2, NilAssumption DEF CertificateOptions, Preferences
<1>3. lateInitializedSpec(o, l)
        = [l EXCEPT !.alg = alg, !.opts = opts, !.san = san, !.dvo = dvo]
  BY DEF lateInitializedSpec, CertificateSpec
<1> HIDE DEF alg, opts, san, dvo
<1> QED
  BY <1>1, <1>2, <1>3 DEF CertificateSpec

\* Late initialization fills Spec fields only.
LEMMA LateInitializeType ==
  ASSUME NEW o \in Resource, NEW l \in Resource, o.spec.opts # Nil
  PROVE  /\ lateInitializeFromReadOneOutput(o, l) \in Resource
         /\ lateInitializeFromReadOneOutput(o, l).status = l.status
         /\ lateInitializeFromReadOneOutput(o, l).spec.opts # Nil
<1>1. o.spec \in CertificateSpec /\ l.spec \in CertificateSpec
  BY DEF Resource
<1> QED
  BY <1>1, LateInitializedSpecType DEF lateInitializeFromReadOneOutput, Resource

\* A merge patch of a Spec is a Spec.
LEMMA MergePatchType ==
  ASSUME NEW s \in CertificateSpec, NEW b \in CertificateSpec, NEW n \in CertificateSpec,
         n.opts # Nil \/ n.opts = b.opts
  PROVE  mergePatch(s, b, n) \in CertificateSpec
<1> DEFINE alg  == IF n.alg # b.alg THEN n.alg ELSE s.alg
           opts == IF n.opts = b.opts THEN s.opts
                   ELSE IF b.opts = Nil THEN n.opts
                   ELSE IF s.opts = Nil THEN [ct |-> Nil, export |-> n.opts.export]
                   ELSE withExport(s.opts, n.opts.export)
           san  == IF n.san # b.san THEN n.san ELSE s.san
           dvo  == IF n.dvo # b.dvo THEN n.dvo ELSE s.dvo
<1>1. /\ alg \in KeyAlgorithms \cup {Nil}
      /\ san \in 0..MaxNames
      /\ dvo \in 0..MaxNames
  BY DEF CertificateSpec
<1>2. opts \in CertificateOptions \cup {Nil}
  <2>1. /\ s.opts \in CertificateOptions \cup {Nil}
        /\ n.opts \in CertificateOptions \cup {Nil}
    BY DEF CertificateSpec
  <2>2. ASSUME n.opts \in CertificateOptions
        PROVE  /\ [ct |-> Nil, export |-> n.opts.export] \in CertificateOptions
               /\ \A p \in CertificateOptions : withExport(p, n.opts.export) \in CertificateOptions
    BY <2>2 DEF withExport, CertificateOptions
  <2> QED
    BY <2>1, <2>2
<1>3. mergePatch(s, b, n)
        = [s EXCEPT !.alg = alg, !.opts = opts, !.san = san, !.dvo = dvo]
  BY DEF mergePatch, CertificateSpec
<1> HIDE DEF alg, opts, san, dvo
<1> QED
  BY <1>1, <1>2, <1>3 DEF CertificateSpec

\* mergeUpdated takes the Spec, ARN and type of the first resource and the rest
\* of the Status of the second.
LEMMA MergeUpdatedFields ==
  ASSUME NEW d \in Resource, NEW l \in Resource
  PROVE  /\ mergeUpdated(d, l).spec = d.spec
         /\ mergeUpdated(d, l).status.type = d.status.type
         /\ mergeUpdated(d, l).status.serial = l.status.serial
         /\ mergeUpdated(d, l).status.issued = l.status.issued
  BY DEF mergeUpdated, Resource, CertificateStatus

\* Late initialization leaves the fields alone that are set, Options down to
\* the one nested field it fills.
LEMMA LateInitializedKeeps ==
  ASSUME NEW o \in CertificateSpec, NEW s \in CertificateSpec
  PROVE  LET n == lateInitializedSpec(o, s)
         IN /\ s.alg # Nil => n.alg = s.alg
            /\ s.san # 0 => n.san = s.san
            /\ s.dvo # 0 \/ o.dvo = 0 => n.dvo = s.dvo
            /\ s.opts # Nil /\ s.opts.export # Nil => n.opts = s.opts
  BY DEF lateInitializedSpec, CertificateSpec

\* A merge patch writes the four late-initialized fields at most, and of those
\* the ones that changed.
LEMMA MergePatchKeeps ==
  ASSUME NEW s \in CertificateSpec, NEW b \in CertificateSpec, NEW n \in CertificateSpec
  PROVE  LET m == mergePatch(s, b, n)
         IN /\ n.alg = b.alg => m.alg = s.alg
            /\ n.san = b.san => m.san = s.san
            /\ n.dvo = b.dvo => m.dvo = s.dvo
            /\ n.opts = b.opts => m.opts = s.opts
            /\ m.certificate = s.certificate /\ m.domain = s.domain
            /\ m.tags = s.tags /\ m.exportTo = s.exportTo
  BY DEF mergePatch, CertificateSpec

\* Options that are there survive a merge patch, and with a base that has
\* Options their transparency preference does, too.
LEMMA MergePatchOptions ==
  ASSUME NEW s \in CertificateSpec, NEW b \in CertificateSpec, NEW n \in CertificateSpec,
         n.opts # Nil, s.opts # Nil
  PROVE  LET m == mergePatch(s, b, n)
         IN /\ m.opts # Nil
            /\ b.opts # Nil => m.opts.ct = s.opts.ct
<1> DEFINE opts == IF n.opts = b.opts THEN s.opts
                   ELSE IF b.opts = Nil THEN n.opts
                   ELSE withExport(s.opts, n.opts.export)
<1>1. mergePatch(s, b, n).opts = opts
  BY DEF mergePatch, CertificateSpec
<1>2. s.opts \in CertificateOptions /\ n.opts \in CertificateOptions
  BY DEF CertificateSpec
<1>3. /\ withExport(s.opts, n.opts.export) \in CertificateOptions
      /\ withExport(s.opts, n.opts.export).ct = s.opts.ct
  BY <1>2 DEF withExport, CertificateOptions
<1>4. Nil \notin CertificateOptions
  BY NilAssumption DEF CertificateOptions, Preferences
<1>5. opts # Nil /\ (b.opts # Nil => opts.ct = s.opts.ct)
  BY <1>2, <1>3, <1>4
<1> HIDE DEF opts
<1> QED
  BY <1>1, <1>5
=============================================================================
