---------------------------- MODULE TagSyncProofs ----------------------------
(***************************************************************************)
(* Proofs about TagSync for any keys, values, limit and number of edits,   *)
(* foreign changes and faults.                                             *)
(***************************************************************************)
EXTENDS TagSync, FiniteSetTheorems, TLAPS

\* Nothing but tags of the user gets into the Spec.
SpecIsUsers == present(spec) \subseteq UserKeys

\* From the list on, the pass's copy and the list agree on the tags of AWS;
\* before it the copy has none.
AWSTagsMirrored ==
  /\ pc = "list" => \A k \in AWSKeys : desired[k] = Absent
  /\ pc \in {"remove", "add"} => \A k \in AWSKeys : desired[k] = latest[k]

\* What ACM holds under an undisturbed pass is what the pass listed, without
\* what it has removed since.
ListIsCurrent ==
  ~disturbed =>
    /\ pc = "remove" => acm = latest
    /\ pc = "add" => acm = afterRemove(latest, toDelete(desired, latest), latest)

\* Nobody but the controller has touched the Spec or the tags.
Quiet == used.edits = 0 /\ used.foreign = 0

\* The Spec of a managed resource, and every copy a pass makes of it or of
\* the list, has the user tags that were there first, up to a missing value.
CopiesAreOriginal ==
  Quiet => \A k \in UserKeys :
    /\ acm[k] = original[k]
    /\ managed => convertToOrderedACKTags(spec)[k] = convertToOrderedACKTags(original)[k]
    /\ pc = "list" => desired[k] = convertToOrderedACKTags(original)[k]
    /\ pc \in {"remove", "add", "adopt"} => latest[k] = original[k]
    /\ pc \in {"remove", "add"} => desired[k] = original[k]

IInv ==
  /\ TypeOK
  /\ SpecIsUsers
  /\ AWSTagsMirrored
  /\ ListIsCurrent
  /\ CopiesAreOriginal

-----------------------------------------------------------------------------
(* What the operators on tag lists return.                                 *)

\* Every operator that makes a tag list makes a tag list.
LEMMA TagListTypes ==
  ASSUME NEW t \in Tags, NEW u \in Tags, NEW S
  PROVE  /\ NoTags \in Tags
         /\ convertToOrderedACKTags(t) \in Tags
         /\ EnsureTags(t) \in Tags
         /\ FilterSystemTags(t) \in Tags
         /\ mirrorAWSTags(t, u) \in Tags
         /\ afterRemove(t, S, u) \in Tags
         /\ afterAdd(t, S, u) \in Tags
<1>1. NoTags \in Tags
  BY DEF NoTags, Tags, TagValues
<1>2. ASSUME NEW v \in Tags
      PROVE  convertToOrderedACKTags(v) \in Tags
  BY TagAssumption DEF convertToOrderedACKTags, Tags, TagValues
<1>3. EnsureTags(t) \in Tags
  BY <1>2, TagAssumption DEF EnsureTags, Tags, TagValues
<1>4. FilterSystemTags(t) \in Tags
  BY <1>2, TagAssumption DEF FilterSystemTags, ignoreSystemTags, Tags, TagValues
<1>5. mirrorAWSTags(t, u) \in Tags
  BY <1>2 DEF mirrorAWSTags, syncAWSTags, Tags
<1>6. afterRemove(t, S, u) \in Tags
  BY DEF afterRemove, Tags, TagValues
<1>7. afterAdd(t, S, u) \in Tags
  BY DEF afterAdd, Tags
<1> QED
  BY <1>1, <1>2, <1>3, <1>4, <1>5, <1>6, <1>7

\* The kinds of keys, and that a missing value becomes one that is not missing.
LEMMA KeysAndValues ==
  /\ UserKeys \subseteq Keys /\ AWSKeys \subseteq Keys /\ DefaultKeys \subseteq Keys
  /\ Empty # NoValue /\ Empty # Absent /\ NoValue # Absent
  /\ \A k \in UserKeys : k \notin AWSKeys /\ k \notin DefaultKeys
  /\ \A k \in AWSKeys : k \notin UserKeys /\ k \notin DefaultKeys
  BY TagAssumption DEF Keys

\* What SyncTags is called with after the mirror: for a user key the pass's
\* tag, for a key of AWS the listed one, and no listed tag without a value.
LEMMA Mirrored ==
  ASSUME NEW d \in Tags, NEW e \in Tags, NEW k \in Keys
  PROVE  LET m == mirrorAWSTags(d, e)
         IN /\ k \notin AWSKeys => m[k] = convertToOrderedACKTags(d)[k]
            /\ k \in AWSKeys /\ e[k] # Absent => m[k] = convertToOrderedACKTags(e)[k]
            /\ k \in AWSKeys /\ e[k] = Absent => m[k] = convertToOrderedACKTags(d)[k]
            /\ ~panics(m, e) => e[k] # NoValue
<1> DEFINE m == mirrorAWSTags(d, e)
<1>1. /\ k \notin AWSKeys => m[k] = convertToOrderedACKTags(d)[k]
      /\ k \in AWSKeys /\ e[k] # Absent => m[k] = convertToOrderedACKTags(e)[k]
      /\ k \in AWSKeys /\ e[k] = Absent => m[k] = convertToOrderedACKTags(d)[k]
  BY KeysAndValues DEF mirrorAWSTags, syncAWSTags, convertToOrderedACKTags
<1>2. ~panics(m, e) => e[k] # NoValue
  <2> HIDE DEF m
  <2> QED
    BY KeysAndValues DEF panics, toDelete, present
<1> QED
  BY <1>1, <1>2

\* Tags the two lists agree on are neither added nor removed.
LEMMA AgreedAreKept ==
  ASSUME NEW t \in Tags, NEW d \in Tags, NEW e \in Tags, NEW k \in Keys, d[k] = e[k]
  PROVE  /\ k \notin toAdd(d, e) /\ k \notin toDelete(d, e)
         /\ afterRemove(t, toDelete(d, e), e)[k] = t[k]
         /\ afterAdd(t, toAdd(d, e), d)[k] = t[k]
  BY DEF toAdd, toDelete, present, afterRemove, afterAdd

\* After the removal and the addition only desired tags are left, so they are
\* as many as the desired ones at most.
LEMMA SyncFits ==
  ASSUME NEW d \in Tags, NEW e \in Tags, fits(d)
  PROVE  fits(afterAdd(afterRemove(e, toDelete(d, e), e), toAdd(d, e), d))
<1> DEFINE t == afterAdd(afterRemove(e, toDelete(d, e), e), toAdd(d, e), d)
<1>1. present(t) \in SUBSET present(d)
  BY DEF present, afterAdd, afterRemove, toAdd, toDelete
<1>2. IsFiniteSet(present(d))
  <2>1. IsFiniteSet(Keys) /\ present(d) \in SUBSET Keys
    BY TagAssumption DEF present
  <2> QED
    BY <2>1, FS_Subset
<1> HIDE DEF t
<1>3. /\ Cardinality(present(t)) <= Cardinality(present(d))
      /\ Cardinality(present(t)) \in Nat /\ Cardinality(present(d)) \in Nat
  BY <1>1, <1>2, FS_Subset, FS_CardinalityType
<1> QED
  BY <1>3, TagAssumption DEF fits, t

\* After the removal and the addition the tags are the desired ones.
LEMMA SyncedTags ==
  ASSUME NEW d \in Tags, NEW e \in Tags
  PROVE  /\ afterAdd(afterRemove(e, toDelete(d, e), e), toAdd(d, e), d) = d
         /\ toAdd(d, e) = {} => afterRemove(e, toDelete(d, e), e) = d
<1>1. ASSUME NEW t \in Tags, \A k \in Keys : t[k] = d[k]
      PROVE  t = d
  BY <1>1 DEF Tags
<1>2. afterRemove(e, toDelete(d, e), e) \in Tags
  BY TagListTypes
<1>3. afterAdd(afterRemove(e, toDelete(d, e), e), toAdd(d, e), d) \in Tags
  BY <1>2, TagListTypes
<1>4. \A k \in Keys : afterAdd(afterRemove(e, toDelete(d, e), e), toAdd(d, e), d)[k] = d[k]
  BY DEF afterAdd, afterRemove, toAdd, toDelete, present
<1>5. toAdd(d, e) = {} => \A k \in Keys : afterRemove(e, toDelete(d, e), e)[k] = d[k]
  BY DEF afterRemove, toAdd, toDelete, present
<1> QED
  BY <1>1, <1>2, <1>3, <1>4, <1>5

-----------------------------------------------------------------------------
(* The invariant.                                                          *)

\* A pass starts from the tags of the Spec and the controller's.
LEMMA InitIInv == Init => IInv
<1> SUFFICES ASSUME Init PROVE IInv
  OBVIOUS
<1>1. spec \in Tags /\ acm \in Tags /\ NoTags \in Tags
  <2>1. NoTags \in Tags
    BY DEF NoTags, Tags, TagValues
  <2>2. spec \in Tags
    BY <2>1 DEF Init
  <2> QED
    BY <2>1, <2>2, TagListTypes DEF Init
<1>2. TypeOK
  <2>1. used \in [edits : 0..MaxEdits, foreign : 0..MaxForeign, faults : 0..MaxFaults]
    BY TagAssumption DEF Init
  <2>2. managed \in BOOLEAN /\ queued \in BOOLEAN /\ disturbed \in BOOLEAN
    BY DEF Init
  <2> QED
    BY <1>1, <2>1, <2>2 DEF Init, TypeOK
<1>3. SpecIsUsers
  BY DEF Init, SpecIsUsers, NoTags, present
<1>4. AWSTagsMirrored /\ ListIsCurrent
  BY DEF Init, AWSTagsMirrored, ListIsCurrent
<1>5. CopiesAreOriginal
  <2>1. managed => acm = EnsureTags(spec)
    BY DEF Init
  <2>2. \A k \in UserKeys : EnsureTags(spec)[k] = convertToOrderedACKTags(spec)[k]
    BY KeysAndValues DEF EnsureTags
  <2>3. \A k \in UserKeys : managed =>
          convertToOrderedACKTags(spec)[k] = convertToOrderedACKTags(acm)[k]
    BY <2>1, <2>2, KeysAndValues DEF convertToOrderedACKTags
  <2> QED
    BY <2>3 DEF Init, CopiesAreOriginal
<1> QED
  BY <1>2, <1>3, <1>4, <1>5 DEF IInv

\* Every step keeps the types.
LEMMA TypeStep ==
  ASSUME TypeOK, [Next]_vars
  PROVE  TypeOK'
<1> USE DEF TypeOK
<1>0. NoTags \in Tags
  BY TagListTypes
<1>1. CASE Begin
  <2>1. desired' \in Tags
    BY <1>1, TagListTypes DEF Begin
  <2> QED
    BY <1>1, <2>1 DEF Begin
<1>2. CASE AdoptRead
  BY <1>2 DEF AdoptRead
<1>3. CASE AdoptPatch
  <2>1. spec' \in Tags
    BY <1>3, TagListTypes DEF AdoptPatch
  <2> QED
    BY <1>0, <1>3, <2>1 DEF AdoptPatch, EndPass
<1>4. CASE ListTags
  <2>1. mirrorAWSTags(desired, acm) \in Tags
    BY TagListTypes
  <2> QED
    BY <1>0, <1>4, <2>1 DEF ListTags, EndPass
<1>5. CASE RemoveTags
  <2>1. acm' \in Tags
    BY <1>5, TagListTypes DEF RemoveTags
  <2> QED
    BY <1>0, <1>5, <2>1 DEF RemoveTags, EndPass
<1>6. CASE AddTags
  <2>1. acm' \in Tags
    BY <1>6, TagListTypes DEF AddTags
  <2> QED
    BY <1>0, <1>6, <2>1 DEF AddTags, EndPass
<1>7. CASE RequestFails
  <2>1. acm' \in Tags
    BY <1>7, TagListTypes DEF RequestFails
  <2>2. used' \in [edits : 0..MaxEdits, foreign : 0..MaxForeign, faults : 0..MaxFaults]
    BY <1>7, TagAssumption DEF RequestFails, Fault
  <2> QED
    BY <1>0, <1>7, <2>1, <2>2 DEF RequestFails, EndPass
<1>8. CASE UserEdits
  <2>1. used' \in [edits : 0..MaxEdits, foreign : 0..MaxForeign, faults : 0..MaxFaults]
    BY <1>8, TagAssumption DEF UserEdits
  <2>2. spec' \in Tags
    BY <1>8 DEF UserEdits, Tags
  <2> QED
    BY <1>0, <1>8, <2>1, <2>2 DEF UserEdits
<1>9. CASE ForeignChange
  <2>1. used' \in [edits : 0..MaxEdits, foreign : 0..MaxForeign, faults : 0..MaxFaults]
    BY <1>9, TagAssumption DEF ForeignChange
  <2>2. acm' \in Tags
    BY <1>9 DEF ForeignChange, Tags
  <2> QED
    BY <1>0, <1>9, <2>1, <2>2 DEF ForeignChange
<1>10. CASE UNCHANGED vars
  BY <1>10 DEF vars
<1> QED
  BY <1>1, <1>2, <1>3, <1>4, <1>5, <1>6, <1>7, <1>8, <1>9, <1>10 DEF Next, Pass

\* Only users, and an adoption without the system tags, write the Spec.
LEMMA SpecStep ==
  ASSUME TypeOK, SpecIsUsers, [Next]_vars
  PROVE  SpecIsUsers'
<1>1. CASE UNCHANGED spec
  BY <1>1 DEF SpecIsUsers, present
<1>2. CASE AdoptPatch
  BY <1>2 DEF AdoptPatch, SpecIsUsers, present, FilterSystemTags, ignoreSystemTags, Keys
<1>3. CASE UserEdits
  BY <1>3 DEF UserEdits, SpecIsUsers, present, TypeOK, Tags
<1> QED
  BY <1>1, <1>2, <1>3
  DEF Next, Pass, Begin, AdoptRead, ListTags, RemoveTags, AddTags, RequestFails, ForeignChange, vars

\* What a pass goes on with after the list: a plan that does not touch the
\* tags of AWS, nor, for tags nobody changed, those of the user.
LEMMA ListedPlan ==
  ASSUME IInv, ListTags, pc' # "idle"
  PROVE  /\ desired' \in Tags /\ latest' = acm /\ acm' = acm /\ pc' \in {"remove", "add"}
         /\ pc' = "add" => toDelete(desired', latest') = {}
         /\ \A k \in AWSKeys : desired'[k] = latest'[k]
         /\ Quiet => \A k \in UserKeys : desired'[k] = original[k] /\ latest'[k] = original[k]
<1> USE DEF IInv, TypeOK
<1> DEFINE m == mirrorAWSTags(desired, acm)
<1>1. /\ pc = "list" /\ ~panics(m, acm) /\ desired' = m /\ latest' = acm /\ acm' = acm
      /\ pc' = IF toDelete(m, acm) # {} THEN "remove" ELSE "add"
  BY DEF ListTags, EndPass
<1>2. m \in Tags
  BY TagListTypes
<1>3. ASSUME NEW k \in AWSKeys PROVE m[k] = acm[k]
  <2>1. k \in Keys /\ desired[k] = Absent
    BY <1>1, KeysAndValues DEF AWSTagsMirrored
  <2>2. /\ acm[k] # Absent => m[k] = convertToOrderedACKTags(acm)[k]
        /\ acm[k] = Absent => m[k] = convertToOrderedACKTags(desired)[k]
        /\ acm[k] # NoValue
    BY <1>1, <2>1, Mirrored
  <2> QED
    BY <2>1, <2>2, KeysAndValues DEF convertToOrderedACKTags
<1>4. ASSUME Quiet, NEW k \in UserKeys PROVE m[k] = original[k] /\ acm[k] = original[k]
  <2>1. /\ k \in Keys /\ k \notin AWSKeys
        /\ acm[k] = original[k] /\ desired[k] = convertToOrderedACKTags(original)[k]
    BY <1>1, <1>4, KeysAndValues DEF CopiesAreOriginal
  <2>2. m[k] = convertToOrderedACKTags(desired)[k] /\ acm[k] # NoValue
    BY <1>1, <2>1, Mirrored
  <2> QED
    BY <2>1, <2>2, KeysAndValues DEF convertToOrderedACKTags
<1> HIDE DEF m
<1> QED
  BY <1>1, <1>2, <1>3, <1>4

\* Every step keeps what the pass knows of the tags of AWS and of ACM.
LEMMA PlanStep ==
  ASSUME IInv, [Next]_vars
  PROVE  AWSTagsMirrored' /\ ListIsCurrent'
<1> USE DEF IInv, AWSTagsMirrored, ListIsCurrent
<1>1. CASE pc' \in {"idle", "adopt"}
  BY <1>1
<1>2. CASE Begin
  <2>1. pc' = "list" /\ desired' = EnsureTags(spec)
    BY <1>2 DEF Begin
  <2>2. \A k \in AWSKeys : spec[k] = Absent
    BY KeysAndValues DEF SpecIsUsers, present
  <2>3. \A k \in AWSKeys : EnsureTags(spec)[k] = Absent
    BY <2>2, KeysAndValues DEF EnsureTags, convertToOrderedACKTags
  <2> QED
    BY <2>1, <2>3
<1>3. CASE ListTags /\ pc' # "idle"
  <2>1. /\ desired' \in Tags /\ latest' = acm /\ acm' = acm /\ pc' \in {"remove", "add"}
        /\ pc' = "add" => toDelete(desired', latest') = {}
        /\ \A k \in AWSKeys : desired'[k] = latest'[k]
    BY <1>3, ListedPlan
  <2>2. pc' = "add" => acm' = afterRemove(latest', toDelete(desired', latest'), latest')
    BY <2>1 DEF afterRemove, TypeOK, Tags
  <2> QED
    BY <2>1, <2>2
<1>4. CASE RemoveTags /\ pc' # "idle"
  BY <1>4 DEF RemoveTags, EndPass
<1>5. CASE UserEdits \/ ForeignChange \/ UNCHANGED vars
  BY <1>5 DEF UserEdits, ForeignChange, vars
<1> QED
  BY <1>1, <1>2, <1>3, <1>4, <1>5
  DEF Next, Pass, AdoptRead, AdoptPatch, AddTags, RequestFails, EndPass

\* Every step keeps the user tags in ACM and in all copies of them, as long as
\* nobody else changes any.
LEMMA OriginalStep ==
  ASSUME IInv, [Next]_vars
  PROVE  CopiesAreOriginal'
<1> USE DEF IInv, TypeOK
<1> SUFFICES ASSUME Quiet', NEW k \in UserKeys
             PROVE  /\ acm'[k] = original'[k]
                    /\ managed' => convertToOrderedACKTags(spec')[k] = convertToOrderedACKTags(original')[k]
                    /\ pc' = "list" => desired'[k] = convertToOrderedACKTags(original')[k]
                    /\ pc' \in {"remove", "add", "adopt"} => latest'[k] = original'[k]
                    /\ pc' \in {"remove", "add"} => desired'[k] = original'[k]
  BY DEF CopiesAreOriginal, convertToOrderedACKTags
<1>0. k \in Keys /\ k \notin AWSKeys /\ k \notin DefaultKeys
  BY KeysAndValues
<1>1. Quiet /\ UNCHANGED original /\ (Pass \/ UNCHANGED vars)
  <2>1. ~UserEdits
    BY TagAssumption DEF Quiet, UserEdits
  <2>2. ~ForeignChange
    BY TagAssumption DEF Quiet, ForeignChange
  <2>3. Pass \/ UNCHANGED vars
    BY <2>1, <2>2 DEF Next
  <2>4. UNCHANGED original /\ used'.edits = used.edits /\ used'.foreign = used.foreign
    BY <2>3, TagAssumption
    DEF Pass, Begin, AdoptRead, AdoptPatch, ListTags, RemoveTags, AddTags, RequestFails, Fault, vars
  <2> QED
    BY <2>3, <2>4 DEF Quiet
<1>2. /\ acm[k] = original[k]
      /\ managed => convertToOrderedACKTags(spec)[k] = convertToOrderedACKTags(original)[k]
      /\ pc = "list" => desired[k] = convertToOrderedACKTags(original)[k]
      /\ pc \in {"remove", "add", "adopt"} => latest[k] = original[k]
      /\ pc \in {"remove", "add"} => desired[k] = original[k]
  BY <1>1 DEF CopiesAreOriginal
<1>3. pc \in {"remove", "add"} =>
        /\ afterRemove(acm, toDelete(desired, latest), latest)[k] = acm[k]
        /\ afterAdd(acm, toAdd(desired, latest), desired)[k] = acm[k]
  BY <1>0, <1>2, AgreedAreKept
<1>4. CASE Begin
  <2>1. EnsureTags(spec)[k] = convertToOrderedACKTags(spec)[k]
    BY <1>0 DEF EnsureTags
  <2> QED
    BY <1>1, <1>2, <1>4, <2>1 DEF Begin
<1>5. CASE AdoptRead
  BY <1>1, <1>2, <1>5 DEF AdoptRead
<1>6. CASE AdoptPatch
  <2>1. spec' = FilterSystemTags(latest) /\ pc' = "idle" /\ latest[k] = original[k]
        /\ UNCHANGED acm
    BY <1>2, <1>6 DEF AdoptPatch, EndPass
  <2>2. convertToOrderedACKTags(FilterSystemTags(latest))[k] = convertToOrderedACKTags(original)[k]
    BY <1>0, <2>1, KeysAndValues DEF FilterSystemTags, ignoreSystemTags, convertToOrderedACKTags
  <2> QED
    BY <1>1, <1>2, <2>1, <2>2
<1>7. CASE ListTags
  <2>1. UNCHANGED <<acm, spec, managed>>
    BY <1>7 DEF ListTags
  <2>2. CASE pc' = "idle"
    BY <1>1, <1>2, <2>1, <2>2
  <2>3. CASE pc' # "idle"
    <3>1. /\ pc' \in {"remove", "add"}
          /\ desired'[k] = original[k] /\ latest'[k] = original[k]
      BY <1>1, <1>7, <2>3, ListedPlan
    <3> QED
      BY <1>1, <1>2, <2>1, <3>1
  <2> QED
    BY <2>2, <2>3
<1>8. CASE RemoveTags
  <2>1. acm'[k] = original[k] /\ UNCHANGED <<spec, managed>>
    BY <1>2, <1>3, <1>8 DEF RemoveTags
  <2>2. pc' = "idle" \/ (pc' = "add" /\ UNCHANGED <<desired, latest>>)
    BY <1>8 DEF RemoveTags, EndPass
  <2> QED
    BY <1>1, <1>2, <1>8, <2>1, <2>2 DEF RemoveTags
<1>9. CASE AddTags \/ RequestFails
  <2>1. acm'[k] = original[k] /\ UNCHANGED <<spec, managed>> /\ pc' = "idle"
    BY <1>2, <1>3, <1>9 DEF AddTags, RequestFails, EndPass
  <2> QED
    BY <1>1, <1>2, <2>1
<1>10. CASE UNCHANGED vars
  BY <1>2, <1>10 DEF vars
<1> QED
  BY <1>1, <1>4, <1>5, <1>6, <1>7, <1>8, <1>9, <1>10 DEF Pass

\* What a pass knows of the tags stays right whatever requests fail and
\* whoever changes tags or the Spec under it.
THEOREM TagInvariance == Spec => []IInv
<1>1. Init => IInv
  BY InitIInv
<1>2. IInv /\ [Next]_vars => IInv'
  BY TypeStep, SpecStep, PlanStep, OriginalStep DEF IInv
<1> QED
  BY <1>1, <1>2, PTL DEF Spec

-----------------------------------------------------------------------------

\* The types of the Spec, the tags and the pass.
THEOREM TagTypeCorrect == Spec => []TypeOK
<1>1. IInv => TypeOK
  BY DEF IInv
<1> QED
  BY <1>1, TagInvariance, PTL

\* SyncTags never asks ACM to remove or overwrite a tag AWS had injected when
\* the tags were listed, which would fail the whole request (mirrorAWSTags).
THEOREM AWSTagsLeftAlone == Spec => []AWSTagsUntouched
<1>1. IInv => AWSTagsUntouched
  BY KeysAndValues
  DEF IInv, AWSTagsMirrored, AWSTagsUntouched, toDelete, toAdd, present
<1> QED
  BY <1>1, TagInvariance, PTL

\* Because SyncTags removes before it adds, TooManyTagsException never parks a
\* resource whose tags fit the limit, unless others tagged it after the list.
THEOREM FittingTagsAccepted == Spec => []FittingTagsAreNotRefused
<1>1. IInv => FittingTagsAreNotRefused
  BY SyncFits DEF IInv, TypeOK, ListIsCurrent, FittingTagsAreNotRefused
<1> QED
  BY <1>1, TagInvariance, PTL

\* Adopting a certificate, and every sync after it, keeps the user tags it had,
\* missing values included, until someone edits the Spec or the tags.
THEOREM AdoptedTagsKept == Spec => []AdoptionKeepsTags
<1>1. IInv => AdoptionKeepsTags
  BY DEF IInv, CopiesAreOriginal, Quiet, AdoptionKeepsTags
<1> QED
  BY <1>1, TagInvariance, PTL

\* An undisturbed sync that ends without a failed request leaves ACM with the
\* tags the pass wanted, so the removal and the addition of SyncTags amount to
\* the one step of Reconciler.
THEOREM SyncExact == Spec => SyncReachesDesired
<1>1. ASSUME IInv, [Next]_vars, pc \in {"remove", "add"}, pc' = "idle", used' = used,
             ~disturbed, fits(desired)
      PROVE  acm' = desired
  <2> USE <1>1
  <2>1. desired \in Tags /\ latest \in Tags /\ pc # pc'
    BY DEF IInv, TypeOK
  <2>2. ~RequestFails
    <3>1. used.faults \in Nat /\ used'.faults = used.faults
      BY TagAssumption DEF IInv, TypeOK
    <3>2. RequestFails => used'.faults = used.faults + 1
      BY DEF RequestFails, Fault, IInv, TypeOK
    <3> QED
      BY <3>1, <3>2
  <2>3. RemoveTags \/ AddTags
    BY <2>1, <2>2
    DEF Next, Pass, Begin, AdoptRead, AdoptPatch, ListTags, UserEdits, ForeignChange, vars
  <2>4. CASE RemoveTags
    <3>1. /\ acm' = afterRemove(acm, toDelete(desired, latest), latest)
          /\ toAdd(desired, latest) = {} /\ acm = latest
      BY <2>4 DEF RemoveTags, IInv, ListIsCurrent
    <3> QED
      BY <2>1, <3>1, SyncedTags
  <2>5. CASE AddTags
    <3> DEFINE t == afterAdd(acm, toAdd(desired, latest), desired)
    <3>1. acm = afterRemove(latest, toDelete(desired, latest), latest)
      BY <2>5 DEF AddTags, IInv, ListIsCurrent
    <3>2. t = desired
      BY <2>1, <3>1, SyncedTags
    <3>3. acm' = IF fits(t) THEN t ELSE acm
      BY <2>5 DEF AddTags
    <3> QED
      BY <3>2, <3>3
  <2> QED
    BY <2>3, <2>4, <2>5
<1>2. IInv /\ [Next]_vars
        => [(pc \in {"remove", "add"} /\ pc' = "idle" /\ used' = used /\ ~disturbed /\ fits(desired))
              => (acm' = desired)]_vars
  BY <1>1
<1> QED
  BY <1>2, TagInvariance, PTL DEF Spec, SyncReachesDesired
=============================================================================
