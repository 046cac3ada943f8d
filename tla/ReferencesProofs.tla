--------------------------- MODULE ReferencesProofs ---------------------------
(***************************************************************************)
(* Proofs about References for all values of its constants: any number of  *)
(* namespaces, authorities, certificates, events and failures.             *)
(*                                                                         *)
(* A pass decides on what it copied and resolved some steps ago, while the *)
(* resource and the authorities change.  The inductive invariant says what *)
(* of the pass's copy is still good when it is used.                       *)
(***************************************************************************)
EXTENDS References, TLAPS

\* An authority that is ready has been noted as such.
ReadyIsNoted == \A n \in Namespaces : Ready(ca[n]) => <<n, ca[n].arn>> \in ready

\* The ARN a is one the reference r may have been resolved to.
ResolvedTo(r, a) ==
  /\ <<referencedNamespace(r), a>> \in ready
  /\ crossNamespace \/ referencedNamespace(r) = Home

\* From the resolution to the request the pass holds an ARN of the authority
\* its reference names, unless it is one that goes on unresolved.
PassIsResolved ==
  pc \in {"read", "manage", "create"} /\ named(desired.ref) /\ ~ignoresReferenceErrors(desired)
    => ResolvedTo(desired.ref, desired.arn)

\* What the pass has read of adoption is not behind the resource: the policy
\* is only ever taken away, and the mark is only set by the pass itself.
PassKnowsAdoption ==
  /\ taken => cr.adopted
  /\ pc # "idle" => /\ cr.adopt => desired.adopt
                    /\ cr.adopted => desired.adopted \/ desired.adopting
                    /\ desired.adopting => desired.adopt

\* Which resources get as far as to be adopted or created.
BranchIsRight ==
  /\ pc = "adopt" => desired.cert # 0 /\ desired.adopting
  /\ pc \in {"manage", "create"} => ~ignoresReferenceErrors(desired) /\ ~desired.adopted

IInv ==
  /\ TypeOK
  /\ ReadyIsNoted
  /\ PassIsResolved
  /\ PassKnowsAdoption
  /\ BranchIsRight
  /\ RequestsFromReferencedCA
-----------------------------------------------------------------------------
(* Types.                                                                  *)

\* The part of TypeOK about the locals of the pass and the queue.
PassType ==
  /\ pc \in {"idle", "resolve", "read", "adopt", "manage", "create", "patchStatus",
             "delete", "unmanage"}
  /\ desired \in Desired
  /\ queued \in BOOLEAN

\* The zero copy is one.
LEMMA NoDesiredType == NoDesired \in Desired
  BY ReferencesAssumption DEF NoDesired, Desired, Refs, Resolved

\* A failure is taken from the budget.
LEMMA FaultType ==
  ASSUME TypeOK, Fault
  PROVE  used' \in [events : 0..MaxEvents, failures : 0..MaxFailures]
  BY ReferencesAssumption DEF TypeOK, Fault

\* The end of a pass leaves the locals well-formed.
LEMMA EndPassType ==
  ASSUME TypeOK, NEW again \in BOOLEAN, EndPass(again)
  PROVE  PassType' /\ pc' = "idle"
  BY NoDesiredType DEF TypeOK, EndPass, Goto, PassType

\* A reference that is there names a namespace.
LEMMA NamespaceType ==
  ASSUME NEW r \in Refs, r # Nil
  PROVE  referencedNamespace(r) \in Namespaces
  BY ReferencesAssumption DEF Refs, Reference, referencedNamespace

\* What resolution returns: no error only with an authority that is ready, in
\* a namespace the flag admits (resolveReferenceForCertificateAuthorityARN,
\* getReferencedResourceState_CertificateAuthority).
LEMMA ResolutionIsReady ==
  ASSUME TypeOK, NEW r \in Desired
  PROVE  /\ ResolveReferences(r).arn \in 0..MaxARNs
         /\ hasReferences(r) /\ ResolveReferences(r).err = "none"
              => LET n == referencedNamespace(r.ref)
                 IN /\ Ready(ca[n])
                    /\ ResolveReferences(r).arn = ca[n].arn
                    /\ crossNamespace \/ n = Home
<1> DEFINE n   == referencedNamespace(r.ref)
           res == resolveReferenceForCertificateAuthorityARN(r)
<1>1. /\ ResolveReferences(r).arn = res.arn
      /\ ResolveReferences(r).err = "none" => res.err = "none"
  BY DEF ResolveReferences
<1>2. r.arn \in 0..MaxARNs /\ r.ref \in Refs
  BY DEF Desired
<1>3. CASE ~hasReferences(r)
  <2>1. res = [err |-> "none", arn |-> r.arn]
    BY <1>3 DEF resolveReferenceForCertificateAuthorityARN
  <2> QED
    BY <1>1, <1>2, <1>3, <2>1
<1>4. CASE hasReferences(r)
  <2>1. n \in Namespaces
    BY <1>2, <1>4, NamespaceType DEF hasReferences
  <2>2. ca[n] \in CertificateAuthority
    BY <2>1 DEF TypeOK
  <2>3. getReferencedResourceState_CertificateAuthority(ca[n]) = "none" => Ready(ca[n])
    BY <2>2 DEF getReferencedResourceState_CertificateAuthority, Ready, CertificateAuthority
  <2>4. /\ res.arn \in {r.arn, ca[n].arn}
        /\ res.err = "none" => /\ res.arn = ca[n].arn
                               /\ ResolveCrossNamespaceReference(r.ref)
                               /\ getReferencedResourceState_CertificateAuthority(ca[n]) = "none"
    BY <1>4 DEF resolveReferenceForCertificateAuthorityARN
  <2>5. res.arn \in 0..MaxARNs
    BY <1>2, <2>2, <2>4 DEF CertificateAuthority
  <2> HIDE DEF n, res
  <2>6. ResolveReferences(r).err = "none"
          => Ready(ca[n]) /\ ResolveReferences(r).arn = ca[n].arn /\ ResolveCrossNamespaceReference(r.ref)
    BY <1>1, <2>3, <2>4
  <2> QED
    BY <1>1, <2>5, <2>6 DEF n, ResolveCrossNamespaceReference
<1> QED
  BY <1>3, <1>4

\* The initial state is well-formed.
LEMMA TypeInit == Init => TypeOK
<1> SUFFICES ASSUME Init PROVE TypeOK
  OBVIOUS
<1>1. PICK r \in Resources :
        /\ cr = [phase |-> "none", ref |-> r.ref, arn |-> r.arn, adopt |-> r.adopt,
                 field |-> r.field, managed |-> FALSE, adopted |-> FALSE, cert |-> 0,
                 resolved |-> "Unset"]
        /\ made = IF r.adopt THEN 1 ELSE 0
  BY DEF Init
<1>2. r \in [ref : Refs, arn : 0..MaxARNs, adopt : BOOLEAN, field : 0..1]
  BY ReferencesAssumption
<1>3. cr \in CustomResource /\ made \in 0..MaxCerts
  BY <1>1, <1>2, ReferencesAssumption DEF CustomResource, Resolved
<1>4. ca \in [Namespaces -> CertificateAuthority]
  <2>1. /\ Absent \in CertificateAuthority
        /\ [exists |-> TRUE, terminal |-> FALSE, synced |-> TRUE, arn |-> 1] \in CertificateAuthority
    BY ReferencesAssumption DEF Absent, CertificateAuthority
  <2> QED
    BY <2>1 DEF Init
<1>5. certs \in [1..MaxCerts -> CertificateEntry]
  <2>1. /\ [live |-> TRUE, ca |-> 1, ref |-> Nil] \in CertificateEntry
        /\ NoCertificate \in CertificateEntry
    BY ReferencesAssumption DEF NoCertificate, CertificateEntry, Refs
  <2> QED
    BY <2>1 DEF Init
<1>6. given \in 0..MaxARNs /\ ready \subseteq Namespaces \X (1..MaxARNs)
  BY ReferencesAssumption DEF Init
<1>7. used \in [events : 0..MaxEvents, failures : 0..MaxFailures]
  BY ReferencesAssumption DEF Init
<1>8. crossNamespace \in BOOLEAN /\ queued \in BOOLEAN /\ taken \in BOOLEAN
  BY DEF Init
<1>9. pc = "idle" /\ desired \in Desired
  BY NoDesiredType DEF Init
<1> QED
  BY <1>3, <1>4, <1>5, <1>6, <1>7, <1>8, <1>9 DEF TypeOK

\* The steps of a pass keep the state well-formed, one step per action.
LEMMA TypeController ==
  ASSUME TypeOK, BranchIsRight, Controller
  PROVE  TypeOK'
<1> USE DEF PassType, authorities
<1>1. CASE Begin
  <2> DEFINE adopting == cr.phase = "live" /\ cr.adopt /\ ~cr.managed
             populated == PopulateResourceFromAnnotation(cr)
             cert == IF adopting THEN populated.cert ELSE cr.cert
             d == [ref |-> cr.ref, arn |-> cr.arn, cert |-> cert, resolved |-> "Unset",
                   deleted |-> cr.phase = "deleting", adopt |-> cr.adopt,
                   adopting |-> adopting, adopted |-> cr.adopted]
  <2>1. cert \in 0..MaxCerts
    BY ReferencesAssumption DEF TypeOK, CustomResource, PopulateResourceFromAnnotation
  <2>2. adopting \in BOOLEAN /\ (cr.phase = "deleting") \in BOOLEAN
    OBVIOUS
  <2>3. d \in Desired
    <3> HIDE DEF cert, adopting
    <3> QED
      BY <2>1, <2>2 DEF TypeOK, CustomResource, Desired, Resolved
  <2>4. UNCHANGED pass \/ Goto("resolve", d)
    BY <1>1 DEF Begin
  <2>5. PassType'
    <3> HIDE DEF d
    <3> QED
      BY <1>1, <2>3, <2>4 DEF TypeOK, Begin, Goto, pass
  <2> QED
    BY <1>1, <2>5 DEF TypeOK, Begin
<1>2. CASE Resolve
  <2>1. PICK failed \in BOOLEAN, next \in {"patchStatus", "read"}, cond \in Resolved :
          /\ IF failed THEN hasReferences(desired) /\ Fault ELSE UNCHANGED used
          /\ Goto(next, [desired EXCEPT !.resolved = cond,
                            !.arn = IF failed THEN @ ELSE ResolveReferences(desired).arn])
    BY <1>2 DEF Resolve, WithReferencesResolvedCondition, Resolved
  <2>2. desired \in Desired /\ ResolveReferences(desired).arn \in 0..MaxARNs
    BY ResolutionIsReady DEF TypeOK
  <2>3. desired' \in Desired /\ pc' \in {"patchStatus", "read"}
    BY <2>1, <2>2 DEF Goto, Desired
  <2>4. used' \in [events : 0..MaxEvents, failures : 0..MaxFailures]
    BY <2>1, FaultType DEF TypeOK
  <2> QED
    BY <1>2, <2>3, <2>4 DEF TypeOK, Resolve
<1>3. CASE Read
  <2>1. \/ EndPass(TRUE)
        \/ /\ pc' \in {"delete", "unmanage", "adopt", "patchStatus", "create", "manage"}
           /\ UNCHANGED <<desired, queued>>
    BY <1>3 DEF Read, Goto
  <2>2. PassType'
    BY <2>1, EndPassType DEF TypeOK
  <2> QED
    BY <1>3, <2>2 DEF TypeOK, Read
<1>4. CASE Adopt
  <2>1. adoptedARN \in 0..MaxARNs
    <3>1. certs[desired.cert].ca \in 0..MaxARNs
      BY <1>4 DEF TypeOK, BranchIsRight, Adopt, Desired, CertificateEntry
    <3>2. \A r \in Desired : ClearResolvedReferences(r).arn \in 0..MaxARNs
      BY ReferencesAssumption DEF ClearResolvedReferences, Desired
    <3>3. [desired EXCEPT !.arn = certs[desired.cert].ca] \in Desired
      BY <3>1 DEF TypeOK, Desired
    <3> QED
      BY <3>2, <3>3 DEF TypeOK, adoptedARN, CustomResource
  <2>2. cr' \in CustomResource
    BY <1>4, <2>1 DEF TypeOK, Adopt, MarkAdopted, MarkManaged, CustomResource
  <2> QED
    BY <1>4, <2>2 DEF TypeOK, Adopt, Goto
<1>5. CASE Manage
  <2>1. cr' \in CustomResource
    BY <1>5 DEF TypeOK, Manage, MarkManaged, CustomResource
  <2> QED
    BY <1>5, <2>1 DEF TypeOK, Manage, Goto
<1>6. CASE PatchFails
  <2>1. PassType' /\ used' \in [events : 0..MaxEvents, failures : 0..MaxFailures]
    BY <1>6, EndPassType, FaultType DEF TypeOK, PatchFails
  <2> QED
    BY <1>6, <2>1 DEF TypeOK, PatchFails
<1>7. CASE Create
  <2>1. CASE made = MaxCerts
    BY <1>7, <2>1 DEF TypeOK, Create, Goto
  <2>2. CASE made # MaxCerts
    <3>1. made + 1 \in 1..MaxCerts
      BY <2>2, ReferencesAssumption DEF TypeOK
    <3>2. [live |-> TRUE, ca |-> desired.arn, ref |-> desired.ref] \in CertificateEntry
      BY DEF TypeOK, Desired, CertificateEntry
    <3>3. [desired EXCEPT !.cert = made + 1] \in Desired
      BY <3>1 DEF TypeOK, Desired
    <3> QED
      BY <1>7, <2>2, <3>1, <3>2, <3>3 DEF TypeOK, Create, Goto
  <2> QED
    BY <2>1, <2>2
<1>8. CASE PatchStatus
  <2>1. cr' \in CustomResource
    BY <1>8 DEF TypeOK, PatchStatus, CustomResource, Desired
  <2>2. PassType' /\ used' \in [events : 0..MaxEvents, failures : 0..MaxFailures]
    BY <1>8, EndPassType, FaultType DEF TypeOK, PatchStatus
  <2> QED
    BY <1>8, <2>1, <2>2 DEF TypeOK, PatchStatus
<1>9. CASE Delete
  <2>1. certs' \in [1..MaxCerts -> CertificateEntry]
    <3>1. CASE Exists(desired.cert) /\ certs' = [certs EXCEPT ![desired.cert].live = FALSE]
      <4>1. desired.cert \in 1..MaxCerts
        BY <3>1 DEF TypeOK, Desired, Exists
      <4>2. [certs[desired.cert] EXCEPT !.live = FALSE] \in CertificateEntry
        BY <4>1 DEF TypeOK, CertificateEntry
      <4> QED
        BY <3>1, <4>1, <4>2 DEF TypeOK
    <3>2. CASE UNCHANGED certs
      BY <3>2 DEF TypeOK
    <3> QED
      BY <1>9, <3>1, <3>2 DEF Delete
  <2>2. PassType' /\ used' \in [events : 0..MaxEvents, failures : 0..MaxFailures]
    BY <1>9, EndPassType, FaultType DEF TypeOK, Delete, Goto
  <2> QED
    BY <1>9, <2>1, <2>2 DEF TypeOK, Delete
<1>10. CASE MarkUnmanaged
  <2>1. cr' \in CustomResource
    BY <1>10 DEF TypeOK, MarkUnmanaged, CustomResource
  <2>2. PassType' /\ used' \in [events : 0..MaxEvents, failures : 0..MaxFailures]
    BY <1>10, EndPassType, FaultType DEF TypeOK, MarkUnmanaged
  <2> QED
    BY <1>10, <2>1, <2>2 DEF TypeOK, MarkUnmanaged
<1> QED
  BY <1>1, <1>2, <1>3, <1>4, <1>5, <1>6, <1>7, <1>8, <1>9, <1>10 DEF Controller

\* So do users, authorities, ACM and restarts.
LEMMA TypeEnvironment ==
  ASSUME TypeOK, Environment
  PROVE  TypeOK'
<1> USE DEF PassType, authorities, pass
<1>0. used.events < MaxEvents
        => [used EXCEPT !.events = @ + 1] \in [events : 0..MaxEvents, failures : 0..MaxFailures]
  BY ReferencesAssumption DEF TypeOK
<1>1. CASE UserCreates \/ UserDeletes
  <2>1. cr' \in CustomResource
    BY <1>1 DEF TypeOK, UserCreates, UserDeletes, CustomResource
  <2> QED
    BY <1>1, <2>1 DEF TypeOK, UserCreates, UserDeletes
<1>2. CASE UserEdits
  <2>1. ASSUME \E r \in Resources : cr' = [cr EXCEPT !.ref = r.ref]
        PROVE  cr' \in CustomResource
    <3>1. \A r \in Resources : r.ref \in Refs
      BY ReferencesAssumption
    <3> QED
      BY <2>1, <3>1 DEF TypeOK, CustomResource
  <2>2. ASSUME \E a \in 0..MaxARNs : cr' = [cr EXCEPT !.arn = a]
        PROVE  cr' \in CustomResource
    BY <2>2 DEF TypeOK, CustomResource
  <2>3. ASSUME cr' = [cr EXCEPT !.adopt = FALSE]
        PROVE  cr' \in CustomResource
    BY <2>3 DEF TypeOK, CustomResource
  <2>4. cr' \in CustomResource
    <3>1. 1..MaxARNs \subseteq 0..MaxARNs /\ 0 \in 0..MaxARNs
      BY ReferencesAssumption
    <3> QED
      BY <1>2, <2>1, <2>2, <2>3, <3>1 DEF UserEdits
  <2> QED
    BY <1>0, <1>2, <2>4 DEF TypeOK, UserEdits
<1>3. ASSUME NEW n \in Namespaces, AuthorityChanges(n)
      PROVE  TypeOK'
  <2>1. Absent \in CertificateAuthority
    BY ReferencesAssumption DEF Absent, CertificateAuthority
  <2>2. \A t, s \in BOOLEAN :
          [ca[n] EXCEPT !.exists = TRUE, !.terminal = t, !.synced = s] \in CertificateAuthority
    BY DEF TypeOK, CertificateAuthority
  <2>3. given < MaxARNs => /\ given + 1 \in 0..MaxARNs
                           /\ [ca[n] EXCEPT !.arn = given + 1] \in CertificateAuthority
    <3>1. given < MaxARNs => given + 1 \in 0..MaxARNs
      BY ReferencesAssumption DEF TypeOK
    <3>2. \A a \in 0..MaxARNs : [ca[n] EXCEPT !.arn = a] \in CertificateAuthority
      BY DEF TypeOK, CertificateAuthority
    <3> QED
      BY <3>1, <3>2
  <2>4. ca' \in [Namespaces -> CertificateAuthority] /\ given' \in 0..MaxARNs
    BY <1>3, <2>1, <2>2, <2>3 DEF TypeOK, AuthorityChanges
  <2>5. ready' \subseteq Namespaces \X (1..MaxARNs)
    <3>1. \A m \in Namespaces : Ready(ca'[m]) => ca'[m].arn \in 1..MaxARNs
      BY <2>4 DEF Ready, CertificateAuthority
    <3>2. {<<m, ca'[m].arn>> : m \in {k \in Namespaces : Ready(ca'[k])}}
            \subseteq Namespaces \X (1..MaxARNs)
      BY <3>1
    <3> QED
      BY <1>3, <3>2 DEF TypeOK, AuthorityChanges
  <2> QED
    BY <1>0, <1>3, <2>4, <2>5 DEF TypeOK, AuthorityChanges
<1>4. ASSUME NEW c \in 1..MaxCerts, ExternalDelete(c)
      PROVE  TypeOK'
  <2>1. certs' \in [1..MaxCerts -> CertificateEntry]
    BY <1>4 DEF TypeOK, ExternalDelete, CertificateEntry
  <2> QED
    BY <1>0, <1>4, <2>1 DEF TypeOK, ExternalDelete
<1>5. CASE Crash
  <2>1. used' \in [events : 0..MaxEvents, failures : 0..MaxFailures]
    BY <1>5, FaultType DEF Crash, Fault
  <2> QED
    BY <1>5, <2>1, NoDesiredType DEF TypeOK, Crash, Goto
<1> QED
  BY <1>1, <1>2, <1>3, <1>4, <1>5 DEF Environment

-----------------------------------------------------------------------------
(* What of the pass's copy is still good when it is used.                  *)

\* Nothing is forgotten of the authorities that were ready, and one that
\* becomes ready is noted.
LEMMA NotedStep ==
  ASSUME ReadyIsNoted, [Next]_vars
  PROVE  ReadyIsNoted' /\ ready \subseteq ready' /\ UNCHANGED crossNamespace
<1> USE DEF authorities
<1>1. ASSUME NEW n \in Namespaces, AuthorityChanges(n)
      PROVE  ReadyIsNoted' /\ ready \subseteq ready' /\ UNCHANGED crossNamespace
  BY <1>1 DEF AuthorityChanges, ReadyIsNoted
<1>2. UNCHANGED authorities => ReadyIsNoted' /\ ready \subseteq ready' /\ UNCHANGED crossNamespace
  BY DEF ReadyIsNoted, Ready
<1>3. CASE Controller
  BY <1>2, <1>3
  DEF Controller, Begin, Resolve, Read, Adopt, Manage, PatchFails, Create, PatchStatus,
      Delete, MarkUnmanaged
<1>4. CASE UserCreates \/ UserEdits \/ UserDeletes \/ Crash
           \/ \E c \in 1..MaxCerts : ExternalDelete(c)
  BY <1>2, <1>4 DEF UserCreates, UserEdits, UserDeletes, Crash, ExternalDelete
<1>5. CASE UNCHANGED vars
  BY <1>2, <1>5 DEF vars
<1> QED
  BY <1>1, <1>3, <1>4, <1>5 DEF Next, Environment

\* The parts of the invariant that are about the pass.
PassInv == PassIsResolved /\ PassKnowsAdoption /\ BranchIsRight

\* They hold between passes whatever the resource has become.
LEMMA IdleKeeps ==
  ASSUME TypeOK, PassInv, pc' = "idle",
         taken' => taken, cr'.adopted = cr.adopted
  PROVE  PassInv'
  BY Zenon DEF PassInv, PassIsResolved, PassKnowsAdoption, BranchIsRight

\* A step that leaves the pass alone, and does not adopt, keeps them.
LEMMA ElsewhereKeeps ==
  ASSUME PassInv, UNCHANGED <<pass, taken, crossNamespace>>, ready \subseteq ready',
         cr'.adopted = cr.adopted, cr'.adopt => cr.adopt
  PROVE  PassInv'
  BY DEF PassInv, PassIsResolved, PassKnowsAdoption, BranchIsRight, ResolvedTo, pass,
         ignoresReferenceErrors, referencedNamespace, named

\* Every step of the controller keeps them, one step per action.
LEMMA PassController ==
  ASSUME TypeOK, ReadyIsNoted, PassInv, Controller
  PROVE  PassInv'
<1> USE DEF authorities
<1>0. UNCHANGED <<crossNamespace, ready>>
  BY DEF Controller, Begin, Resolve, Read, Adopt, Manage, PatchFails, Create, PatchStatus,
         Delete, MarkUnmanaged
<1>1. CASE Begin
  <2>1. CASE UNCHANGED pass
    BY <1>0, <1>1, <2>1, ElsewhereKeeps DEF Begin
  <2>2. CASE ~UNCHANGED pass
    <3> DEFINE adopting == cr.phase = "live" /\ cr.adopt /\ ~cr.managed
    <3>0. PICK c : /\ pc' = "resolve"
                   /\ desired' = [ref |-> cr.ref, arn |-> cr.arn, cert |-> c,
                                   resolved |-> "Unset", deleted |-> cr.phase = "deleting",
                                   adopt |-> cr.adopt, adopting |-> adopting,
                                   adopted |-> cr.adopted]
      BY <1>1, <2>2, Zenon DEF Begin, Goto
    <3> HIDE DEF adopting
    <3>1. /\ pc' = "resolve"
          /\ desired'.adopt = cr.adopt /\ desired'.adopted = cr.adopted
          /\ desired'.adopting = adopting
      BY <3>0
    <3>2. UNCHANGED <<cr, taken>>
      BY <1>1 DEF Begin
    <3>3. PassIsResolved' /\ BranchIsRight'
      BY <3>1 DEF PassIsResolved, BranchIsRight
    <3>4. PassKnowsAdoption'
      BY <3>1, <3>2, Zenon DEF PassInv, PassKnowsAdoption, adopting
    <3> QED
      BY <3>3, <3>4 DEF PassInv
  <2> QED
    BY <2>1, <2>2
<1>2. CASE Resolve
  <2> DEFINE res == ResolveReferences(desired)
  <2>1. PICK failed \in BOOLEAN, cond \in Resolved :
          LET err == IF failed THEN "get" ELSE res.err
          IN Goto(IF err # "none" /\ ~ignoresReferenceErrors(desired) THEN "patchStatus" ELSE "read",
                  [desired EXCEPT !.resolved = cond, !.arn = IF failed THEN @ ELSE res.arn])
    BY <1>2 DEF Resolve, WithReferencesResolvedCondition, Resolved
  <2>2. /\ desired'.ref = desired.ref /\ desired'.adopt = desired.adopt
        /\ desired'.adopted = desired.adopted /\ desired'.adopting = desired.adopting
        /\ desired'.deleted = desired.deleted
        /\ pc' \in {"patchStatus", "read"}
        /\ pc' = "read" /\ ~ignoresReferenceErrors(desired) => res.err = "none" /\ desired'.arn = res.arn
    <3> HIDE DEF res
    <3> QED
      BY <2>1 DEF Goto, TypeOK, Desired
  <2>3. PassIsResolved'
    <3> SUFFICES ASSUME pc' = "read", named(desired.ref), ~ignoresReferenceErrors(desired)
                 PROVE  ResolvedTo(desired.ref, res.arn)
      BY <1>0, <2>2
      DEF PassIsResolved, ResolvedTo, named, ignoresReferenceErrors, referencedNamespace
    <3>1. hasReferences(desired) /\ res.err = "none"
      BY <2>2 DEF named, hasReferences
    <3>2. referencedNamespace(desired.ref) \in Namespaces
      BY NamespaceType DEF TypeOK, Desired, named
    <3> QED
      BY <3>1, <3>2, ResolutionIsReady DEF TypeOK, ReadyIsNoted, ResolvedTo
  <2>4. PassKnowsAdoption' /\ BranchIsRight'
    BY <1>2, <2>2 DEF Resolve, PassInv, PassKnowsAdoption, BranchIsRight
  <2> QED
    BY <2>3, <2>4 DEF PassInv
<1>3. CASE Read
  <2>1. CASE EndPass(TRUE)
    BY <1>3, <2>1, IdleKeeps DEF Read, EndPass, Goto
  <2>2. CASE ~EndPass(TRUE)
    <3>1. /\ UNCHANGED <<desired, cr, taken>>
          /\ pc = "read" /\ pc' # "read"
          /\ pc' = "adopt" => Exists(desired.cert) /\ desired.adopting
          /\ pc' \in {"manage", "create"} => ~desired.deleted /\ ~desired.adopt /\ ~desired.adopted
      BY <1>3, <2>2 DEF Read, Goto
    <3>2. PassIsResolved'
      BY <1>0, <3>1
      DEF PassInv, PassIsResolved, ResolvedTo, ignoresReferenceErrors, referencedNamespace, named
    <3>3. PassKnowsAdoption' /\ BranchIsRight'
      BY <3>1 DEF PassInv, PassKnowsAdoption, BranchIsRight, ignoresReferenceErrors, Exists
    <3> QED
      BY <3>2, <3>3 DEF PassInv
  <2> QED
    BY <2>1, <2>2
<1>4. CASE Adopt
  <2>1. cr'.adopted /\ cr'.adopt = cr.adopt
    BY <1>4 DEF Adopt, MarkAdopted, MarkManaged, TypeOK, CustomResource
  <2> QED
    BY <1>4, <2>1
    DEF Adopt, Goto, PassInv, PassIsResolved, PassKnowsAdoption, BranchIsRight
<1>5. CASE Manage
  <2>1. cr'.adopted = cr.adopted /\ cr'.adopt = cr.adopt
    BY <1>5 DEF Manage, MarkManaged, TypeOK, CustomResource
  <2> QED
    BY <1>0, <1>5, <2>1
    DEF Manage, Goto, PassInv, PassIsResolved, PassKnowsAdoption, BranchIsRight, ResolvedTo,
        ignoresReferenceErrors, referencedNamespace, named
<1>6. CASE PatchFails
  BY <1>6, IdleKeeps DEF PatchFails, EndPass, Goto
<1>7. CASE Create
  <2>1. /\ pc = "create" /\ pc' = "patchStatus" /\ UNCHANGED <<cr, taken>>
        /\ desired'.adopt = desired.adopt
        /\ desired'.adopted = desired.adopted /\ desired'.adopting = desired.adopting
    BY <1>7 DEF Create, Goto, TypeOK, Desired
  <2> QED
    BY <2>1 DEF PassInv, PassIsResolved, PassKnowsAdoption, BranchIsRight
<1>8. CASE PatchStatus
  <2>1. cr'.adopted = cr.adopted
    BY <1>8 DEF PatchStatus, TypeOK, CustomResource
  <2> QED
    BY <1>8, <2>1, IdleKeeps DEF PatchStatus, EndPass, Goto
<1>9. CASE Delete
  <2>1. CASE EndPass(TRUE)
    BY <1>9, <2>1, IdleKeeps DEF Delete, EndPass, Goto
  <2>2. CASE Goto("unmanage", desired)
    BY <1>9, <2>2
    DEF Delete, Goto, PassInv, PassIsResolved, PassKnowsAdoption, BranchIsRight
  <2> QED
    BY <1>9, <2>1, <2>2 DEF Delete
<1>10. CASE MarkUnmanaged
  <2>1. cr'.adopted = cr.adopted
    BY <1>10 DEF MarkUnmanaged, TypeOK, CustomResource
  <2> QED
    BY <1>10, <2>1, IdleKeeps DEF MarkUnmanaged, EndPass, Goto
<1> QED
  BY <1>1, <1>2, <1>3, <1>4, <1>5, <1>6, <1>7, <1>8, <1>9, <1>10 DEF Controller

\* And so does everyone else: no user gives a resource the policy or the mark
\* after a pass has read it without.
LEMMA PassEnvironment ==
  ASSUME TypeOK, ReadyIsNoted, PassInv, Environment
  PROVE  PassInv'
<1> USE DEF authorities
<1>0. ready \subseteq ready' /\ UNCHANGED crossNamespace
  BY NotedStep DEF Next
<1>1. CASE UserCreates \/ UserEdits \/ UserDeletes
  <2>1. cr'.adopted = cr.adopted /\ (cr'.adopt => cr.adopt)
    BY <1>1 DEF UserCreates, UserEdits, UserDeletes, TypeOK, CustomResource
  <2> QED
    BY <1>0, <1>1, <2>1, ElsewhereKeeps DEF UserCreates, UserEdits, UserDeletes
<1>2. CASE (\E n \in Namespaces : AuthorityChanges(n)) \/ (\E c \in 1..MaxCerts : ExternalDelete(c))
  BY <1>0, <1>2, ElsewhereKeeps DEF AuthorityChanges, ExternalDelete
<1>3. CASE Crash
  BY <1>3, IdleKeeps DEF Crash, Goto
<1> QED
  BY <1>1, <1>2, <1>3 DEF Environment

\* A certificate is requested with what the pass resolved.
LEMMA RequestsStep ==
  ASSUME IInv, [Next]_vars
  PROVE  RequestsFromReferencedCA'
<1>0. TypeOK /\ ready \subseteq ready' /\ UNCHANGED crossNamespace
  BY NotedStep DEF IInv
<1>1. ASSUME \A c \in 1..MaxCerts : certs'[c].ref = certs[c].ref /\ certs'[c].ca = certs[c].ca
      PROVE  RequestsFromReferencedCA'
  BY <1>0, <1>1 DEF IInv, RequestsFromReferencedCA, named, referencedNamespace
<1>2. CASE Create /\ made # MaxCerts
  <2>1. /\ made + 1 \in 1..MaxCerts
        /\ certs' = [certs EXCEPT ![made + 1] =
                       [live |-> TRUE, ca |-> desired.arn, ref |-> desired.ref]]
    BY <1>0, <1>2, ReferencesAssumption DEF Create, TypeOK
  <2>2. named(desired.ref) => ResolvedTo(desired.ref, desired.arn)
    BY <1>2 DEF IInv, PassIsResolved, BranchIsRight, Create
  <2>3. \A c \in 1..MaxCerts : named(certs'[c].ref) => ResolvedTo(certs'[c].ref, certs'[c].ca)
    BY <1>0, <2>1, <2>2 DEF IInv, RequestsFromReferencedCA, ResolvedTo, TypeOK
  <2> QED
    BY <1>0, <2>3 DEF RequestsFromReferencedCA, ResolvedTo, named, referencedNamespace
<1>3. CASE Controller /\ ~(Create /\ made # MaxCerts)
  <2>1. \/ UNCHANGED certs
        \/ Exists(desired.cert) /\ certs' = [certs EXCEPT ![desired.cert].live = FALSE]
    BY <1>3 DEF Controller, Begin, Resolve, Read, Adopt, Manage, PatchFails, Create, PatchStatus,
                Delete, MarkUnmanaged
  <2>2. \A c \in 1..MaxCerts : certs'[c].ref = certs[c].ref /\ certs'[c].ca = certs[c].ca
    <3>1. CASE UNCHANGED certs
      BY <3>1
    <3>2. CASE certs' = [certs EXCEPT ![desired.cert].live = FALSE]
      BY <1>0, <3>2 DEF TypeOK, CertificateEntry
    <3> QED
      BY <2>1, <3>1, <3>2
  <2> QED
    BY <1>1, <2>2
<1>4. ASSUME NEW c \in 1..MaxCerts, ExternalDelete(c)
      PROVE  RequestsFromReferencedCA'
  BY <1>0, <1>1, <1>4 DEF ExternalDelete, TypeOK, CertificateEntry
<1>5. CASE UserCreates \/ UserEdits \/ UserDeletes \/ Crash
           \/ (\E n \in Namespaces : AuthorityChanges(n)) \/ UNCHANGED vars
  <2>1. UNCHANGED certs
    BY <1>5 DEF UserCreates, UserEdits, UserDeletes, Crash, AuthorityChanges, vars
  <2> QED
    BY <1>1, <2>1
<1> QED
  BY <1>2, <1>3, <1>4, <1>5 DEF Next, Environment

-----------------------------------------------------------------------------

\* Everything together is invariant.
THEOREM ReferencesInvariance == Spec => []IInv
<1>1. Init => IInv
  <2> SUFFICES ASSUME Init PROVE IInv
    OBVIOUS
  <2>1. TypeOK
    BY TypeInit
  <2>2. ReadyIsNoted
    BY DEF Init, ReadyIsNoted, Ready, Absent
  <2>3. PassIsResolved /\ PassKnowsAdoption /\ BranchIsRight
    BY DEF Init, PassIsResolved, PassKnowsAdoption, BranchIsRight
  <2>4. RequestsFromReferencedCA
    BY DEF Init, RequestsFromReferencedCA, NoCertificate, named
  <2> QED
    BY <2>1, <2>2, <2>3, <2>4 DEF IInv
<1>2. IInv /\ [Next]_vars => IInv'
  <2> SUFFICES ASSUME IInv, [Next]_vars PROVE IInv'
    OBVIOUS
  <2>1. TypeOK'
    <3>1. CASE UNCHANGED vars
      BY <3>1 DEF vars, authorities, pass, IInv, TypeOK
    <3> QED
      BY <3>1, TypeController, TypeEnvironment DEF IInv, Next
  <2>2. ReadyIsNoted'
    BY NotedStep DEF IInv
  <2>3. PassInv'
    <3>1. PassInv
      BY DEF IInv, PassInv
    <3>2. CASE UNCHANGED vars
      BY <3>1, <3>2, ElsewhereKeeps DEF vars, authorities
    <3> QED
      BY <3>1, <3>2, PassController, PassEnvironment DEF IInv, Next
  <2>4. RequestsFromReferencedCA'
    BY RequestsStep
  <2> QED
    BY <2>1, <2>2, <2>3, <2>4 DEF IInv, PassInv
<1> QED
  BY <1>1, <1>2, PTL DEF Spec

\* Every state is well-formed.  TypeOK needs that a pass that adopts has found
\* a certificate: the Spec patch takes the ARN from its description.
THEOREM ReferencesTypeCorrect == Spec => []TypeOK
<1>1. IInv => TypeOK
  BY DEF IInv
<1> QED
  BY <1>1, ReferencesInvariance, PTL

\* A certificate requested for a resource that names its authority was
\* requested from that authority, resolved while it was ready and in a
\* namespace the flag admits (ResolveReferences, newCreateRequestPayload).
THEOREM RequestsFromCA == Spec => []RequestsFromReferencedCA
<1>1. IInv => RequestsFromReferencedCA
  BY DEF IInv
<1> QED
  BY <1>1, ReferencesInvariance, PTL

\* No step creates a certificate for a resource under the adoption policy, or
\* for one that has adopted, though the pass decides by its copy (MarkAdopted).
THEOREM AdoptedIsNotCreated == Spec => AdoptedNeverCreates
<1>1. IInv /\ [Next]_vars => [made' # made => ~cr.adopt /\ ~taken]_vars
  <2> SUFFICES ASSUME IInv, Next, made' # made
               PROVE  ~cr.adopt /\ ~taken
    OBVIOUS
  <2>1. Create
    BY DEF Next, Controller, Environment, Begin, Resolve, Read, Adopt, Manage, PatchFails,
           PatchStatus, Delete, MarkUnmanaged, UserCreates, UserEdits, UserDeletes,
           AuthorityChanges, ExternalDelete, Crash
  <2> QED
    BY <2>1 DEF IInv, Create, PassKnowsAdoption, BranchIsRight, ignoresReferenceErrors
<1> QED
  BY <1>1, ReferencesInvariance, PTL DEF Spec, AdoptedNeverCreates

\* No pass over a resource with a reference changes the ARN of the certificate
\* authority in its Spec, an adoption's patch included (ClearResolvedReferences).
THEOREM ResolvedStaysOut == Spec => ResolvedARNStaysOut
<1>1. IInv /\ [Next]_vars
        => [pc # "idle" /\ pc' # pc /\ desired.ref # Nil => cr'.arn = cr.arn]_vars
  <2> SUFFICES ASSUME IInv, Next, pc' # pc, desired.ref # Nil
               PROVE  cr'.arn = cr.arn
    OBVIOUS
  <2>0. TypeOK
    BY DEF IInv
  <2>1. CASE Adopt
    <3>1. /\ ClearResolvedReferences(desired).arn = 0
          /\ ClearResolvedReferences([desired EXCEPT !.arn = certs[desired.cert].ca]).arn = 0
      BY <2>0 DEF ClearResolvedReferences, TypeOK, Desired
    <3>2. adoptedARN = cr.arn
      BY <3>1 DEF adoptedARN
    <3> QED
      BY <2>0, <2>1, <3>2 DEF Adopt, MarkAdopted, MarkManaged, TypeOK, CustomResource
  <2>2. CASE Manage \/ PatchStatus \/ MarkUnmanaged
    BY <2>0, <2>2 DEF Manage, PatchStatus, MarkUnmanaged, MarkManaged, TypeOK, CustomResource
  <2>3. CASE Begin \/ Resolve \/ Read \/ PatchFails \/ Create \/ Delete \/ Crash
    BY <2>3 DEF Begin, Resolve, Read, PatchFails, Create, Delete, Crash
  <2>4. ~(UserCreates \/ UserEdits \/ UserDeletes \/ (\E n \in Namespaces : AuthorityChanges(n))
          \/ \E c \in 1..MaxCerts : ExternalDelete(c))
    BY DEF UserCreates, UserEdits, UserDeletes, AuthorityChanges, ExternalDelete, pass
  <2> QED
    BY <2>1, <2>2, <2>3, <2>4 DEF Next, Controller, Environment
<1> QED
  BY <1>1, ReferencesInvariance, PTL DEF Spec, ResolvedARNStaysOut
=============================================================================
