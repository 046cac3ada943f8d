------------------------------ MODULE References ------------------------------
(***************************************************************************)
(* A Certificate that names its certificate authority by reference, and a  *)
(* Certificate that adopts one ACM already holds: the passes that resolve  *)
(* the reference, request or adopt, and keep the resolved ARN out of the   *)
(* Spec in the cluster, while the CertificateAuthority resources appear,   *)
(* become ready, break and go.                                             *)
(*                                                                         *)
(* The pass here is the part of a pass that deals with references and      *)
(* adoption; Reconciler has the rest of it.  ARNs are numbers, 0 for nil;  *)
(* one authority per namespace can be named.                               *)
(***************************************************************************)
EXTENDS Naturals

CONSTANTS
  Nil,                   \* the nil pointer
  Namespaces,
  Home,                  \* the namespace of the resource
  Resources,             \* the resources users create: [ref, arn, adopt, field]
  MaxARNs,               \* authorities ever given an ARN
  MaxCerts,              \* certificates the account may ever hold
  MaxEvents,             \* edits, changes of the authorities, foreign deletions
  MaxFailures            \* failed reads and patches, controller restarts

\* A reference: From is nil, or names nothing, or names the authority of a
\* namespace, its own unless it says otherwise.
Reference == [from : {"nil", "unnamed", "named"}, ns : Namespaces \cup {Nil}]

Refs == {Nil} \cup Reference

\* The bounds are numbers, and users create resources the schema admits; field
\* is the ARN in the adoption annotation, 0 if it has none.
ASSUME ReferencesAssumption ==
  /\ Home \in Namespaces
  /\ Nil \notin Namespaces \cup Reference
  /\ MaxARNs \in Nat \ {0} /\ MaxCerts \in Nat \ {0}
  /\ MaxEvents \in Nat /\ MaxFailures \in Nat
  /\ Resources \subseteq [ref : Refs, arn : 0..MaxARNs, adopt : BOOLEAN, field : 0..1]

VARIABLES
  cr,       \* the custom resource as the API server has it
  crossNamespace, \* the controller's flag EnableCrossNamespace
  ca,       \* the CertificateAuthority resources, by namespace
  given,    \* how many authorities have been given an ARN
  certs,    \* the certificates in ACM
  made,     \* how many there have been
  pc,       \* the next call of the pass
  desired,  \* the pass's copy of the resource
  queued,   \* the work queue holds the resource
  used,     \* how much of each budget is spent
  ready,    \* history: <<namespace, ARN>> of every authority that was ready
  taken     \* history: the resource has adopted a certificate

pass == <<pc, desired>>

authorities == <<crossNamespace, ca, given, ready>>

vars == <<cr, authorities, certs, made, pass, queued, used, taken>>

\* A CertificateAuthority: two of its conditions, and the ARN in its Status.
CertificateAuthority ==
  [exists : BOOLEAN, terminal : BOOLEAN, synced : BOOLEAN, arn : 0..MaxARNs]

Absent == [exists |-> FALSE, terminal |-> FALSE, synced |-> FALSE, arn |-> 0]

\* A certificate: whether it is there, its authority (0: public), and the
\* reference of the resource it was requested for (Nil: not by this resource).
CertificateEntry == [live : BOOLEAN, ca : 0..MaxARNs, ref : Refs]

NoCertificate == [live |-> FALSE, ca |-> 0, ref |-> Nil]

\* The condition ACK.ReferencesResolved.
Resolved == {"Unset", "True", "Unknown", "False"}

CustomResource ==
  [phase : {"none", "live", "deleting", "gone"}, ref : Refs, arn : 0..MaxARNs,
   adopt : BOOLEAN, field : 0..1, managed : BOOLEAN, adopted : BOOLEAN,
   cert : 0..MaxCerts, resolved : Resolved]

Desired ==
  [ref : Refs, arn : 0..MaxARNs, cert : 0..MaxCerts, resolved : Resolved,
   deleted : BOOLEAN, adopt : BOOLEAN, adopting : BOOLEAN, adopted : BOOLEAN]

NoDesired ==
  [ref |-> Nil, arn |-> 0, cert |-> 0, resolved |-> "Unset",
   deleted |-> FALSE, adopt |-> FALSE, adopting |-> FALSE, adopted |-> FALSE]

TypeOK ==
  /\ cr \in CustomResource
  /\ crossNamespace \in BOOLEAN
  /\ ca \in [Namespaces -> CertificateAuthority]
  /\ given \in 0..MaxARNs
  /\ certs \in [1..MaxCerts -> CertificateEntry]
  /\ made \in 0..MaxCerts
  /\ pc \in {"idle", "resolve", "read", "adopt", "manage", "create", "patchStatus",
             "delete", "unmanage"}
  /\ desired \in Desired
  /\ queued \in BOOLEAN
  /\ used \in [events : 0..MaxEvents, failures : 0..MaxFailures]
  /\ ready \subseteq Namespaces \X (1..MaxARNs)
  /\ taken \in BOOLEAN

Exists(c) == c # 0 /\ certs[c].live

\* What a reference may be resolved to.
Ready(a) == a.exists /\ ~a.terminal /\ a.synced /\ a.arn # 0

\* Every authority is absent, or one is ready from the start; a certificate to
\* adopt is there already.
Init ==
  /\ \E r \in Resources :
       /\ cr = [phase |-> "none", ref |-> r.ref, arn |-> r.arn, adopt |-> r.adopt,
                field |-> r.field, managed |-> FALSE, adopted |-> FALSE, cert |-> 0,
                resolved |-> "Unset"]
       /\ made = IF r.adopt THEN 1 ELSE 0
  /\ crossNamespace \in BOOLEAN
  /\ given = 1
  /\ \/ ca = [n \in Namespaces |-> Absent]
     \/ \E m \in Namespaces :
          ca = [n \in Namespaces |->
                  IF n = m THEN [exists |-> TRUE, terminal |-> FALSE, synced |-> TRUE, arn |-> 1]
                  ELSE Absent]
  /\ ready = {<<n, 1>> : n \in {m \in Namespaces : Ready(ca[m])}}
  /\ certs = [c \in 1..MaxCerts |->
                IF c <= made THEN [live |-> TRUE, ca |-> 1, ref |-> Nil] ELSE NoCertificate]
  /\ pc = "idle"
  /\ desired = NoDesired
  /\ queued = FALSE
  /\ used = [events |-> 0, failures |-> 0]
  /\ taken = FALSE

-----------------------------------------------------------------------------
(* Resolution.                                                             *)

\* A resource may have the reference or the ARN.
validateReferenceFields(r) == r.ref = Nil \/ r.arn = 0

hasReferences(r) == r.ref # Nil /\ r.ref.from # "nil"

\* The namespace of the reference, the resource's own if it names none.
referencedNamespace(r) == IF r.ns = Nil THEN Home ELSE r.ns

\* The controller's flag decides on references to other namespaces.
ResolveCrossNamespaceReference(r) == crossNamespace \/ referencedNamespace(r) = Home

\* Mutant: an authority that is not synced will do.
AnyAuthority(a) ==
  IF ~a.exists THEN "notFound" ELSE IF a.terminal THEN "terminal"
  ELSE IF a.arn = 0 THEN "missingTargetField" ELSE "none"

\* The first thing that is wrong with the authority, "none" if nothing is.
getReferencedResourceState_CertificateAuthority(a) ==
  CASE ~a.exists -> "notFound"
    [] a.exists /\ a.terminal -> "terminal"
    [] a.exists /\ ~a.terminal /\ ~a.synced -> "notSynced"
    [] a.exists /\ ~a.terminal /\ a.synced /\ a.arn = 0 -> "missingTargetField"
    [] OTHER -> "none"

\* The error of resolving the one reference, and the ARN it leaves in the Spec.
resolveReferenceForCertificateAuthorityARN(r) ==
  LET a   == ca[referencedNamespace(r.ref)]
      err == IF r.ref.from = "unnamed" THEN "unnamed"
             ELSE IF ~ResolveCrossNamespaceReference(r.ref) THEN "crossNamespace"
             ELSE getReferencedResourceState_CertificateAuthority(a)
  IN IF ~hasReferences(r) THEN [err |-> "none", arn |-> r.arn]
     ELSE [err |-> err, arn |-> IF err = "none" THEN a.arn ELSE r.arn]

\* Mutant: the fields are looked at after the ARN was put among them.
ResolveThenValidate(r) ==
  LET res == resolveReferenceForCertificateAuthorityARN(r)
  IN [arn |-> res.arn,
      err |-> IF res.err = "none" /\ ~validateReferenceFields([r EXCEPT !.arn = res.arn])
              THEN "both" ELSE res.err]

\* The fields are looked at before the ARN is put among them, and the error of
\* the resolution, if there is one, is the one returned.
ResolveReferences(r) ==
  LET res == resolveReferenceForCertificateAuthorityARN(r)
  IN [arn |-> res.arn,
      err |-> IF res.err = "none" /\ ~validateReferenceFields(r) THEN "both" ELSE res.err]

\* Mutant: the resolved ARN is left in.
KeepResolvedReferences(r) == r

\* What goes to the cluster has the reference and not its resolution.
ClearResolvedReferences(r) == IF r.ref # Nil THEN [r EXCEPT !.arn = 0] ELSE r

\* The condition the runtime derives from the error.
WithReferencesResolvedCondition(err) ==
  CASE err = "none" -> "True" [] err = "terminal" -> "False" [] OTHER -> "Unknown"

\* Mutant: deletion, too, wants its references resolved.
OnlyAdoptionIgnoresErrors(r) == r.adopt

\* A deletion and a resource under the adoption policy go on unresolved.
ignoresReferenceErrors(r) == r.deleted \/ r.adopt

-----------------------------------------------------------------------------
(* A pass.                                                                 *)

Fault ==
  /\ used.failures < MaxFailures
  /\ used' = [used EXCEPT !.failures = @ + 1]

Goto(next, r) ==
  /\ pc' = next
  /\ desired' = r

\* The pass ends and leaves the Status as it is.
EndPass(again) ==
  /\ Goto("idle", NoDesired)
  /\ queued' = (queued \/ again)

\* Mutant: a missing ARN is taken for the empty string.
PopulateEmptyARN(r) == [ok |-> TRUE, cert |-> IF r.field = 0 THEN Nil ELSE r.field]

PopulateResourceFromAnnotation(r) == [ok |-> r.field # 0, cert |-> r.field]

\* The runtime takes the resource off the queue and reads it afresh.  One under
\* the adoption policy that is not managed yet gets its ARN from the annotation;
\* without one there the pass ends in a terminal error.
Begin ==
  /\ pc = "idle"
  /\ queued
  /\ cr.phase \in {"live", "deleting"}
  /\ LET adopting == cr.phase = "live" /\ cr.adopt /\ ~cr.managed
         populated == PopulateResourceFromAnnotation(cr)
     IN IF adopting /\ ~populated.ok THEN UNCHANGED pass
        ELSE Goto("resolve",
                  [ref |-> cr.ref, arn |-> cr.arn,
                   cert |-> IF adopting THEN populated.cert ELSE cr.cert,
                   resolved |-> "Unset", deleted |-> cr.phase = "deleting",
                   adopt |-> cr.adopt, adopting |-> adopting, adopted |-> cr.adopted])
  /\ queued' = FALSE
  /\ UNCHANGED <<cr, authorities, certs, made, used, taken>>

\* ResolveReferences works on the pass's copy in place; an error ends the pass
\* with the condition and a retry, unless it is one to ignore.
Resolve ==
  /\ pc = "resolve"
  /\ \E failed \in BOOLEAN :
       LET res  == ResolveReferences(desired)
           err  == IF failed THEN "get" ELSE res.err
           cond == IF hasReferences(desired) \/ err # "none"
                   THEN WithReferencesResolvedCondition(err) ELSE "Unset"
       IN /\ IF failed THEN hasReferences(desired) /\ Fault ELSE UNCHANGED used
          /\ Goto(IF err # "none" /\ ~ignoresReferenceErrors(desired) THEN "patchStatus" ELSE "read",
                  [desired EXCEPT !.resolved = cond,
                                  !.arn = IF failed THEN @ ELSE res.arn])
  /\ UNCHANGED <<cr, authorities, certs, made, queued, taken>>

\* ReadOne.  What is found is adopted, or kept in step (see Reconciler); a
\* resource under the adoption policy, or marked adopted, is never created.
Read ==
  /\ pc = "read"
  /\ LET found == Exists(desired.cert)
     IN IF ~found /\ ~desired.deleted /\ (desired.adopt \/ desired.adopted)
        THEN EndPass(TRUE)
        ELSE /\ Goto(CASE desired.deleted -> IF found THEN "delete" ELSE "unmanage"
                       [] ~desired.deleted /\ found -> IF desired.adopting THEN "adopt" ELSE "patchStatus"
                       [] OTHER -> IF cr.managed THEN "create" ELSE "manage",
                     desired)
             /\ UNCHANGED queued
  /\ UNCHANGED <<cr, authorities, certs, made, used, taken>>

\* The API server refuses to change an ARN that is set.
admitted(arn) == cr.arn = 0 \/ arn = cr.arn

\* What the Spec patch of an adoption makes of the ARN: the observed one, where
\* it differs from the pass's, both without what was resolved.
adoptedARN ==
  LET was == ClearResolvedReferences(desired)
      now == ClearResolvedReferences([desired EXCEPT !.arn = certs[desired.cert].ca])
  IN IF now.arn # was.arn THEN now.arn ELSE cr.arn

\* Mutant: the annotation is set on a copy.
MarkNothing(r) == r

MarkAdopted(r) == [r EXCEPT !.adopted = TRUE]

MarkManaged(r) == [r EXCEPT !.managed = TRUE]

\* The finalizer, the mark and the observed Spec go out in one patch.
Adopt ==
  /\ pc = "adopt"
  /\ cr.phase # "gone"
  /\ admitted(adoptedARN)
  /\ cr' = MarkAdopted(MarkManaged([cr EXCEPT !.arn = adoptedARN]))
  /\ taken' = TRUE
  /\ Goto("patchStatus", desired)
  /\ UNCHANGED <<authorities, certs, made, queued, used>>

\* The finalizer is stored before anything is requested.
Manage ==
  /\ pc = "manage"
  /\ cr.phase # "gone"
  /\ cr' = MarkManaged(cr)
  /\ Goto("create", desired)
  /\ UNCHANGED <<authorities, certs, made, queued, used, taken>>

PatchFails ==
  /\ pc \in {"adopt", "manage"}
  /\ \/ cr.phase = "gone" /\ UNCHANGED used
     \/ pc = "adopt" /\ ~admitted(adoptedARN) /\ UNCHANGED used
     \/ Fault
  /\ EndPass(TRUE)
  /\ UNCHANGED <<cr, authorities, certs, made, taken>>

\* RequestCertificate with the ARN the pass has: without one, a public
\* certificate.  At the quota nothing is made.
Create ==
  /\ pc = "create"
  /\ IF made = MaxCerts
     THEN Goto("patchStatus", desired) /\ UNCHANGED <<certs, made>>
     ELSE /\ made' = made + 1
          /\ certs' = [certs EXCEPT ![made + 1] =
                         [live |-> TRUE, ca |-> desired.arn, ref |-> desired.ref]]
          /\ Goto("patchStatus", [desired EXCEPT !.cert = made + 1])
  /\ UNCHANGED <<cr, authorities, queued, used, taken>>

PatchStatus ==
  /\ pc = "patchStatus"
  /\ \/ /\ cr' = IF cr.phase = "gone" THEN cr
                 ELSE [cr EXCEPT !.cert = desired.cert, !.resolved = desired.resolved]
        /\ UNCHANGED used
     \/ Fault /\ UNCHANGED cr
  /\ EndPass(TRUE)
  /\ UNCHANGED <<authorities, certs, made, taken>>

Delete ==
  /\ pc = "delete"
  /\ \/ /\ Exists(desired.cert)
        /\ certs' = [certs EXCEPT ![desired.cert].live = FALSE]
        /\ Goto("unmanage", desired)
        /\ UNCHANGED <<used, queued>>
     \/ /\ (~Exists(desired.cert) /\ UNCHANGED used) \/ Fault
        /\ EndPass(TRUE)
        /\ UNCHANGED certs
  /\ UNCHANGED <<cr, authorities, made, taken>>

MarkUnmanaged ==
  /\ pc = "unmanage"
  /\ \/ /\ cr' = [cr EXCEPT !.phase = "gone", !.managed = FALSE]
        /\ EndPass(FALSE)
        /\ UNCHANGED used
     \/ Fault /\ EndPass(TRUE) /\ UNCHANGED cr
  /\ UNCHANGED <<authorities, certs, made, taken>>

Controller ==
  \/ Begin \/ Resolve \/ Read \/ Adopt \/ Manage \/ PatchFails \/ Create
  \/ PatchStatus \/ Delete \/ MarkUnmanaged

-----------------------------------------------------------------------------
(* Users, the authorities and their controller, ACM, restarts.             *)

UserCreates ==
  /\ cr.phase = "none"
  /\ cr' = [cr EXCEPT !.phase = "live"]
  /\ queued' = TRUE
  /\ UNCHANGED <<pass, authorities, certs, made, used, taken>>

\* Another reference, an ARN where there is none or none where there is one,
\* no adoption policy any more.
UserEdits ==
  /\ cr.phase = "live"
  /\ used.events < MaxEvents
  /\ used' = [used EXCEPT !.events = @ + 1]
  /\ \/ \E r \in Resources : r.ref # cr.ref /\ cr' = [cr EXCEPT !.ref = r.ref]
     \/ \E a \in IF cr.arn = 0 THEN 1..MaxARNs ELSE {0} : cr' = [cr EXCEPT !.arn = a]
     \/ cr.adopt /\ cr' = [cr EXCEPT !.adopt = FALSE]
  /\ queued' = TRUE
  /\ UNCHANGED <<pass, authorities, certs, made, taken>>

UserDeletes ==
  /\ cr.phase = "live"
  /\ cr' = [cr EXCEPT !.phase = IF cr.managed THEN "deleting" ELSE "gone"]
  /\ queued' = TRUE
  /\ UNCHANGED <<pass, authorities, certs, made, used, taken>>

\* The authority of a namespace is created, gets its conditions and, once, its
\* ARN, or goes.
AuthorityChanges(n) ==
  /\ used.events < MaxEvents
  /\ used' = [used EXCEPT !.events = @ + 1]
  /\ \/ /\ ca[n].exists
        /\ ca' = [ca EXCEPT ![n] = Absent]
        /\ UNCHANGED given
     \/ \E t, s \in BOOLEAN :
          /\ ca' = [ca EXCEPT ![n] = [@ EXCEPT !.exists = TRUE, !.terminal = t, !.synced = s]]
          /\ UNCHANGED given
     \/ /\ ca[n].exists /\ ca[n].arn = 0 /\ given < MaxARNs
        /\ given' = given + 1
        /\ ca' = [ca EXCEPT ![n].arn = given + 1]
  /\ ready' = ready \cup {<<m, ca'[m].arn>> : m \in {k \in Namespaces : Ready(ca'[k])}}
  /\ UNCHANGED <<pass, cr, crossNamespace, certs, made, queued, taken>>

ExternalDelete(c) ==
  /\ used.events < MaxEvents
  /\ certs[c].live
  /\ certs' = [certs EXCEPT ![c].live = FALSE]
  /\ used' = [used EXCEPT !.events = @ + 1]
  /\ UNCHANGED <<pass, cr, authorities, made, queued, taken>>

Crash ==
  /\ used.failures < MaxFailures
  /\ pc # "idle" \/ ~queued
  /\ used' = [used EXCEPT !.failures = @ + 1]
  /\ Goto("idle", NoDesired)
  /\ queued' = TRUE
  /\ UNCHANGED <<cr, authorities, certs, made, taken>>

Environment ==
  \/ UserCreates \/ UserEdits \/ UserDeletes
  \/ \E n \in Namespaces : AuthorityChanges(n)
  \/ \E c \in 1..MaxCerts : ExternalDelete(c)
  \/ Crash

Next == Controller \/ Environment

Spec == Init /\ [][Next]_vars

\* A controller that is up works its queue off; nobody else owes a step.
FairSpec == Spec /\ WF_vars(Controller)

-----------------------------------------------------------------------------

named(r) == r # Nil /\ r.from = "named"

\* A certificate requested for a resource whose reference names an authority
\* was requested from that authority, from a namespace the flag admits, and
\* the authority was ready when it was resolved, though authorities break and
\* go, and references change, between the resolution and the request
\* (ResolveReferences, newCreateRequestPayload).
RequestsFromReferencedCA ==
  \A c \in 1..MaxCerts : named(certs[c].ref) =>
    LET n == referencedNamespace(certs[c].ref)
    IN <<n, certs[c].ca>> \in ready /\ (crossNamespace \/ n = Home)

\* A resource under the adoption policy, or that has adopted a certificate, is
\* never given a new one, though the certificate, the policy annotation and
\* the controller may go at any time (MarkAdopted, PopulateResourceFromAnnotation).
AdoptedNeverCreates ==
  [][made' # made => ~cr.adopt /\ ~taken]_vars

\* No pass that has seen a reference puts a certificate authority's ARN into
\* the Spec in the cluster, where the next pass would refuse it (both set):
\* neither the resolved one nor the observed one (ClearResolvedReferences).
ResolvedARNStaysOut ==
  [][pc # "idle" /\ pc' # pc /\ desired.ref # Nil => cr'.arn = cr.arn]_vars

\* Once things are quiet, a resource whose reference may be resolved has been:
\* its condition says so, and it has its certificate unless the quota is
\* reached, whatever the authority went through before.
ReadyReferenceIsUsed ==
  <>[](cr.phase = "live" /\ named(cr.ref) /\ cr.arn = 0 /\ ~cr.adopt /\ ~cr.adopted
         /\ ResolveCrossNamespaceReference(cr.ref) /\ Ready(ca[referencedNamespace(cr.ref)])
         => cr.resolved = "True" /\ (Exists(cr.cert) \/ made = MaxCerts))

\* A resource being deleted goes away although its authority went first.
DeletionCompletes == cr.phase = "deleting" ~> cr.phase = "gone"
=============================================================================
