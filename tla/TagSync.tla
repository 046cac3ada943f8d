------------------------------- MODULE TagSync -------------------------------
(***************************************************************************)
(* The tags of one certificate: what the user wrote in Spec.Tags, what ACM *)
(* holds, and the passes that bring the second to the first.  EnsureTags   *)
(* adds the controller's own tags, ReadOne mirrors the tags AWS injected,  *)
(* SyncTags removes before it adds, one request each, and either request   *)
(* may fail after the other took effect.                                   *)
(*                                                                         *)
(* A tag list is a function from keys to values, Absent where the key is   *)
(* not in it; convertToOrderedACKTags and SyncTags both keep one value per *)
(* key.  The order of the list is left out.  The value of a tag is a       *)
(* pointer: NoValue is a tag whose value is nil, which is legal in the     *)
(* Spec and in ACM.                                                        *)
(***************************************************************************)
EXTENDS Naturals, FiniteSets

CONSTANTS
  UserKeys,    \* keys users and other tools set
  AWSKeys,     \* keys that start with "aws:"
  DefaultKeys, \* keys of the controller's default tags
  Values,
  Empty,       \* the empty string
  DefaultValue,
  NoValue,     \* the nil pointer for a value
  Absent,      \* the key is not in the list
  TagLimit,    \* tags ACM admits on a certificate
  MaxEdits,    \* edits of Spec.Tags
  MaxForeign,  \* changes made to the tags behind the controller's back
  MaxFaults    \* failed requests

Keys == UserKeys \cup AWSKeys \cup DefaultKeys

\* There are finitely many keys (ACM bounds their length), their kinds do not
\* overlap, and Absent is not a value.
ASSUME TagAssumption ==
  /\ IsFiniteSet(Keys)
  /\ UserKeys \cap AWSKeys = {} /\ UserKeys \cap DefaultKeys = {} /\ AWSKeys \cap DefaultKeys = {}
  /\ Empty \in Values /\ DefaultValue \in Values
  /\ NoValue \notin Values /\ Absent \notin Values \cup {NoValue}
  /\ TagLimit \in Nat /\ MaxEdits \in Nat /\ MaxForeign \in Nat /\ MaxFaults \in Nat

TagValues == Values \cup {NoValue, Absent}

Tags == [Keys -> TagValues]

VARIABLES
  spec,      \* Spec.Tags
  acm,       \* the tags ACM holds
  pc,        \* the next request of the pass
  desired,   \* the pass's copy of Spec.Tags
  latest,    \* the tags it listed
  queued,    \* the work queue holds the resource
  managed,   \* created or adopted by the controller
  used,      \* how much of each budget is spent
  disturbed, \* history: the tags changed under the pass since it listed them
  original   \* history: the tags ACM held when the resource appeared, until
             \* users or others change any

vars == <<spec, acm, pc, desired, latest, queued, managed, used, disturbed, original>>

TypeOK ==
  /\ spec \in Tags
  /\ acm \in Tags
  /\ pc \in {"idle", "list", "remove", "add", "adopt"}
  /\ desired \in Tags
  /\ latest \in Tags
  /\ queued \in BOOLEAN
  /\ used \in [edits : 0..MaxEdits, foreign : 0..MaxForeign, faults : 0..MaxFaults]
  /\ managed \in BOOLEAN
  /\ disturbed \in BOOLEAN
  /\ original \in Tags

NoTags == [k \in Keys |-> Absent]

present(t) == {k \in Keys : t[k] # Absent}

-----------------------------------------------------------------------------

\* convertToOrderedACKTags and back: a missing value becomes the empty string.
convertToOrderedACKTags(t) == [k \in Keys |-> IF t[k] = NoValue THEN Empty ELSE t[k]]

\* Mutant: a default tag gets its key for its value.
EnsureTagsSwapped(t) ==
  [k \in Keys |-> IF k \in DefaultKeys /\ t[k] = Absent THEN k ELSE t[k]]

\* acktags.Merge with the default tags: the ones users set are kept.
EnsureTags(t) ==
  [k \in Keys |-> IF k \in DefaultKeys /\ t[k] = Absent THEN DefaultValue
                  ELSE convertToOrderedACKTags(t)[k]]

\* Mutant: the test for the controller's own tags is the wrong way round.
FilterUserTags(t) ==
  [k \in Keys |-> IF k \in AWSKeys \/ k \notin DefaultKeys THEN Absent
                  ELSE convertToOrderedACKTags(t)[k]]

ignoreSystemTags(t) == [k \in Keys |-> IF k \in AWSKeys \cup DefaultKeys THEN Absent ELSE t[k]]

\* Neither the tags of AWS nor the controller's own go into the Spec of an
\* adopted resource.
FilterSystemTags(t) == ignoreSystemTags(convertToOrderedACKTags(t))

\* Mutant: nothing is mirrored.
MirrorNothing(a, b) == a

syncAWSTags(a, b) == [k \in Keys |-> IF k \in AWSKeys /\ b[k] # Absent THEN b[k] ELSE a[k]]

\* What AWS injected is taken as desired.
mirrorAWSTags(a, b) == syncAWSTags(convertToOrderedACKTags(a), convertToOrderedACKTags(b))

\* newResourceDelta on the tags.
tagsDiffer(a, b) == convertToOrderedACKTags(a) # convertToOrderedACKTags(b)

\* Mutant: a key that is there is not added again, whatever its value.
AddMissingKeys(d, e) == present(d) \ present(e)

toAdd(d, e) == {k \in present(d) : e[k] # d[k]}

toDelete(d, e) == present(e) \ present(d)

\* SyncTags reads the value of every listed tag through its pointer, to
\* compare it with the desired one or to log its removal, before it sends
\* anything.
panics(d, e) ==
  \/ \E k \in present(d) : e[k] = NoValue
  \/ \E k \in toDelete(d, e) : e[k] = NoValue

\* RemoveTagsFromCertificate is sent key and value, and removes a tag only
\* while it has that value.
afterRemove(t, keys, values) ==
  [k \in Keys |-> IF k \in keys /\ t[k] = values[k] THEN Absent ELSE t[k]]

afterAdd(t, keys, values) == [k \in Keys |-> IF k \in keys THEN values[k] ELSE t[k]]

fits(t) == Cardinality(present(t)) <= TagLimit

-----------------------------------------------------------------------------

\* The certificate was requested with the tags of the resource, or it was
\* there before and the resource, which names no tags, is to adopt it.
Init ==
  /\ \/ /\ spec \in {t \in Tags : present(t) \subseteq UserKeys}
        /\ acm = EnsureTags(spec)
        /\ managed = TRUE
     \/ /\ spec = NoTags
        /\ acm \in Tags
        /\ managed = FALSE
  /\ fits(acm)
  /\ original = acm
  /\ pc = "idle"
  /\ desired = NoTags
  /\ latest = NoTags
  /\ queued = TRUE
  /\ used = [edits |-> 0, foreign |-> 0, faults |-> 0]
  /\ disturbed = FALSE

\* A pass is requeued unless its error was terminal.
EndPass(terminal) ==
  /\ pc' = "idle"
  /\ desired' = NoTags
  /\ latest' = NoTags
  /\ queued' = (queued \/ ~terminal)

Fault ==
  /\ used.faults < MaxFaults
  /\ used' = [used EXCEPT !.faults = @ + 1]

Begin ==
  /\ pc = "idle"
  /\ queued
  /\ managed
  /\ queued' = FALSE
  /\ desired' = EnsureTags(spec)
  /\ pc' = "list"
  /\ UNCHANGED <<spec, acm, latest, managed, used, disturbed, original>>

\* A pass over a resource to adopt lists the tags of the certificate ...
AdoptRead ==
  /\ pc = "idle"
  /\ queued
  /\ ~managed
  /\ queued' = FALSE
  /\ latest' = acm
  /\ pc' = "adopt"
  /\ UNCHANGED <<spec, acm, desired, managed, used, disturbed, original>>

\* ... and patches them, filtered, into the Spec.
AdoptPatch ==
  /\ pc = "adopt"
  /\ spec' = FilterSystemTags(latest)
  /\ managed' = TRUE
  /\ EndPass(FALSE)
  /\ UNCHANGED <<acm, used, disturbed, original>>

\* ListTags in sdkFind, the mirror, and newResourceDelta on the tags; SyncTags
\* may end the pass in a panic, which the runtime recovers from and retries.
ListTags ==
  /\ pc = "list"
  /\ LET d == mirrorAWSTags(desired, acm)
     IN IF ~tagsDiffer(d, acm) \/ panics(d, acm) THEN EndPass(FALSE)
        ELSE /\ desired' = d
             /\ latest' = acm
             /\ pc' = IF toDelete(d, acm) # {} THEN "remove" ELSE "add"
             /\ UNCHANGED queued
  /\ disturbed' = FALSE
  /\ UNCHANGED <<spec, acm, managed, used, original>>

\* Mutant: the add goes out with the removal still to come.
RemoveLater ==
  /\ pc = "remove"
  /\ IF toAdd(desired, latest) # {}
     THEN pc' = "add" /\ UNCHANGED <<acm, desired, latest, queued>>
     ELSE /\ acm' = afterRemove(acm, toDelete(desired, latest), latest)
          /\ EndPass(FALSE)
  /\ UNCHANGED <<spec, managed, used, disturbed, original>>

RemoveTags ==
  /\ pc = "remove"
  /\ acm' = afterRemove(acm, toDelete(desired, latest), latest)
  /\ IF toAdd(desired, latest) # {}
     THEN pc' = "add" /\ UNCHANGED <<desired, latest, queued>>
     ELSE EndPass(FALSE)
  /\ UNCHANGED <<spec, managed, used, disturbed, original>>

\* ACM takes all the tags or, past its limit, none: TooManyTagsException is
\* terminal.
AddTags ==
  /\ pc = "add"
  /\ LET t == afterAdd(acm, toAdd(desired, latest), desired)
     IN acm' = (IF fits(t) THEN t ELSE acm) /\ EndPass(~fits(t))
  /\ UNCHANGED <<spec, managed, used, disturbed, original>>

\* A request fails; a remove or an add may have taken effect.
RequestFails ==
  /\ pc \in {"list", "remove", "add", "adopt"}
  /\ Fault
  /\ \/ UNCHANGED acm
     \/ /\ pc = "remove"
        /\ acm' = afterRemove(acm, toDelete(desired, latest), latest)
     \/ /\ pc = "add"
        /\ acm' = afterAdd(acm, toAdd(desired, latest), desired)
        /\ fits(acm')
  /\ EndPass(FALSE)
  /\ UNCHANGED <<spec, managed, disturbed, original>>

Pass == Begin \/ AdoptRead \/ AdoptPatch \/ ListTags \/ RemoveTags \/ AddTags \/ RequestFails

\* An edit brings a parked resource back.
UserEdits ==
  /\ used.edits < MaxEdits
  /\ used' = [used EXCEPT !.edits = @ + 1]
  /\ \E k \in UserKeys : \E v \in TagValues :
       spec[k] # v /\ spec' = [spec EXCEPT ![k] = v]
  /\ queued' = TRUE
  /\ original' = NoTags
  /\ UNCHANGED <<acm, pc, desired, latest, managed, disturbed>>

\* AWS injects or takes back a tag of its own, or another tool changes one.
ForeignChange ==
  /\ used.foreign < MaxForeign
  /\ used' = [used EXCEPT !.foreign = @ + 1]
  /\ \E k \in UserKeys \cup AWSKeys : \E v \in TagValues :
       acm[k] # v /\ acm' = [acm EXCEPT ![k] = v]
  /\ fits(acm')
  /\ disturbed' = TRUE
  /\ original' = NoTags
  /\ UNCHANGED <<spec, pc, desired, latest, queued, managed>>

Next == Pass \/ UserEdits \/ ForeignChange

Spec == Init /\ [][Next]_vars

FairSpec == Spec /\ WF_vars(Pass)

-----------------------------------------------------------------------------

\* No request removes or overwrites a tag that AWS had injected when the tags
\* were listed: ACM would refuse the whole request (mirrorAWSTags).
AWSTagsUntouched ==
  /\ pc = "remove" => toDelete(desired, latest) \cap AWSKeys = {}
  /\ pc = "add" => toAdd(desired, latest) \cap AWSKeys = {}

\* Tags that fit the limit are never refused for it, because SyncTags removes
\* before it adds: only a tag changed by others after the list parks such a
\* resource.
FittingTagsAreNotRefused ==
  pc = "add" /\ ~disturbed /\ fits(desired)
    => fits(afterAdd(acm, toAdd(desired, latest), desired))

\* The last pass ended in a terminal error.
Parked == pc = "idle" /\ ~queued

\* What ACM holds for the keys the controller manages.
InSync == \A k \in Keys \ AWSKeys : convertToOrderedACKTags(acm)[k] = EnsureTags(spec)[k]

\* A tag without a value, which SyncTags cannot get past.
Unvalued == \E k \in Keys : acm[k] = NoValue

\* When users and others leave the tags alone, ACM ends up with those of the
\* Spec and the controller's, whatever requests failed half way, unless the
\* resource is parked or someone left a tag without a value.
TagsConverge == <>[](InSync \/ Parked \/ Unvalued)

\* Adopting a certificate takes over its tags: as long as nobody edits the
\* Spec or the tags, no user tag is removed or changed by the syncs that
\* follow, although the list goes through the Spec without the tags of AWS
\* and the controller (FilterSystemTags).
AdoptionKeepsTags ==
  used.edits = 0 /\ used.foreign = 0 => \A k \in UserKeys : acm[k] = original[k]

\* A sync whose requests all succeed, and under which nobody else changes a
\* tag, leaves ACM with exactly the tags the pass wanted, at the limit too:
\* together the two requests of SyncTags are the one step of Reconciler.
SyncReachesDesired ==
  [][(pc \in {"remove", "add"} /\ pc' = "idle" /\ used' = used /\ ~disturbed /\ fits(desired))
       => (acm' = desired)]_vars
=============================================================================
