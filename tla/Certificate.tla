----------------------------- MODULE Certificate -----------------------------
(***************************************************************************)
(* The Certificate resource as data, and the functions of the resource     *)
(* manager that compute with it: what sdkFind makes of a description, what *)
(* newResourceDelta finds different, what sdkCreate is about to do, what   *)
(* LateInitialize fills in, and which conditions a call leaves behind.     *)
(*                                                                         *)
(* A pointer field holds Nil or a value.  Counts, ARNs and serial numbers  *)
(* are naturals with 0 for an empty list or a nil pointer; secret key      *)
(* references are BOOLEAN, "the reference is there".                       *)
(***************************************************************************)
EXTENDS Naturals

CONSTANTS
  Nil,             \* the nil pointer
  Domains,         \* domain names
  Families,        \* key algorithms, spelling aside (RSA 2048, EC prime256v1)
  DefaultFamily,   \* what ACM picks when the request names none
  TagSets,         \* whole tag lists, opaque here (TagSync opens them)
  MaxCerts,        \* certificates the account may ever hold (quota)
  MaxSerial,       \* serial numbers ACM may ever hand out
  MaxNames         \* longest list of names or of validation options

\* The constants are what the definitions below take them for.
ASSUME CertificateAssumption ==
  /\ Domains # {}
  /\ DefaultFamily \in Families
  /\ TagSets # {}
  /\ MaxCerts \in Nat
  /\ MaxSerial \in Nat
  /\ MaxNames \in Nat \ {0}

\* Nil is not one of the values a pointer points to.
ASSUME NilAssumption ==
  /\ Nil \notin Domains
  /\ Nil \notin {"ENABLED", "DISABLED", "ISSUED", "IMPORTED"}
  /\ Nil \notin [ct : {"ENABLED", "DISABLED", Nil}, export : {"ENABLED", "DISABLED", Nil}]

\* Nor is it a key algorithm.
ASSUME NilAlgorithmAssumption == Nil \notin [family : Families, sep : {"_", "-"}]

-----------------------------------------------------------------------------
(* The shape of the resource.                                              *)

Preferences == {"ENABLED", "DISABLED"}

CertificateOptions == [ct : Preferences \cup {Nil}, export : Preferences \cup {Nil}]

\* A key algorithm is a name and the separator it is spelled with: the API
\* takes RSA_2048 and describes RSA-2048.
KeyAlgorithms == [family : Families, sep : {"_", "-"}]

CertificateSpec ==
  [certificate      : BOOLEAN,
   privateKey       : BOOLEAN,
   certificateChain : BOOLEAN,
   ca       : BOOLEAN,                      \* CertificateAuthorityARN
   domain   : Domains \cup {Nil},
   dvo      : 0..MaxNames,                  \* DomainValidationOptions
   alg      : KeyAlgorithms \cup {Nil},
   opts     : CertificateOptions \cup {Nil},
   san      : 0..MaxNames,                  \* SubjectAlternativeNames
   exportTo : BOOLEAN,
   tags     : TagSets]

States == {"PENDING_VALIDATION", "ISSUED", "FAILED", "EXPIRED"}
Types  == {"AMAZON_ISSUED", "PRIVATE", "IMPORTED"}

CertificateStatus ==
  [arn    : 0..MaxCerts,
   issued : BOOLEAN,                        \* IssuedAt is set
   serial : 0..MaxSerial,
   status : States \cup {Nil},
   type   : Types \cup {Nil}]

ConditionStatus == {"Unset", "True", "False"}
Conditions == [terminal : ConditionStatus, recoverable : ConditionStatus,
               synced : ConditionStatus, lateInit : ConditionStatus]

Resource == [spec : CertificateSpec, status : CertificateStatus, conds : Conditions]

NoStatus == [arn |-> 0, issued |-> FALSE, serial |-> 0, status |-> Nil, type |-> Nil]

\* The runtime strips every condition when a pass begins.
NoConditions == [terminal |-> "Unset", recoverable |-> "Unset",
                 synced |-> "Unset", lateInit |-> "Unset"]

\* The zero value of the pass's variables, between passes.
NoResource ==
  [spec |-> [certificate |-> FALSE, privateKey |-> FALSE, certificateChain |-> FALSE,
             ca |-> FALSE, domain |-> Nil, dvo |-> 0, alg |-> Nil, opts |-> Nil,
             san |-> 0, exportTo |-> FALSE, tags |-> CHOOSE t \in TagSets : TRUE],
   status |-> NoStatus, conds |-> NoConditions]

\* A certificate as ACM keeps it; "NONE" is an ARN not given out, or deleted.
ACMCertificate ==
  [state  : States \cup {"NONE"},
   type   : Types,
   family : Families,
   ct     : Preferences,
   export : Preferences,
   domain : Domains,
   names  : 1..MaxNames,
   issued : BOOLEAN,
   serial : 0..MaxSerial,
   tags   : TagSets]

-----------------------------------------------------------------------------
(* Reading: sdkFind.                                                       *)

requiredFieldsMissingFromReadOneInput(r) == r.status.arn = 0

\* The Spec fields sdkFind takes from the answers of DescribeCertificate and
\* ListTagsForCertificate; the fields ACM does not describe are kept.
observedSpec(spec, c) ==
  [spec EXCEPT !.ca     = (c.type = "PRIVATE"),
               !.domain = c.domain,
               !.dvo    = IF c.type = "AMAZON_ISSUED" THEN c.names ELSE 0,
               !.alg    = [family |-> c.family, sep |-> "-"],
               !.opts   = [ct |-> c.ct, export |-> c.export],
               !.san    = c.names,
               !.tags   = c.tags]

\* The Status fields.  Everything describes the one certificate, so the
\* fields that no decision of the controller reads are left out.
observedStatus(arn, c) ==
  [arn |-> arn, issued |-> c.issued, serial |-> c.serial,
   status |-> c.state, type |-> c.type]

-----------------------------------------------------------------------------
(* Conditions: updateConditions, onError, onSuccess.                       *)

Errors == {"none", "recoverable", "terminal"}

updateConditions(conds, onSuccess, err) ==
  [conds EXCEPT
     !.terminal = CASE err = "terminal" -> "True"
                    [] err # "terminal" /\ @ # "Unset" -> "False"
                    [] OTHER -> @,
     !.recoverable = CASE err = "recoverable" -> "True"
                       [] err = "none" /\ @ # "Unset" -> "False"
                       [] OTHER -> @,
     !.synced = IF @ = "Unset" /\ onSuccess THEN "True" ELSE @]

\* Mutant: the error leaves no condition behind.
OnErrorWithoutCondition(r, err) == r

onError(r, err) == [r EXCEPT !.conds = updateConditions(@, FALSE, err)]

onSuccess(r) == [r EXCEPT !.conds = updateConditions(@, TRUE, "none")]

\* ReadOne on a certificate that is there: what was observed, marked synced.
ReadOne(r, c) ==
  onSuccess([r EXCEPT !.spec = observedSpec(@, c),
                      !.status = observedStatus(@.arn, c)])

-----------------------------------------------------------------------------
(* Comparing: newResourceDelta, as the set of paths it adds.               *)

HasNilDifference(x, y) == (x = Nil) # (y = Nil)

normalizeKeyAlgorithm(alg) == [alg EXCEPT !.sep = "_"]

compareKeyAlgorithm(a, b) ==
  IF /\ a.spec.alg # Nil
     /\ b.spec.alg # Nil
     /\ normalizeKeyAlgorithm(a.spec.alg) # normalizeKeyAlgorithm(b.spec.alg)
  THEN {"Spec.KeyAlgorithm"} ELSE {}

\* Mutant: any serial that is set counts as already exported.
NeverCompareSerial(a, b) ==
  IF a.spec.exportTo /\ ~a.status.issued /\ b.status.status = "ISSUED"
  THEN {"Spec.Status.IssuedAt"} ELSE {}

\* The first issue and every renewal, when there is a secret to export to.
compareCertificateIssuedAt(a, b) ==
  {p \in {"Spec.Status.IssuedAt", "Spec.Status.Serial"} :
     /\ a.spec.exportTo
     /\ \/ /\ p = "Spec.Status.IssuedAt"
           /\ ~a.status.issued
           /\ b.status.status = "ISSUED"
        \/ /\ p = "Spec.Status.Serial"
           /\ a.status.serial # 0
           /\ b.status.serial # 0
           /\ a.status.serial # b.status.serial}

\* Mutant: only the export preference is compared.
CompareExportOnly(x, y) ==
  IF x # Nil /\ y # Nil /\ x.export # y.export THEN {"Spec.Options.Export"} ELSE {}

compareOptions(x, y) ==
  IF HasNilDifference(x, y) THEN {"Spec.Options"}
  ELSE IF x = Nil THEN {}
  ELSE {p \in {"Spec.Options.CertificateTransparencyLoggingPreference",
               "Spec.Options.Export"} :
          \/ /\ p = "Spec.Options.CertificateTransparencyLoggingPreference"
             /\ x.ct # y.ct
          \/ /\ p = "Spec.Options.Export"
             /\ x.export # y.export}

newResourceDelta(a, b) ==
  UNION {compareCertificateIssuedAt(a, b),
         compareKeyAlgorithm(a, b),
         IF a.spec.ca # b.spec.ca THEN {"Spec.CertificateAuthorityARN"} ELSE {},
         IF a.spec.domain # b.spec.domain THEN {"Spec.DomainName"} ELSE {},
         compareOptions(a.spec.opts, b.spec.opts),
         IF a.spec.tags # b.spec.tags THEN {"Spec.Tags"} ELSE {}}

\* Delta.DifferentAt matches a path and everything below it.
OptionsPaths == {"Spec.Options",
                 "Spec.Options.CertificateTransparencyLoggingPreference",
                 "Spec.Options.Export"}

-----------------------------------------------------------------------------
(* Creating: maybeImportCertificate, validatePublicValidationOptions, the  *)
(* request payload.                                                        *)

limitDomainValidationOptionsPublic == 5

\* Tests CertificateAuthorityARN # nil, as the code does.
validatePublicValidationOptions(r) ==
  ~(r.spec.ca /\ r.spec.dvo > limitDomainValidationOptionsPublic)

\* Mutant: the copy keeps what late initialization put there.
ReimportUncleared(r) == r.spec

\* A copy of the Spec is cleared of what late initialization put there, when
\* the resource has had a certificate before; the resource itself is not.
clearedForReimport(r) ==
  IF r.status.arn = 0 THEN r.spec
  ELSE [r.spec EXCEPT !.dvo = 0, !.alg = Nil, !.san = 0, !.opts = Nil, !.domain = Nil]

requestFieldsSet(spec) ==
  spec.domain # Nil \/ spec.dvo > 0 \/ spec.alg # Nil \/ spec.san > 0 \/ spec.opts # Nil

\* Where sdkCreate gets to before it calls ACM: "import", "request", or a
\* terminal error.
maybeImportCertificate(r) ==
  IF r.spec.certificate
  THEN IF requestFieldsSet(clearedForReimport(r)) \/ ~r.spec.privateKey
       THEN "terminal" ELSE "import"
  ELSE IF r.spec.domain # Nil /\ (r.spec.privateKey \/ r.spec.certificateChain)
       THEN "terminal"
  ELSE IF ~validatePublicValidationOptions(r) THEN "terminal"
  ELSE "request"

\* The request sends the Spec; a public certificate with a secret to export
\* to is requested exportable whatever Options say.
newCreateRequestPayload(spec) ==
  LET o == IF spec.opts = Nil THEN [ct |-> Nil, export |-> Nil] ELSE spec.opts
  IN [ca |-> spec.ca, domain |-> spec.domain, dvo |-> spec.dvo, alg |-> spec.alg,
      ct |-> o.ct,
      export |-> IF spec.exportTo /\ ~spec.ca THEN "ENABLED" ELSE o.export,
      san |-> spec.san, tags |-> spec.tags]

\* The algorithms a request may name, as the API documents them.
supportedForRequest(alg) == alg # Nil => alg.sep = "_"

-----------------------------------------------------------------------------
(* Updating and late initialization.                                       *)

\* Mutant: the merge forgets the state the certificate is in.
MergeWithoutState(desired, latest) ==
  [desired EXCEPT !.status.issued = latest.status.issued,
                  !.status.serial = latest.status.serial]

\* What sdkUpdate returns after an export or an options update: the desired
\* resource with three Status fields taken from the observed one.
mergeUpdated(desired, latest) ==
  [desired EXCEPT !.status.issued = latest.status.issued,
                  !.status.status = latest.status.status,
                  !.status.serial = latest.status.serial]

withExport(o, e) == [o EXCEPT !.export = e]

\* Mutant: the observed names are appended to those that are there.
LateInitializeAppends(observed, latest) ==
  [latest EXCEPT !.spec.alg = observed.spec.alg, !.spec.opts = observed.spec.opts,
                 !.spec.san = @ + observed.spec.san]

\* LateInitialize fills the fields the user left out, each on its own.
lateInitializedSpec(o, s) ==
  [s EXCEPT !.alg  = IF @ = Nil THEN o.alg ELSE @,
            !.opts = IF @ = Nil THEN o.opts
                     ELSE IF @.export = Nil THEN withExport(@, o.opts.export)
                     ELSE @,
            !.san  = IF @ = 0 THEN o.san ELSE @,
            !.dvo  = IF @ = 0 THEN o.dvo ELSE @]

lateInitializeFromReadOneOutput(observed, latest) ==
  [latest EXCEPT !.spec = lateInitializedSpec(observed.spec, @)]

incompleteLateInitialization(r) ==
  r.spec.alg = Nil \/ r.spec.opts = Nil \/ r.spec.san = 0 \/ r.spec.opts.export = Nil

\* A merge patch writes the fields in which new differs from base, and
\* leaves the others as they now are in the cluster.
mergePatch(current, base, new) ==
  [current EXCEPT
     !.alg = IF new.alg # base.alg THEN new.alg ELSE @,
     !.opts = IF new.opts = base.opts THEN @
              ELSE IF base.opts = Nil THEN new.opts
              ELSE IF @ = Nil THEN [ct |-> Nil, export |-> new.opts.export]
              ELSE withExport(@, new.opts.export),
     !.san = IF new.san # base.san THEN new.san ELSE @,
     !.dvo = IF new.dvo # base.dvo THEN new.dvo ELSE @]
=============================================================================
