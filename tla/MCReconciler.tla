----------------------------- MODULE MCReconciler -----------------------------
(***************************************************************************)
(* Values for the constants of Reconciler: the Specs users create.         *)
(***************************************************************************)
EXTENDS ReconcilerProperties

\* A request for a public certificate that leaves everything to ACM.
Public ==
  [certificate |-> FALSE, privateKey |-> FALSE, certificateChain |-> FALSE,
   ca |-> FALSE, domain |-> "a.example", dvo |-> 0, alg |-> Nil, opts |-> Nil,
   san |-> 0, exportTo |-> FALSE, tags |-> "t1"]

Private == [Public EXCEPT !.ca = TRUE]

PrivateExported == [Private EXCEPT !.exportTo = TRUE]

Import == [Public EXCEPT !.certificate = TRUE, !.privateKey = TRUE, !.domain = Nil]

ManyNames(spec) == [spec EXCEPT !.dvo = 6, !.san = 6]

PublicOnly == {Public}
ImportOnly == {Import}
PrivateExportedOnly == {PrivateExported}
ManyNamesOnly == {ManyNames(Public)}
Lifecycle == {Public, Import}
Convergence == {PrivateExported, Import}
\* Requests and imports sdkCreate turns down, and one without a domain.
Rejected == {[Import EXCEPT !.privateKey = FALSE],
             [Import EXCEPT !.domain = "a.example"],
             [Public EXCEPT !.certificateChain = TRUE],
             [Public EXCEPT !.domain = Nil],
             ManyNames(Private)}
\* With a secret from the start, one that gets it later, and the rejected.
ExportAndRejected == Rejected \cup {Import, Private, PrivateExported}
=============================================================================
