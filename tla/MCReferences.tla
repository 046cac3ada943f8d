----------------------------- MODULE MCReferences -----------------------------
(***************************************************************************)
(* References with the resources that tell its cases apart.                *)
(***************************************************************************)
EXTENDS References

To(n) == [from |-> "named", ns |-> n]

\* By reference to its own and to another namespace, with both reference and
\* ARN, with references that name nothing, and to adopt, with and without the
\* ARN to adopt.
SomeResources ==
  {[ref |-> To(Nil), arn |-> 0, adopt |-> FALSE, field |-> 0],
   [ref |-> To("other"), arn |-> 0, adopt |-> FALSE, field |-> 0],
   [ref |-> To(Nil), arn |-> 1, adopt |-> FALSE, field |-> 0],
   [ref |-> [from |-> "nil", ns |-> Nil], arn |-> 0, adopt |-> FALSE, field |-> 0],
   [ref |-> [from |-> "unnamed", ns |-> Nil], arn |-> 0, adopt |-> FALSE, field |-> 0],
   [ref |-> To(Nil), arn |-> 0, adopt |-> TRUE, field |-> 1],
   [ref |-> Nil, arn |-> 0, adopt |-> TRUE, field |-> 1],
   [ref |-> Nil, arn |-> 0, adopt |-> TRUE, field |-> 0]}
=============================================================================
