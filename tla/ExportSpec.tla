------------------------------ MODULE ExportSpec ------------------------------
(***************************************************************************)
(* What the export of a certificate promises to whoever mounts the secret, *)
(* apart from how passes, retries, re-creations and restarts bring it      *)
(* about: the certificate under exportTo is one that ACM has issued and    *)
(* never an older one than before, and the key put beside it belongs to    *)
(* it.  The two are separate writes, so between them the pair is torn, and *)
(* whoever writes next writes forward.                                     *)
(***************************************************************************)
EXTENDS Naturals

CONSTANT MaxSerial   \* serial numbers ACM may ever hand out

VARIABLES
  issued,   \* how many serial numbers have been handed out, in order
  secret    \* serials of the certificate and the key in the secret

vars == <<issued, secret>>

Init ==
  /\ issued = 0
  /\ secret = [crt |-> 0, key |-> 0]

\* ACM issues, renews, or is given a certificate to keep.
Issue ==
  /\ issued < MaxSerial
  /\ issued' = issued + 1
  /\ UNCHANGED secret

\* A certificate at least as new as the one that is there.
PutCertificate ==
  /\ \E s \in 1..issued : s >= secret.crt /\ secret' = [secret EXCEPT !.crt = s]
  /\ UNCHANGED issued

\* The key of the certificate that is there.
PutKey ==
  /\ secret.crt # 0
  /\ secret' = [secret EXCEPT !.key = secret.crt]
  /\ UNCHANGED issued

Next == Issue \/ PutCertificate \/ PutKey

Spec == Init /\ [][Next]_vars
=============================================================================
