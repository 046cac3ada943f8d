--------------------------- MODULE MCManagerFactory ---------------------------
(***************************************************************************)
(* ManagerFactory for three workers and two ids.                           *)
(***************************************************************************)
EXTENDS ManagerFactory

CONSTANTS w1, w2, w3, i1, i2

ThreeWorkers == {w1, w2, w3}
TwoIds == {i1, i2}
=============================================================================
