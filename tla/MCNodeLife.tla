----------------------------- MODULE MCNodeLife -----------------------------
(* Instances of NodeLife for TLC. *)
EXTENDS NodeLife

CONSTANTS p1, p2

TwoPaths == {p1, p2}
=============================================================================
