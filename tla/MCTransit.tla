----------------------------- MODULE MCTransit -----------------------------
(* Instances of Transit for TLC. *)
EXTENDS Transit

SmallValues == 0..8
=============================================================================
