----------------------------- MODULE MCMaskPool -----------------------------
(* Instances of MaskPool for TLC. *)
EXTENDS MaskPool, TLC

CONSTANTS a, b, c

ThreePaths == {a, b, c}

\* Paths of two and of three nodes: one and two masks.
MixedWanted == (a :> 1) @@ (b :> 2) @@ (c :> 2)
=============================================================================
