---------------------------- MODULE MCResultFile ----------------------------
(* Instances of ResultFile for TLC. *)
EXTENDS ResultFile, TLC

CONSTANTS a, b, c

ThreePaths == {a, b, c}

\* Paths are only ever compared for equality.
Interchangeable == Permutations(Paths)
=============================================================================
