-------------------------- MODULE MCPathDeployment --------------------------
(* Instances of PathDeployment for TLC. *)
EXTENDS PathDeployment

CONSTANTS p1, d1, d2, h1, h2, h3

OnePath == {p1}
TwoDeleters == {d1, d2}
ThreeHosts == {h1, h2, h3}

\* The last route has two nodes on one host.
AnyRoute == {<<h1, h2>>, <<h1, h2, h3>>, <<h1, h2, h1>>}
=============================================================================
