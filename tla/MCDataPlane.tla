---------------------------- MODULE MCDataPlane ----------------------------
(* Instances of DataPlane for TLC. *)
EXTENDS DataPlane, TLC

CONSTANTS p1, p2

TwoPackets == {p1, p2}

\* The network may double one of the packets.
OneDoubled == p1 :> 2 @@ p2 :> 1
=============================================================================
