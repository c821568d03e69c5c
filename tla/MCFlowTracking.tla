--------------------------- MODULE MCFlowTracking ---------------------------
(* Instances of FlowTracking for TLC. *)
EXTENDS FlowTracking, TLC

CONSTANTS p1, p2, n1, n2, n3, s1, s2

OnePacket == {p1}
TwoPackets == {p1, p2}
TwoNodes == {n1, n3}
ThreeNodes == {n1, n2, n3}
OneSeq == {s1}
TwoSeqs == {s1, s2}

\* Packets and numbers are only ever compared for equality.
Interchangeable == Permutations(Packets) \cup Permutations(Seqs)
=============================================================================
