------------------------- MODULE MCControllerStart -------------------------
(* Instances of ControllerStart for TLC. *)
EXTENDS ControllerStart

CONSTANTS a, b, g, d

TwoPosts == {a, b}
OneGet == {g}
OneDelete == {d}
=============================================================================
