---------------------------- MODULE MCPathSetup ----------------------------
(* Instances of PathSetup for TLC. *)
EXTENDS PathSetup, TLC

\* Address 1 with port 12 has the digits of address 11 with port 2.
SomeIps == {<<1>>, <<1, 1>>, <<2>>}
TwoPorts == {<<1, 2>>, <<2>>}

\* The second host has two interfaces in one network.
Managed == <<<<1>>, <<1, 1>>, <<1>>>>
Interfaces == <<<<<<1>>>>, <<<<1, 1>>, <<1>>>>, <<<<2>>, <<1>>>>>>
Networks == <<1>> :> 1 @@ <<1, 1>> :> 1 @@ <<2>> :> 2
=============================================================================
