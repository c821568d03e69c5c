------------------------------ MODULE Transit ------------------------------
(***************************************************************************)
(* The arithmetic of one packet: the controller draws the parameters of a  *)
(* path (generate_lagrange_parameters), every node adds its share to the   *)
(* cumulative value, the egress node verifies the sum, and the controller  *)
(* looks for the node where it went wrong (FlowInfo.locate_error).         *)
(*                                                                         *)
(* A node sends its values under the mask it shares with the next node; a  *)
(* bit that flips on the way flips the same bit of what the next node      *)
(* reads.  Masks and addresses are the subject of PathSetup.               *)
(***************************************************************************)
EXTENDS Integers, Sequences, FiniteSets, Functions, FiniteSetsExt

CONSTANTS N,          \* number_of_nodes
          Primes,     \* the primes getPrime(16) may return
          MaxPoint,   \* points are drawn from 1..MaxPoint: 100 in the code
          Altered,    \* values an altered packet may carry
          MaxFaults,  \* bound on random errors and altered packets
          None

ASSUME NodesAssumption == N \in Nat /\ N >= 2
ASSUME PrimesAssumption ==
    \A p \in Primes : /\ p \in Nat /\ p > MaxPoint
                      /\ \A d \in 2..(p - 1) : p % d # 0
ASSUME PointsAssumption == MaxPoint \in Nat /\ MaxPoint >= N
ASSUME AlteredAssumption == Altered \subseteq Nat /\ MaxFaults \in Nat
ASSUME NoneAssumption == None \notin Nat

Nodes == 1..N

VARIABLES
    phase,      \* draw, invert, walk, judged
    prime, points, lpcs,   \* the Lagrange parameters of the path
    wire,       \* the secret and the cumulative value on their way
    secret,     \* the secret the ingress node drew and reported
    reports,    \* the cumulative values the nodes reported, by position
    verdict,    \* what the egress node found
    erred,      \* history: nodes that made a random error
    flipped     \* history: links, by the node they lead to, on which the
                \* cumulative value ("cml") or the secret was altered

parameters == <<prime, points, lpcs>>
vars == <<phase, parameters, wire, secret, reports, verdict, erred, flipped>>

-----------------------------------------------------------------------------
(* helpers/lagrange.py *)

\* sympy.mod_inverse raises a ValueError when there is no inverse.
Invertible(a) == a % prime # 0
ModInverse(a) == CHOOSE x \in 1..(prime - 1) : (a * x) % prime = 1

Product(f, i) == FoldFunctionOnSet(LAMBDA x, y : x * y, 1, f, Nodes \ {i})
Top(i) == Product([j \in Nodes |-> -points[j]], i)
Bottom(i) == Product([j \in Nodes |-> points[i] - points[j]], i)

\* handle_calculate_lpcs: the Lagrange basis polynomials at zero.
Lpc(i) == (Top(i) * ModInverse(Bottom(i))) % prime

\* Faulty variant: the key is another coefficient.
ValidatorKeyFirst == 1

\* The last coefficient of generate_random_polyn is the validator key.
ValidatorKey == 0

\* The controller never sets public_polynomial, which stands for the share.
SecretShare == 0

CalculateNewCml(prev, s, i) == (SecretShare + s) * lpcs[i] + (prev % prime)

\* Faulty variant: the random error leaves the previous value alone.
HalfErroneous(prev, s, i, err) ==
    CalculateNewCml(prev, IF err THEN s + 1 ELSE s, i)

\* err: random() fell under chance_random_error.
GenerateCmlValue(prev, s, i, err) ==
    IF err THEN CalculateNewCml(prev + 1, s + 1, i)
    ELSE CalculateNewCml(prev, s, i)

(***************************************************************************)
(* locate_error follows the values that honest nodes would have computed   *)
(* and returns the first position whose report is different.               *)
(***************************************************************************)
Honest == LET h[i \in 0..N] == IF i = 0 THEN 0
                               ELSE CalculateNewCml(h[i - 1], secret, i)
          IN  h
Deviating == {i \in Nodes : Honest[i] # reports[i]}

\* Faulty variants: the loop does not return, or leaves out the last node.
LocateLast == IF Deviating = {} THEN None ELSE Max(Deviating)
LocateShort == IF Deviating \ {N} = {} THEN None ELSE Min(Deviating \ {N})

LocateError == IF Deviating = {} THEN None ELSE Min(Deviating)

-----------------------------------------------------------------------------
(* generate_lagrange_parameters *)

Init == /\ phase = "draw"
        /\ prime = 0 /\ points = <<>> /\ lpcs = <<>>
        /\ wire = [secret |-> 0, cml |-> 0]
        /\ secret = 0
        /\ reports = <<>>
        /\ verdict = None
        /\ erred = {} /\ flipped = {}

XPoints == [Nodes -> 1..MaxPoint]

\* A prime and the points, which may repeat.
DrawParameters ==
    /\ phase = "draw"
    /\ phase' = "invert"
    /\ prime' \in Primes
    /\ points' \in XPoints
    /\ UNCHANGED <<lpcs, wire, secret, reports, verdict, erred, flipped>>

Solvable == \A i \in Nodes : Invertible(Bottom(i))

CalculateLpcs ==
    /\ phase = "invert" /\ Solvable
    /\ phase' = "walk"
    /\ lpcs' = [i \in Nodes |-> Lpc(i)]
    /\ UNCHANGED <<prime, points, wire, secret, reports, verdict, erred,
                   flipped>>

\* The ValueError is caught and everything is drawn anew.
TryAgain ==
    /\ phase = "invert" /\ ~Solvable
    /\ phase' = "draw"
    /\ UNCHANGED <<parameters, wire, secret, reports, verdict, erred, flipped>>

-----------------------------------------------------------------------------
(* The packet visits the nodes in order *)

At == Len(reports) + 1
FaultLeft == Cardinality(erred) + Cardinality(flipped) < MaxFaults

\* The node adds its share to what it read, with or without a random error,
\* forwards the secret as it came and reports the new value.
Process(s, prev, err) ==
    LET new == GenerateCmlValue(prev, s, At, err)
    IN  /\ phase = "walk"
        /\ err => FaultLeft
        /\ erred' = IF err THEN erred \cup {At} ELSE erred
        /\ wire' = [secret |-> s, cml |-> new]
        /\ reports' = Append(reports, new)
        /\ UNCHANGED <<parameters, flipped>>

Ingress ==
    /\ At = 1
    /\ \E s \in 0..(prime - 1), err \in BOOLEAN :
           Process(s, 0, err) /\ secret' = s
    /\ UNCHANGED <<phase, verdict>>

Middle ==
    /\ At \in 2..(N - 1)
    /\ \E err \in BOOLEAN : Process(wire.secret, wire.cml, err)
    /\ UNCHANGED <<phase, secret, verdict>>

Egress ==
    /\ At = N
    /\ \E err \in BOOLEAN : Process(wire.secret, wire.cml, err)
    /\ verdict' = (wire'.cml % prime = wire.secret + ValidatorKey)
    /\ phase' = "judged"
    /\ UNCHANGED secret

\* The packet is altered between two nodes.
Alter(field) ==
    /\ phase = "walk" /\ At > 1 /\ FaultLeft
    /\ <<At, field>> \notin flipped
    /\ \E v \in Altered \ {wire[field]} : wire' = [wire EXCEPT ![field] = v]
    /\ flipped' = flipped \cup {<<At, field>>}
    /\ UNCHANGED <<phase, parameters, secret, reports, verdict, erred>>

Next == \/ DrawParameters \/ CalculateLpcs \/ TryAgain
        \/ Ingress \/ Middle \/ Egress
        \/ \E field \in {"cml", "secret"} : Alter(field)

Spec == Init /\ [][Next]_vars

-----------------------------------------------------------------------------
(* Properties *)

Judged == phase = "judged"
SecretIntact == \A i \in Nodes : <<i, "secret">> \notin flipped
FaultAt(i) == i \in erred \/ <<i, "cml">> \in flipped \/ <<i, "secret">> \in flipped

(***************************************************************************)
(* A packet that nobody altered verifies and nothing is found wrong with   *)
(* its reports, for every prime, points and secret the controller and the  *)
(* ingress node may draw: the coefficients add up to 1, including after    *)
(* draws that had to be repeated.                                          *)
(***************************************************************************)
UnalteredVerifies ==
    Judged /\ erred = {} /\ flipped = {} => verdict /\ LocateError = None

(***************************************************************************)
(* A single random error of a node (GenericNode.generate_cml_value) shifts *)
(* the sum by lpc + 1: it goes unnoticed exactly when the coefficient of   *)
(* that node is the prime minus one.                                       *)
(***************************************************************************)
SingleErrorIsCaught ==
    \A i \in Nodes :
        Judged /\ erred = {i} /\ flipped = {} =>
            (verdict <=> lpcs[i] = prime - 1)

(***************************************************************************)
(* When the egress node rejects a packet locate_error names a node,        *)
(* whatever errors happened, as long as the secret arrived as it was sent: *)
(* only an egress node that compares with another secret can reject values *)
(* that are all as they should be.                                         *)
(***************************************************************************)
RejectedIsLocated ==
    Judged /\ ~verdict /\ SecretIntact => LocateError # None

(***************************************************************************)
(* locate_error never blames a node that worked well behind a link that    *)
(* carried its packet well: there was a fault at the position it names, or *)
(* the secret had been altered on a link before.                           *)
(***************************************************************************)
BlameIsFounded ==
    Judged /\ LocateError # None =>
        \/ FaultAt(LocateError)
        \/ \E i \in 1..LocateError : <<i, "secret">> \in flipped
=============================================================================
