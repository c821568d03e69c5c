-------------------------- MODULE PathSetupProofs --------------------------
(***************************************************************************)
(* Proofs about PathSetup, for paths of any length, any addresses and any  *)
(* hosts.                                                                  *)
(***************************************************************************)
EXTENDS PathSetup, TLAPS, SequenceTheorems, FiniteSetTheorems

-----------------------------------------------------------------------------
(* What a host reads from the configuration of a node *)

NodeInfos == [downstream      : Address,
              upstream        : Address \cup {None},
              node_id         : Seq(0..9),
              node_type       : NodeTypes,
              status          : BOOLEAN,
              validator       : BOOLEAN,
              share           : Positions,
              upstream_mask   : Nat \cup {None},
              downstream_mask : Nat \cup {None}]

\* A value that is missing is read back as the None it was.
LEMMA ReadBack ==
    ASSUME NEW node \in NodeInfos, NEW f \in Parsed
    PROVE  Get(Config(node), f) = node[f]
  BY DEF Get, Config, Written

LEMMA Mandatory ==
    ASSUME NEW node \in NodeInfos
    PROVE  /\ Config(node)["downstream"] = node.downstream
           /\ Config(node)["status"] = node.status
           /\ Config(node)["validator"] = node.validator
           /\ Config(node)["share"] = node.share
  <1>1. /\ node.downstream # None /\ node.status # None
        /\ node.validator # None /\ node.share # None
    BY NoneAssumption, NAssumption DEF NodeInfos, Positions
  <1>2. \A f \in Parsed : node[f] # None => Config(node)[f] = node[f]
    BY DEF Config, Written
  <1> QED
    BY <1>1, <1>2 DEF Parsed

LEMMA CreatedNode ==
    ASSUME NEW i \in Positions, NEW node \in NodeInfos
    PROVE  LET b == CreateNode(i, Config(node))
           IN  /\ b.type = IF node.status THEN "Ingress"
                           ELSE IF node.validator THEN "Egress" ELSE "Middle"
               /\ b.node_id = GenerateId(node.downstream)
               /\ b.node_address = [ip   |-> NicIp(i, node.downstream.ip),
                                    port |-> node.downstream.port]
               /\ b.upstream = node.upstream
               /\ b.share = node.share
               /\ b.upstream_mask = node.upstream_mask
               /\ b.downstream_mask = node.downstream_mask
  <1>1. /\ Get(Config(node), "upstream") = node.upstream
        /\ Get(Config(node), "upstream_mask") = node.upstream_mask
        /\ Get(Config(node), "downstream_mask") = node.downstream_mask
    BY ReadBack DEF Parsed
  <1> QED
    BY <1>1, Mandatory DEF CreateNode, NodeType

-----------------------------------------------------------------------------
(* The inductive invariant *)

\* The part a position plays.
PartOf(i) == IF i = 1 THEN "Ingress" ELSE IF i = N THEN "Egress" ELSE "Middle"

\* Positions whose node is described, and positions whose node is linked.
Described(i) == phase # "describe" \/ i < pos
Linked(i) == phase \notin {"describe", "link"} \/ (phase = "link" /\ i < pos)

InputInv == /\ path_ip \in [Positions -> Ips \cup {None}]
            /\ port \in [Positions -> Ports \cup {None}]
            /\ sender \in Ports
            /\ receiver \in Address

PhaseInv == /\ phase \in {"describe", "link", "configure", "done", "failed"}
            /\ phase \in {"describe", "link"} => pos \in Positions
            /\ phase = "configure" => pos \in 1..Len(descriptors)
            /\ phase = "done" => pos = Len(descriptors)
            /\ descriptors \in Seq(Positions)
            /\ nodes = [i \in Positions |-> nodes[i]]
            /\ built = [i \in Positions |-> built[i]]

\* Linking never changes where a node listens, so its identifier stays the
\* hash of its address.
NodesInv ==
    \A i \in Positions : Described(i) =>
        /\ nodes[i] \in NodeInfos
        /\ nodes[i].node_id = GenerateId(nodes[i].downstream)
        /\ nodes[i].node_type = PartOf(i)
        /\ nodes[i].status = (i = 1)
        /\ nodes[i].validator = (i = N)
        /\ nodes[i].share = i
        /\ nodes[i].upstream_mask = IF i < N THEN i ELSE None
        /\ nodes[i].downstream_mask = IF i > 1 THEN i - 1 ELSE None
        /\ i = 1 => nodes[i].downstream.port = sender
        /\ i = N => nodes[i].upstream = receiver

LinksInv ==
    \A i \in Positions : Linked(i) /\ i < N =>
        nodes[i].upstream = nodes[i + 1].downstream

BuiltInv ==
    \A i \in Positions : Built(i) =>
        /\ phase \in {"configure", "done"}
        /\ built[i] = CreateNode(i, Config(nodes[i]))
        /\ Suitable(i, nodes[i].downstream.ip) # {}

IInv == InputInv /\ PhaseInv /\ NodesInv /\ LinksInv /\ BuiltInv

LEMMA InitInv == Init => IInv
  <1> SUFFICES ASSUME Init PROVE IInv
    OBVIOUS
  <1>1. InputInv
    BY DEF Init, InputInv
  <1>2. PhaseInv
    BY NAssumption DEF Init, PhaseInv, Positions
  <1>3. NodesInv
    BY DEF Init, NodesInv, Described, Positions
  <1>4. LinksInv
    BY DEF Init, LinksInv, Linked
  <1>5. BuiltInv
    BY DEF Init, BuiltInv, Built
  <1> QED
    BY <1>1, <1>2, <1>3, <1>4, <1>5 DEF IInv

-----------------------------------------------------------------------------
(* The steps *)

\* What the constructor of NodeInfo makes of an address.
LEMMA NodeInfoType ==
    ASSUME InputInv, NEW i \in Positions, NEW p \in Ports
    PROVE  /\ NodeInfo(i, p) \in NodeInfos
           /\ NodeInfo(i, p).node_id = GenerateId(NodeInfo(i, p).downstream)
           /\ NodeInfo(i, p).node_type = PartOf(i)
           /\ NodeInfo(i, p).status = (i = 1)
           /\ NodeInfo(i, p).validator = (i = N)
           /\ NodeInfo(i, p).share = i
           /\ NodeInfo(i, p).upstream_mask = IF i < N THEN i ELSE None
           /\ NodeInfo(i, p).downstream_mask = IF i > 1 THEN i - 1 ELSE None
           /\ NodeInfo(i, p).downstream.port = p
           /\ i = N => NodeInfo(i, p).upstream = receiver
  <1> DEFINE listen == [ip |-> PathIp(i), port |-> p]
  <1>1. PathIp(i) \in Ips
    BY HostAssumption DEF PathIp, InputInv, Positions
  <1>2. listen \in Address
    BY <1>1 DEF Address
  <1>3. GenerateId(listen) \in Seq(0..9)
    <2>1. PathIp(i) \in Seq(0..9) /\ p \in Seq(0..9)
      BY <1>1, AddressAssumption
    <2> QED
      BY <2>1, ConcatProperties DEF GenerateId
  <1>0. listen.port = p
    OBVIOUS
  <1> HIDE DEF listen
  <1>4. NodeInfo(i, p) =
          [downstream      |-> listen,
           upstream        |-> IF i = N THEN receiver ELSE None,
           node_id         |-> GenerateId(listen),
           node_type       |-> PartOf(i),
           status          |-> i = 1,
           validator       |-> i = N,
           share           |-> i,
           upstream_mask   |-> IF i < N THEN i ELSE None,
           downstream_mask |-> IF i > 1 THEN i - 1 ELSE None]
    BY DEF NodeInfo, Profile, GetNodeType, PartOf, listen
  <1>5. /\ (IF i = N THEN receiver ELSE None) \in Address \cup {None}
        /\ (IF i < N THEN i ELSE None) \in Nat \cup {None}
        /\ (IF i > 1 THEN i - 1 ELSE None) \in Nat \cup {None}
        /\ (i = 1) \in BOOLEAN /\ (i = N) \in BOOLEAN
        /\ PartOf(i) \in NodeTypes
    BY NAssumption DEF InputInv, Positions, PartOf, NodeTypes
  <1>6. NodeInfo(i, p) \in NodeInfos
    BY <1>2, <1>3, <1>4, <1>5 DEF NodeInfos
  <1> QED
    BY <1>0, <1>4, <1>6

LEMMA DescribeStep ==
    ASSUME IInv, DescribeNode
    PROVE  IInv'
  <1> USE DEF IInv
  <1>1. /\ phase = "describe" /\ pos \in Positions /\ pos \in 1..N
        /\ \A i \in Positions : ~Built(i)
        /\ UNCHANGED <<path_ip, port, sender, receiver, descriptors, built>>
        /\ phase' = IF pos = N THEN "link" ELSE "describe"
        /\ pos' = IF pos = N THEN 1 ELSE pos + 1
    BY DEF DescribeNode, PhaseInv, BuiltInv, Positions
  <1>2. PICK p \in Ports : /\ ListeningPort(pos, p)
                           /\ nodes' = [nodes EXCEPT ![pos] = NodeInfo(pos, p)]
    BY DEF DescribeNode
  <1>3. InputInv'
    BY <1>1 DEF InputInv
  <1>4. PhaseInv'
    <2>1. nodes' = [i \in Positions |-> nodes'[i]]
      BY <1>2 DEF PhaseInv
    <2>2. built' = [i \in Positions |-> built'[i]]
      BY <1>1 DEF PhaseInv
    <2>3. descriptors' \in Seq(Positions)
      BY <1>1 DEF PhaseInv
    <2>4. /\ phase' \in {"describe", "link"} /\ pos' \in Positions
      BY <1>1, NAssumption DEF Positions
    <2> QED
      BY <2>1, <2>2, <2>3, <2>4 DEF PhaseInv
  <1>5. nodes'[pos] = NodeInfo(pos, p)
    BY <1>1, <1>2 DEF PhaseInv
  <1>6. \A i \in Positions \ {pos} : nodes'[i] = nodes[i]
    BY <1>1, <1>2 DEF PhaseInv
  <1>7. NodesInv'
    <2> SUFFICES ASSUME NEW i \in Positions, Described(i)'
                 PROVE  /\ nodes'[i] \in NodeInfos
                        /\ nodes'[i].node_id = GenerateId(nodes'[i].downstream)
                        /\ nodes'[i].node_type = PartOf(i)
                        /\ nodes'[i].status = (i = 1)
                        /\ nodes'[i].validator = (i = N)
                        /\ nodes'[i].share = i
                        /\ nodes'[i].upstream_mask = IF i < N THEN i ELSE None
                        /\ nodes'[i].downstream_mask = IF i > 1 THEN i - 1 ELSE None
                        /\ i = 1 => nodes'[i].downstream.port = sender
                        /\ i = N => nodes'[i].upstream = receiver
      BY <1>1 DEF NodesInv
    <2>1. CASE i = pos
      BY <2>1, <1>1, <1>2, <1>5, NodeInfoType DEF ListeningPort
    <2>2. CASE i # pos
      <3>1. Described(i)
        BY <2>2, <1>1, NAssumption DEF Described, Positions
      <3> QED
        BY <3>1, <2>2, <1>6 DEF NodesInv
    <2> QED
      BY <2>1, <2>2
  <1>8. LinksInv'
    BY <1>1, NAssumption DEF LinksInv, Linked, Positions
  <1>9. BuiltInv'
    BY <1>1 DEF BuiltInv, Built
  <1> QED
    BY <1>3, <1>4, <1>7, <1>8, <1>9

LEMMA InsertType ==
    ASSUME NEW order \in Seq(Positions), NEW i \in Positions
    PROVE  /\ Insert(order, i) \in Seq(Positions)
           /\ Len(Insert(order, i)) \in Nat \ {0}
  <1>1. CASE \E k \in 1..Len(order) : SameId(order[k], i)
    <2>1. Insert(order, i) = [k \in 1..Len(order) |->
                                IF SameId(order[k], i) THEN i ELSE order[k]]
      BY <1>1 DEF Insert
    <2>2. Len(order) \in Nat \ {0}
      BY <1>1
    <2>3. \A k \in 1..Len(order) :
             (IF SameId(order[k], i) THEN i ELSE order[k]) \in Positions
      OBVIOUS
    <2> QED
      BY <2>1, <2>2, <2>3
  <1>2. CASE ~ \E k \in 1..Len(order) : SameId(order[k], i)
    BY <1>2 DEF Insert
  <1> QED
    BY <1>1, <1>2

(***************************************************************************)
(* Linking a node: its downstream address is read from the upstream of the *)
(* node before, which was just set to this very address.                   *)
(***************************************************************************)
LEMMA LinkedNode ==
    ASSUME IInv, LinkNode
    PROVE  /\ pos \in Positions /\ phase = "link"
           /\ \A i \in Positions \ {pos} : nodes'[i] = nodes[i]
           /\ nodes'[pos] = [nodes[pos] EXCEPT !.upstream = Upstream(pos)]
           /\ Upstream(pos) \in Address
           /\ pos = N => Upstream(pos) = receiver
  <1> USE DEF IInv
  <1>1. phase = "link" /\ pos \in Positions
    BY DEF LinkNode, PhaseInv
  <1>2. \A i \in Positions : nodes[i] \in NodeInfos
    BY <1>1 DEF NodesInv, Described
  <1>3. Downstream(pos) = nodes[pos].downstream
    <2>1. CASE pos > 1
      <3>1. pos - 1 \in Positions /\ Linked(pos - 1) /\ pos - 1 < N
        BY <1>1, <2>1, NAssumption DEF Positions, Linked
      <3>2. (pos - 1) + 1 = pos
        BY <1>1, NAssumption DEF Positions
      <3> QED
        BY <2>1, <3>1, <3>2 DEF LinksInv, Downstream
    <2>2. CASE ~(pos > 1)
      BY <2>2 DEF Downstream
    <2> QED
      BY <2>1, <2>2
  <1>4. /\ Upstream(pos) \in Address
        /\ pos = N => Upstream(pos) = receiver
    <2>1. CASE pos < N
      <3>1. pos + 1 \in Positions
        BY <1>1, <2>1, NAssumption DEF Positions
      <3> QED
        BY <2>1, <3>1, <1>1, <1>2, NAssumption DEF Upstream, NodeInfos, Positions
    <2>2. CASE pos = N
      BY <2>2, <1>1, NAssumption
      DEF Upstream, NodesInv, Described, InputInv, Positions
    <2> QED
      BY <1>1, <2>1, <2>2, NAssumption DEF Positions
  <1>5. \A i \in Positions \ {pos} : nodes'[i] = nodes[i]
    BY <1>1 DEF LinkNode, PhaseInv
  <1>6. nodes'[pos] = [[nodes[pos] EXCEPT !.upstream = Upstream(pos)]
                          EXCEPT !.downstream = Downstream(pos)]
    BY <1>1 DEF LinkNode, PhaseInv
  <1>7. nodes'[pos] = [nodes[pos] EXCEPT !.upstream = Upstream(pos)]
    BY <1>1, <1>2, <1>3, <1>6 DEF NodeInfos
  <1> QED
    BY <1>1, <1>4, <1>5, <1>7

LEMMA LinkStep ==
    ASSUME IInv, LinkNode
    PROVE  IInv'
  <1> USE DEF IInv
  <1>1. /\ phase = "link" /\ pos \in Positions /\ pos \in 1..N
        /\ \A i \in Positions : ~Built(i)
        /\ UNCHANGED <<path_ip, port, sender, receiver, built>>
        /\ phase' = IF pos = N THEN "configure" ELSE "link"
        /\ pos' = IF pos = N THEN 1 ELSE pos + 1
        /\ descriptors' = Insert(descriptors, pos)
    BY DEF LinkNode, PhaseInv, BuiltInv, Positions
  <1>2. /\ \A i \in Positions \ {pos} : nodes'[i] = nodes[i]
        /\ nodes'[pos] = [nodes[pos] EXCEPT !.upstream = Upstream(pos)]
        /\ Upstream(pos) \in Address
        /\ pos = N => Upstream(pos) = receiver
    BY LinkedNode
  <1>3. \A i \in Positions : nodes[i] \in NodeInfos
    BY <1>1 DEF NodesInv, Described
  <1>4. \A i \in Positions : /\ nodes'[i] \in NodeInfos
                             /\ nodes'[i].downstream = nodes[i].downstream
    BY <1>2, <1>3 DEF NodeInfos
  <1>5. InputInv'
    BY <1>1 DEF InputInv
  <1>6. PhaseInv'
    <2>1. nodes' = [i \in Positions |-> nodes'[i]]
      BY DEF PhaseInv, LinkNode
    <2>2. built' = [i \in Positions |-> built'[i]]
      BY <1>1 DEF PhaseInv
    <2>3. descriptors' \in Seq(Positions) /\ Len(descriptors') \in Nat \ {0}
      BY <1>1, InsertType DEF PhaseInv
    <2>4. /\ phase' \in {"link", "configure"} /\ pos' \in Positions
          /\ phase' = "configure" => pos' = 1
      BY <1>1, NAssumption DEF Positions
    <2> QED
      BY <2>1, <2>2, <2>3, <2>4 DEF PhaseInv
  <1>7. NodesInv'
    <2> SUFFICES ASSUME NEW i \in Positions
                 PROVE  /\ nodes'[i] \in NodeInfos
                        /\ nodes'[i].node_id = GenerateId(nodes'[i].downstream)
                        /\ nodes'[i].node_type = PartOf(i)
                        /\ nodes'[i].status = (i = 1)
                        /\ nodes'[i].validator = (i = N)
                        /\ nodes'[i].share = i
                        /\ nodes'[i].upstream_mask = IF i < N THEN i ELSE None
                        /\ nodes'[i].downstream_mask = IF i > 1 THEN i - 1 ELSE None
                        /\ i = 1 => nodes'[i].downstream.port = sender
                        /\ i = N => nodes'[i].upstream = receiver
      BY <1>1 DEF NodesInv
    <2>1. Described(i)
      BY <1>1 DEF Described
    <2>2. CASE i = pos
      BY <2>1, <2>2, <1>2, <1>3, <1>4 DEF NodesInv, NodeInfos
    <2>3. CASE i # pos
      BY <2>1, <2>3, <1>2 DEF NodesInv
    <2> QED
      BY <2>2, <2>3
  <1>8. LinksInv'
    <2> SUFFICES ASSUME NEW i \in Positions, Linked(i)', i < N
                 PROVE  nodes'[i].upstream = nodes'[i + 1].downstream
      BY DEF LinksInv
    <2>1. i + 1 \in Positions
      BY NAssumption DEF Positions
    <2>2. CASE i = pos
      BY <2>1, <2>2, <1>2, <1>3, <1>4 DEF Upstream, NodeInfos
    <2>3. CASE i # pos
      <3>1. Linked(i)
        BY <2>3, <1>1, NAssumption DEF Linked, Positions
      <3> QED
        BY <3>1, <2>1, <2>3, <1>2, <1>4 DEF LinksInv
    <2> QED
      BY <2>2, <2>3
  <1>9. BuiltInv'
    BY <1>1 DEF BuiltInv, Built
  <1> QED
    BY <1>5, <1>6, <1>7, <1>8, <1>9

LEMMA ConfigureStep ==
    ASSUME IInv, ConfigureNode
    PROVE  IInv'
  <1> USE DEF IInv
  <1>0. /\ phase = "configure" /\ pos \in 1..Len(descriptors)
        /\ descriptors \in Seq(Positions) /\ Len(descriptors) \in Nat
        /\ Target \in Positions
    BY ElementOfSeq, LenProperties DEF ConfigureNode, PhaseInv, Target
  <1>1. /\ Suitable(Target, nodes[Target].downstream.ip) # {}
        /\ built' = [built EXCEPT ![Target] =
                        CreateNode(Target, Config(nodes[Target]))]
        /\ UNCHANGED <<path_ip, port, sender, receiver, nodes, descriptors>>
        /\ phase' = IF pos = Len(descriptors) THEN "done" ELSE "configure"
        /\ pos' = IF pos = Len(descriptors) THEN pos ELSE pos + 1
    BY DEF ConfigureNode
  <1>2. InputInv'
    BY <1>1 DEF InputInv
  <1>3. PhaseInv'
    <2>1. built' = [i \in Positions |-> built'[i]]
      BY <1>0, <1>1 DEF PhaseInv
    <2>2. nodes' = [i \in Positions |-> nodes'[i]]
      BY <1>0, <1>1 DEF PhaseInv
    <2>3. /\ phase' \in {"configure", "done"}
          /\ phase' = "configure" => pos' \in 1..Len(descriptors')
          /\ phase' = "done" => pos' = Len(descriptors')
      BY <1>0, <1>1
    <2> QED
      BY <1>0, <1>1, <2>1, <2>2, <2>3 DEF PhaseInv
  <1>4. NodesInv'
    BY <1>0, <1>1 DEF NodesInv, Described
  <1>5. LinksInv'
    BY <1>0, <1>1 DEF LinksInv, Linked
  <1>6. BuiltInv'
    <2>1. phase' \in {"configure", "done"}
      BY <1>0, <1>1
    <2>2. \A i \in Positions : i # Target => built'[i] = built[i]
      BY <1>0, <1>1 DEF PhaseInv
    <2>3. built'[Target] = CreateNode(Target, Config(nodes[Target]))
      BY <1>0, <1>1 DEF PhaseInv
    <2>4. \A i \in Positions : Config(nodes'[i]) = Config(nodes[i])
      BY <1>0, <1>1
    <2> QED
      BY <1>0, <1>1, <2>1, <2>2, <2>3, <2>4 DEF BuiltInv, Built
  <1> QED
    BY <1>2, <1>3, <1>4, <1>5, <1>6

LEMMA RefuseStep ==
    ASSUME IInv, RefuseNode
    PROVE  IInv'
  <1> USE DEF IInv
  <1>1. /\ phase = "configure" /\ phase' = "failed"
        /\ built' = [i \in Positions |-> None]
        /\ UNCHANGED <<path_ip, port, sender, receiver, pos, nodes, descriptors>>
    BY DEF RefuseNode
  <1>2. InputInv'
    BY <1>1 DEF InputInv
  <1>3. PhaseInv'
    BY <1>1 DEF PhaseInv
  <1>4. NodesInv'
    BY <1>1 DEF NodesInv, Described
  <1>5. LinksInv'
    BY <1>1 DEF LinksInv, Linked
  <1>6. BuiltInv'
    BY <1>1 DEF BuiltInv, Built
  <1> QED
    BY <1>2, <1>3, <1>4, <1>5, <1>6

LEMMA StutterStep ==
    ASSUME IInv, UNCHANGED vars
    PROVE  IInv'
  BY DEF vars, IInv, InputInv, PhaseInv, NodesInv, LinksInv, BuiltInv,
         Described, Linked, Built

(***************************************************************************)
(* The invariant holds throughout: masks, shares and identifiers stay with *)
(* their node while it is linked, and what a host runs is what its         *)
(* configuration said.                                                     *)
(***************************************************************************)
THEOREM SetupInvariant == Spec => []IInv
  <1>1. IInv /\ [Next]_vars => IInv'
    BY DescribeStep, LinkStep, ConfigureStep, RefuseStep, StutterStep DEF Next
  <1> QED
    BY InitInv, <1>1, PTL DEF Spec

-----------------------------------------------------------------------------
(* What follows *)

\* What the controller knows of a position, once it is built.
LEMMA KnownNode ==
    ASSUME IInv, NEW i \in Positions, Built(i)
    PROVE  /\ nodes[i].node_id = GenerateId(nodes[i].downstream)
           /\ nodes[i].node_type = PartOf(i)
           /\ nodes[i].status = (i = 1)
           /\ nodes[i].validator = (i = N)
           /\ nodes[i].share = i
           /\ nodes[i].upstream_mask = IF i < N THEN i ELSE None
           /\ nodes[i].downstream_mask = IF i > 1 THEN i - 1 ELSE None
           /\ i = 1 => nodes[i].downstream.port = sender
           /\ i = N => nodes[i].upstream = receiver
           /\ i < N => nodes[i].upstream = nodes[i + 1].downstream
  <1>1. Described(i) /\ Linked(i)
    BY DEF IInv, BuiltInv, Described, Linked
  <1>2. i < N => nodes[i].upstream = nodes[i + 1].downstream
    BY <1>1 DEF IInv, LinksInv
  <1> QED
    BY <1>1, <1>2 DEF IInv, NodesInv

\* What the node of a position is, once it is built.
LEMMA BuiltNode ==
    ASSUME IInv, NEW i \in Positions, Built(i)
    PROVE  /\ Described(i) /\ Linked(i)
           /\ nodes[i] \in NodeInfos
           /\ built[i].type = IF nodes[i].status THEN "Ingress"
                              ELSE IF nodes[i].validator THEN "Egress" ELSE "Middle"
           /\ built[i].node_id = GenerateId(nodes[i].downstream)
           /\ built[i].node_address = [ip   |-> NicIp(i, nodes[i].downstream.ip),
                                       port |-> nodes[i].downstream.port]
           /\ built[i].upstream = nodes[i].upstream
           /\ built[i].share = nodes[i].share
           /\ built[i].upstream_mask = nodes[i].upstream_mask
           /\ built[i].downstream_mask = nodes[i].downstream_mask
  <1>1. Described(i) /\ Linked(i)
    BY DEF IInv, BuiltInv, Described, Linked
  <1>2. nodes[i] \in NodeInfos
    BY <1>1 DEF IInv, NodesInv
  <1>3. built[i] = CreateNode(i, Config(nodes[i]))
    BY DEF IInv, BuiltInv
  <1> QED
    BY <1>1, <1>2, <1>3, CreatedNode

(***************************************************************************)
(* On a path of any length every node has the part, the share and the      *)
(* identifier of its position, although the identifier is computed twice   *)
(* and the address it is computed from is written in between.              *)
(***************************************************************************)
THEOREM NodesAreRight == Spec => []NodesAreWhoTheyShouldBe
  <1>1. IInv => NodesAreWhoTheyShouldBe
    <2> SUFFICES ASSUME IInv, NEW i \in Positions, Built(i)
                 PROVE  /\ built[i].node_id = nodes[i].node_id
                        /\ built[i].share = i
                        /\ built[i].type = nodes[i].node_type
                        /\ built[i].type = IF i = 1 THEN "Ingress"
                                           ELSE IF i = N THEN "Egress" ELSE "Middle"
      BY DEF NodesAreWhoTheyShouldBe
    <2>1. /\ built[i].type = IF nodes[i].status THEN "Ingress"
                             ELSE IF nodes[i].validator THEN "Egress" ELSE "Middle"
          /\ built[i].node_id = GenerateId(nodes[i].downstream)
          /\ built[i].share = nodes[i].share
      BY BuiltNode
    <2>2. /\ nodes[i].node_id = GenerateId(nodes[i].downstream)
          /\ nodes[i].node_type = PartOf(i)
          /\ nodes[i].status = (i = 1)
          /\ nodes[i].validator = (i = N)
          /\ nodes[i].share = i
      BY KnownNode
    <2> QED
      BY <2>1, <2>2 DEF PartOf
  <1> QED
    BY <1>1, SetupInvariant, PTL

(***************************************************************************)
(* On a path of any length neighbours share a mask and the first sends to  *)
(* where the second listens, but for hosts that bind another interface;    *)
(* the ends of the path are those of the sender and the receiver.          *)
(***************************************************************************)
THEOREM NeighboursAlwaysMeet == Spec => []NeighboursMeet
  <1>1. IInv => NeighboursMeet
    <2> SUFFICES ASSUME IInv PROVE NeighboursMeet
      OBVIOUS
    <2>1. ASSUME NEW i \in 1..(N - 1), Built(i), Built(i + 1)
          PROVE  /\ built[i].upstream_mask = built[i + 1].downstream_mask
                 /\ built[i].upstream_mask # None
                 /\ \/ built[i].upstream = built[i + 1].node_address
                    \/ Misbound(i + 1)
      <3>1. /\ i \in Positions /\ i + 1 \in Positions /\ i < N /\ i + 1 > 1
            /\ (i + 1) - 1 = i /\ i \in Nat
        BY <2>1, NAssumption DEF Positions
      <3>2. /\ built[i].upstream_mask = i
            /\ built[i].upstream = nodes[i + 1].downstream
        <4>1. /\ built[i].upstream_mask = nodes[i].upstream_mask
              /\ built[i].upstream = nodes[i].upstream
          BY <2>1, <3>1, BuiltNode
        <4>2. /\ nodes[i].upstream_mask = i
              /\ nodes[i].upstream = nodes[i + 1].downstream
          BY <2>1, <3>1, KnownNode
        <4> QED
          BY <4>1, <4>2
      <3>3. built[i + 1].downstream_mask = i
        <4>1. built[i + 1].downstream_mask = nodes[i + 1].downstream_mask
          BY <2>1, <3>1, BuiltNode
        <4>2. nodes[i + 1].downstream_mask = i
          BY <2>1, <3>1, KnownNode
        <4> QED
          BY <4>1, <4>2
      <3> QED
        BY <3>1, <3>2, <3>3, NoneAssumption DEF Misbound
    <2>2. 1 \in Positions /\ N \in Positions
      BY NAssumption DEF Positions
    <2>3. ASSUME Built(1) PROVE built[1].node_address.port = sender
      <3>1. built[1].node_address = [ip   |-> NicIp(1, nodes[1].downstream.ip),
                                     port |-> nodes[1].downstream.port]
        BY <2>2, <2>3, BuiltNode
      <3>2. nodes[1].downstream.port = sender
        BY <2>2, <2>3, KnownNode
      <3> QED
        BY <3>1, <3>2
    <2>4. ASSUME Built(N) PROVE built[N].upstream = receiver
      <3>1. built[N].upstream = nodes[N].upstream
        BY <2>2, <2>4, BuiltNode
      <3>2. nodes[N].upstream = receiver
        BY <2>2, <2>4, KnownNode
      <3> QED
        BY <3>1, <3>2
    <2> QED
      BY <2>1, <2>3, <2>4 DEF NeighboursMeet
  <1> QED
    BY <1>1, SetupInvariant, PTL

-----------------------------------------------------------------------------
(* Namesakes *)

\* Among the intervals that end in S one is least by inclusion.
LEMMA LeastElement ==
    ASSUME NEW S \in SUBSET (Nat \ {0}), S # {}
    PROVE  \E k \in S : \A l \in S : k <= l
  <1> DEFINE R == StrictSubsetOrdering(Nat)
             T == {1..k : k \in S}
  <1>1. IsWellFoundedOn(R, FiniteSubsetsOf(Nat))
    BY FS_StrictSubsetOrderingWellFounded
  <1>2. T \subseteq FiniteSubsetsOf(Nat)
    <2>1. \A k \in S : IsFiniteSet(1..k) /\ 1..k \subseteq Nat
      BY FS_Interval
    <2> QED
      BY <2>1 DEF FiniteSubsetsOf
  <1>3. T # {}
    OBVIOUS
  <1>4. PICK x \in T : \A y \in T : <<y, x>> \notin R
    <2> HIDE DEF R, T
    <2> QED
      BY <1>1, <1>2, <1>3, WFMin
  <1>5. PICK k \in S : x = 1..k
    OBVIOUS
  <1>6. ASSUME NEW l \in S, l < k
        PROVE  FALSE
    <2>1. 1..l \in T
      BY <1>6
    <2>2. 1..l \subseteq 1..k /\ 1..l # 1..k
      <3>1. k \in 1..k /\ k \notin 1..l
        BY <1>6
      <3> QED
        BY <3>1, <1>6
    <2>3. 1..l \in SUBSET Nat /\ 1..k \in SUBSET Nat
      OBVIOUS
    <2>4. <<1..l, x>> \in R
      BY <1>5, <2>2, <2>3 DEF StrictSubsetOrdering
    <2> QED
      BY <1>4, <2>1, <2>4
  <1> QED
    BY <1>6

\* The constructor makes a node, never None, when an interface suits.
LEMMA CreatedIsNode ==
    ASSUME NEW i \in Positions, NEW node \in NodeInfos,
           Suitable(i, node.downstream.ip) # {}
    PROVE  CreateNode(i, Config(node)) \in GenericNode
  <1> DEFINE ip == node.downstream.ip
             S  == Suitable(i, ip)
             b  == CreateNode(i, Config(node))
  <1>1. Nics[i] \in Seq(Ips)
    BY HostAssumption DEF Positions
  <1>2. S \in SUBSET (1..Len(Nics[i])) /\ Len(Nics[i]) \in Nat
    BY <1>1, LenProperties DEF Suitable
  <1>3. \E k \in S : \A l \in S : k <= l
    <2>1. S \in SUBSET (Nat \ {0})
      BY <1>2
    <2> QED
      BY <2>1, LeastElement
  <1>4. (CHOOSE k \in S : \A l \in S : k <= l) \in S
    BY <1>3
  <1>5. NicIp(i, ip) \in Ips
    BY <1>1, <1>2, <1>4, ElementOfSeq DEF NicIp
  <1>6. node.downstream \in Address
    BY DEF NodeInfos
  <1>7. b.node_address \in Address
    <2>1. b.node_address = [ip |-> NicIp(i, ip), port |-> node.downstream.port]
      BY CreatedNode
    <2>2. node.downstream.port \in Ports
      BY <1>6 DEF Address
    <2> HIDE DEF b, ip
    <2> QED
      BY <1>5, <2>1, <2>2 DEF Address
  <1>8. GenerateId(node.downstream) \in Seq(0..9)
    <2>1. node.downstream.ip \in Seq(0..9) /\ node.downstream.port \in Seq(0..9)
      BY <1>6, AddressAssumption DEF Address
    <2> QED
      BY <2>1, ConcatProperties DEF GenerateId
  <1>9. /\ b.type \in NodeTypes
        /\ b.node_id \in Seq(0..9)
        /\ b.upstream \in Address \cup {None}
        /\ b.share \in Positions
        /\ b.upstream_mask \in Nat \cup {None}
        /\ b.downstream_mask \in Nat \cup {None}
    <2>1. /\ b.type = IF node.status THEN "Ingress"
                      ELSE IF node.validator THEN "Egress" ELSE "Middle"
          /\ b.node_id = GenerateId(node.downstream)
          /\ b.upstream = node.upstream
          /\ b.share = node.share
          /\ b.upstream_mask = node.upstream_mask
          /\ b.downstream_mask = node.downstream_mask
      BY CreatedNode
    <2> HIDE DEF b
    <2> QED
      BY <1>8, <2>1 DEF NodeInfos, NodeTypes
  <1>10. b = [type            |-> b.type,
              node_id         |-> b.node_id,
              node_address    |-> b.node_address,
              upstream        |-> b.upstream,
              share           |-> b.share,
              upstream_mask   |-> b.upstream_mask,
              downstream_mask |-> b.downstream_mask]
    BY DEF CreateNode
  <1>11. b \in GenericNode
    <2> HIDE DEF b
    <2> QED
      BY <1>7, <1>9, <1>10 DEF GenericNode
  <1> QED
    BY <1>11

InOrder(i) == \E k \in 1..Len(descriptors) : descriptors[k] = i

\* The descriptors hold the last of the linked positions with an identifier.
LastsInv ==
    \A i \in Positions :
        InOrder(i) <=> /\ Linked(i)
                       /\ \A j \in Positions : j > i /\ Linked(j) => ~SameId(i, j)

\* Exactly the first of them are built.
PlacedInv ==
    \A i \in Positions :
        Built(i) <=> \E k \in 1..Len(descriptors) :
                        /\ descriptors[k] = i
                        /\ phase = "done" \/ (phase = "configure" /\ k < pos)

NamesakeInv == LastsInv /\ PlacedInv

LEMMA InitNamesakes == Init => NamesakeInv
  <1> SUFFICES ASSUME Init PROVE NamesakeInv
    OBVIOUS
  <1>1. LastsInv
    BY DEF Init, LastsInv, InOrder, Linked
  <1>2. PlacedInv
    BY DEF Init, PlacedInv, Built
  <1> QED
    BY <1>1, <1>2 DEF NamesakeInv

LEMMA DescribeNamesakes ==
    ASSUME IInv, NamesakeInv, DescribeNode
    PROVE  NamesakeInv'
  <1>1. /\ phase = "describe" /\ phase' \in {"describe", "link"}
        /\ phase' = "link" => pos' = 1
        /\ descriptors' = descriptors /\ built' = built
    BY DEF DescribeNode
  <1>2. \A i \in Positions : ~Linked(i) /\ ~Linked(i)'
    BY <1>1, NAssumption DEF Linked, Positions
  <1>3. LastsInv'
    BY <1>1, <1>2 DEF NamesakeInv, LastsInv, InOrder
  <1>4. PlacedInv'
    BY <1>1 DEF NamesakeInv, PlacedInv, Built
  <1> QED
    BY <1>3, <1>4 DEF NamesakeInv

LEMMA LinkNamesakes ==
    ASSUME IInv, NamesakeInv, LinkNode
    PROVE  NamesakeInv'
  <1>1. /\ phase = "link" /\ pos \in Positions /\ descriptors \in Seq(Positions)
        /\ Len(descriptors) \in Nat
        /\ descriptors' = Insert(descriptors, pos)
        /\ built' = built
        /\ phase' = IF pos = N THEN "configure" ELSE "link"
        /\ pos' = IF pos = N THEN 1 ELSE pos + 1
    BY LenProperties DEF LinkNode, IInv, PhaseInv
  <1>2. \A i, j \in Positions : SameId(i, j)' <=> SameId(i, j)
    <2>1. \A i \in Positions : nodes'[i].node_id = nodes[i].node_id
      <3>1. \A i \in Positions : nodes[i] \in NodeInfos
        BY <1>1 DEF IInv, NodesInv, Described
      <3> QED
        BY <3>1, <1>1, LinkedNode DEF NodeInfos
    <2> QED
      BY <2>1 DEF SameId
  <1>3. \A i \in Positions : /\ Linked(i) <=> i < pos
                             /\ Linked(i)' <=> i <= pos
    BY <1>1, NAssumption DEF Linked, Positions
  <1>4. \A i \in Positions :
           InOrder(i)' <=> i = pos \/ (InOrder(i) /\ ~SameId(i, pos))
    <2>1. CASE \E k \in 1..Len(descriptors) : SameId(descriptors[k], pos)
      <3>1. descriptors' = [k \in 1..Len(descriptors) |->
                IF SameId(descriptors[k], pos) THEN pos ELSE descriptors[k]]
        BY <2>1, <1>1 DEF Insert
      <3>2. Len(descriptors') = Len(descriptors)
        BY <3>1, <1>1
      <3> QED
        BY <2>1, <3>1, <3>2, <1>1 DEF InOrder, SameId
    <2>2. CASE ~ \E k \in 1..Len(descriptors) : SameId(descriptors[k], pos)
      <3>1. descriptors' = Append(descriptors, pos)
        BY <2>2, <1>1 DEF Insert
      <3>2. /\ Len(descriptors') = Len(descriptors) + 1
            /\ \A k \in 1..Len(descriptors) : descriptors'[k] = descriptors[k]
            /\ descriptors'[Len(descriptors) + 1] = pos
        <4>1. pos \in Positions /\ descriptors \in Seq(Positions)
          BY <1>1
        <4> QED
          BY <3>1, <4>1, AppendProperties
      <3>3. \A k \in 1..Len(descriptors') :
               k \in 1..Len(descriptors) \/ k = Len(descriptors) + 1
        BY <3>2, <1>1
      <3>4. 1..Len(descriptors) \subseteq 1..Len(descriptors')
            /\ Len(descriptors) + 1 \in 1..Len(descriptors')
        BY <3>2, <1>1
      <3> QED
        BY <2>2, <3>2, <3>3, <3>4 DEF InOrder
    <2> QED
      BY <2>1, <2>2
  <1>5. LastsInv'
    <2> SUFFICES ASSUME NEW i \in Positions
                 PROVE  InOrder(i)' <=>
                          /\ i <= pos
                          /\ \A j \in Positions : j > i /\ j <= pos => ~SameId(i, j)
      BY <1>2, <1>3 DEF LastsInv
    <2>1. InOrder(i) <=> /\ i < pos
                         /\ \A j \in Positions : j > i /\ j < pos => ~SameId(i, j)
      BY <1>3 DEF NamesakeInv, LastsInv
    <2>2. pos \in Nat /\ \A j \in Positions : j \in Nat
      BY <1>1, NAssumption DEF Positions
    <2>3. CASE i = pos
      BY <2>2, <2>3, <1>4
    <2>4. CASE i # pos
      BY <2>1, <2>2, <2>4, <1>1, <1>4
    <2> QED
      BY <2>3, <2>4
  <1>6. PlacedInv'
    <2>1. \A i \in Positions : ~Built(i)'
      BY <1>1 DEF IInv, BuiltInv, Built
    <2>2. phase' = "link" \/ (phase' = "configure" /\ pos' = 1)
      BY <1>1
    <2> QED
      BY <2>1, <2>2 DEF PlacedInv
  <1> QED
    BY <1>5, <1>6 DEF NamesakeInv

LEMMA ConfigureNamesakes ==
    ASSUME IInv, NamesakeInv, ConfigureNode
    PROVE  NamesakeInv'
  <1>1. /\ phase = "configure" /\ pos \in 1..Len(descriptors)
        /\ descriptors \in Seq(Positions) /\ Len(descriptors) \in Nat
        /\ descriptors[pos] \in Positions
    BY ElementOfSeq, LenProperties DEF ConfigureNode, IInv, PhaseInv
  <1>2. /\ nodes' = nodes /\ descriptors' = descriptors
        /\ phase' = IF pos = Len(descriptors) THEN "done" ELSE "configure"
        /\ pos' = IF pos = Len(descriptors) THEN pos ELSE pos + 1
    BY DEF ConfigureNode
  <1>3. LastsInv'
    BY <1>1, <1>2 DEF NamesakeInv, LastsInv, InOrder, Linked, SameId
  <1>4. built'[descriptors[pos]] # None
    <2> DEFINE t == descriptors[pos]
    <2>1. nodes[t] \in NodeInfos /\ Suitable(t, nodes[t].downstream.ip) # {}
      BY <1>1 DEF IInv, NodesInv, Described, ConfigureNode, Target
    <2>2. CreateNode(t, Config(nodes[t])) \in GenericNode
      BY <1>1, <2>1, CreatedIsNode
    <2>3. built'[t] = CreateNode(t, Config(nodes[t]))
      BY <1>1 DEF IInv, PhaseInv, ConfigureNode, Target
    <2> QED
      BY <2>2, <2>3, NoneAssumption
  <1>5. \A i \in Positions : i # descriptors[pos] => (Built(i)' <=> Built(i))
    BY <1>1 DEF IInv, PhaseInv, ConfigureNode, Target, Built
  <1>6. \A k \in 1..Len(descriptors) :
           (phase' = "done" \/ (phase' = "configure" /\ k < pos'))
             <=> (k < pos \/ k = pos)
    BY <1>1, <1>2
  <1>7. PlacedInv'
    <2> SUFFICES ASSUME NEW i \in Positions
                 PROVE  Built(i)' <=> \E k \in 1..Len(descriptors) :
                                         descriptors[k] = i /\ (k < pos \/ k = pos)
      BY <1>2, <1>6 DEF PlacedInv
    <2>1. Built(i) <=> \E k \in 1..Len(descriptors) : descriptors[k] = i /\ k < pos
      BY <1>1 DEF NamesakeInv, PlacedInv
    <2>2. CASE i = descriptors[pos]
      BY <2>2, <1>1, <1>4 DEF Built
    <2>3. CASE i # descriptors[pos]
      <3>1. Built(i)' <=> Built(i)
        BY <2>3, <1>5
      <3>2. ASSUME NEW k \in 1..Len(descriptors), descriptors[k] = i, k < pos \/ k = pos
            PROVE  k < pos
        BY <2>3, <3>2
      <3> QED
        BY <2>1, <3>1, <3>2
    <2> QED
      BY <2>2, <2>3
  <1> QED
    BY <1>3, <1>7 DEF NamesakeInv

LEMMA RefuseNamesakes ==
    ASSUME NamesakeInv, RefuseNode \/ UNCHANGED vars
    PROVE  NamesakeInv'
  <1>1. CASE RefuseNode
    <2>1. /\ phase = "configure" /\ phase' = "failed"
          /\ built' = [i \in Positions |-> None]
          /\ pos' = pos /\ nodes' = nodes /\ descriptors' = descriptors
      BY <1>1 DEF RefuseNode
    <2>2. LastsInv'
      BY <2>1 DEF NamesakeInv, LastsInv, InOrder, Linked, SameId
    <2>3. PlacedInv'
      BY <2>1 DEF PlacedInv, Built
    <2> QED
      BY <2>2, <2>3 DEF NamesakeInv
  <1>2. CASE UNCHANGED vars
    BY <1>2 DEF vars, NamesakeInv, LastsInv, PlacedInv, InOrder, Linked,
                SameId, Built
  <1> QED
    BY <1>1, <1>2

(***************************************************************************)
(* On a path of any length a node is lost exactly when a later node has    *)
(* its identifier: writing the dictionary in the order of the path keeps   *)
(* the last of several namesakes and no other node suffers.                *)
(***************************************************************************)
THEOREM NamesakesOnly == Spec => []OnlyNamesakesAreLost
  <1>1. IInv /\ NamesakeInv /\ [Next]_vars => NamesakeInv'
    BY DescribeNamesakes, LinkNamesakes, ConfigureNamesakes, RefuseNamesakes
    DEF Next
  <1>2. NamesakeInv => OnlyNamesakesAreLost
    <2> SUFFICES ASSUME NamesakeInv, phase = "done", NEW i \in Positions
                 PROVE  Built(i) <=> \A j \in (i + 1)..N : ~SameId(i, j)
      BY DEF OnlyNamesakesAreLost
    <2>1. Built(i) <=> InOrder(i)
      BY DEF NamesakeInv, PlacedInv, InOrder
    <2>2. InOrder(i) <=> \A j \in Positions : j > i => ~SameId(i, j)
      BY DEF NamesakeInv, LastsInv, Linked
    <2>3. \A j : j \in (i + 1)..N <=> j \in Positions /\ j > i
      BY NAssumption DEF Positions
    <2> QED
      BY <2>1, <2>2, <2>3
  <1> QED
    BY InitNamesakes, SetupInvariant, <1>1, <1>2, PTL DEF Spec
=============================================================================
