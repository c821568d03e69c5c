----------------------------- MODULE PathSetup -----------------------------
(***************************************************************************)
(* What every node of a path is told: OPoTPath.generate_node_descriptors   *)
(* describes the nodes and links them, NodeDescriptor.create_node_config   *)
(* writes the configuration of one, and the NodeController of the host     *)
(* builds the node from what it reads.                                     *)
(*                                                                         *)
(* Each position has a host of its own (PathDeployment treats two on one). *)
(* A path of one node fails with an IndexError before it has a descriptor. *)
(***************************************************************************)
EXTENDS Naturals, Sequences

CONSTANTS N,          \* number_of_nodes
          Ips, Ports, \* both as the digits they are written with
          Mgmt,       \* the management address of each host
          Nics,       \* the addresses of its interfaces, in netifaces' order
          NetOf,      \* the network of an address
          None

ASSUME NAssumption == N \in Nat /\ N >= 2
ASSUME AddressAssumption == Ips \subseteq Seq(0..9) /\ Ports \subseteq Seq(0..9)
ASSUME HostAssumption == /\ Mgmt \in [1..N -> Ips]
                         /\ Nics \in [1..N -> Seq(Ips)]
                         /\ Ips \subseteq DOMAIN NetOf

Positions == 1..N
Address == [ip : Ips, port : Ports]

NodeTypes == {"Ingress", "Middle", "Egress"}

\* The node a host runs.
GenericNode == [type            : NodeTypes,
                node_id         : Seq(0..9),
                node_address    : Address,
                upstream        : Address \cup {None},
                share           : Positions,
                upstream_mask   : Nat \cup {None},
                downstream_mask : Nat \cup {None}]

\* None is none of the values it stands in for.
ASSUME NoneAssumption == /\ None \notin Ips \cup Ports
                         /\ None \notin Nat /\ None \notin BOOLEAN
                         /\ None \notin Address /\ None \notin GenericNode

VARIABLES
    path_ip, port,      \* what the client gave for each node, or None
    sender, receiver,   \* sender_address[1] and receiver_address
    phase, pos,         \* step and position of create_path
    nodes,              \* the list nodes, by position
    descriptors,        \* nodes_descriptors: the positions it holds, in order
    built               \* the node each host runs

vars == <<path_ip, port, sender, receiver, phase, pos, nodes, descriptors,
          built>>

\* Masks and shares are named by their index in the lists they come from.
Init == /\ path_ip \in [Positions -> Ips \cup {None}]
        /\ port \in [Positions -> Ports \cup {None}]
        /\ sender \in Ports
        /\ receiver \in Address
        /\ phase = "describe" /\ pos = 1
        /\ nodes = [i \in Positions |-> None]
        /\ descriptors = <<>>
        /\ built = [i \in Positions |-> None]

-----------------------------------------------------------------------------
(* The controller *)

\* generate_id hashes the digits of ip and port, one after the other.
GenerateId(address) == address.ip \o address.port

\* address.get('path_ip', address['mgmt_ip'])
PathIp(i) == IF path_ip[i] # None THEN path_ip[i] ELSE Mgmt[i]

\* The profile of position i: what generate_node_descriptors leaves out is
\* false, or None.
Profile(i) == [status          |-> i = 1,
               validator       |-> i = N,
               share           |-> i,
               upstream_mask   |-> IF i < N THEN i ELSE None,
               downstream_mask |-> IF i > 1 THEN i - 1 ELSE None]

GetNodeType(profile) == IF profile.status THEN "Ingress"
                        ELSE IF profile.validator THEN "Egress" ELSE "Middle"

\* The NodeInfo of position i, which listens on port p.
NodeInfo(i, p) ==
    LET listen == [ip |-> PathIp(i), port |-> p]   profile == Profile(i)
    IN  [downstream      |-> listen,
         upstream        |-> IF i = N THEN receiver ELSE None,
         node_id         |-> GenerateId(listen),
         node_type       |-> GetNodeType(profile),
         status          |-> profile.status,
         validator       |-> profile.validator,
         share           |-> profile.share,
         upstream_mask   |-> profile.upstream_mask,
         downstream_mask |-> profile.downstream_mask]

\* Faulty variant: the ingress node listens on a port of its own.
IngressOwnPort(i, p) == p \in IF port[i] = None THEN Ports ELSE {port[i]}

\* The ingress node listens on the port of the sender, the others on their
\* own, which is drawn when the client gave none.
ListeningPort(i, p) ==
    p \in IF i = 1 THEN {sender} ELSE IF port[i] = None THEN Ports ELSE {port[i]}

DescribeNode ==
    /\ phase = "describe"
    /\ \E p \in Ports : /\ ListeningPort(pos, p)
                        /\ nodes' = [nodes EXCEPT ![pos] = NodeInfo(pos, p)]
    /\ phase' = IF pos = N THEN "link" ELSE "describe"
    /\ pos' = IF pos = N THEN 1 ELSE pos + 1
    /\ UNCHANGED <<path_ip, port, sender, receiver, descriptors, built>>

\* set_upstream_node(nodes[i + 1]), then set_downstream_node(nodes[i - 1]).
Upstream(i) == IF i < N THEN nodes[i + 1].downstream ELSE nodes[i].upstream

\* Faulty variant: the address of the previous node, not the one it sends to.
DownstreamOfPrevious(i) ==
    IF i > 1 THEN nodes[i - 1].downstream ELSE nodes[i].downstream

Downstream(i) == IF i > 1 THEN nodes[i - 1].upstream ELSE nodes[i].downstream

SameId(i, j) == nodes[i].node_id = nodes[j].node_id

\* Faulty variant: a key that is there keeps its value.
InsertIfAbsent(order, i) ==
    IF \E k \in 1..Len(order) : SameId(order[k], i) THEN order
    ELSE Append(order, i)

\* nodes_descriptors[node.node_id] = node: a key that is there keeps its place
\* and gets the new value.
Insert(order, i) ==
    IF \E k \in 1..Len(order) : SameId(order[k], i)
    THEN [k \in 1..Len(order) |-> IF SameId(order[k], i) THEN i ELSE order[k]]
    ELSE Append(order, i)

LinkNode ==
    /\ phase = "link"
    /\ nodes' = [nodes EXCEPT ![pos].upstream = Upstream(pos),
                              ![pos].downstream = Downstream(pos)]
    /\ descriptors' = Insert(descriptors, pos)
    /\ phase' = IF pos = N THEN "configure" ELSE "link"
    /\ pos' = IF pos = N THEN 1 ELSE pos + 1
    /\ UNCHANGED <<path_ip, port, sender, receiver, built>>

-----------------------------------------------------------------------------
(* The configuration, and the host *)

Parsed == {"downstream", "upstream", "status", "validator", "share",
           "upstream_mask", "downstream_mask"}

\* _add_to_parent writes nothing that is None ...
Written(node) == {f \in Parsed : node[f] # None}

\* ... create_node_config no identifier and no type ...
Config(node) == [f \in Written(node) |-> node[f]]

\* ... and NodeDescriptor reads None back where a value is missing.
Get(config, f) == IF f \in DOMAIN config THEN config[f] ELSE None

\* get_nic_ip: the first interface in the network of the address.
Suitable(i, ip) ==
    {k \in 1..Len(Nics[i]) : NetOf[Nics[i][k]] = NetOf[ip]}
NicIp(i, ip) ==
    Nics[i][CHOOSE k \in Suitable(i, ip) : \A l \in Suitable(i, ip) : k <= l]

NodeType(config) == IF config["status"] THEN "Ingress"
                    ELSE IF config["validator"] THEN "Egress" ELSE "Middle"

\* create_node and the constructors it calls.
CreateNode(i, config) ==
    [type            |-> NodeType(config),
     node_id         |-> GenerateId(config["downstream"]),
     node_address    |-> [ip   |-> NicIp(i, config["downstream"].ip),
                          port |-> config["downstream"].port],
     upstream        |-> Get(config, "upstream"),
     share           |-> config["share"],
     upstream_mask   |-> Get(config, "upstream_mask"),
     downstream_mask |-> Get(config, "downstream_mask")]

Target == descriptors[pos]

ConfigureNode ==
    /\ phase = "configure"
    /\ Suitable(Target, nodes[Target].downstream.ip) # {}
    /\ built' = [built EXCEPT ![Target] =
                    CreateNode(Target, Config(nodes[Target]))]
    /\ phase' = IF pos = Len(descriptors) THEN "done" ELSE "configure"
    /\ pos' = IF pos = Len(descriptors) THEN pos ELSE pos + 1
    /\ UNCHANGED <<path_ip, port, sender, receiver, nodes, descriptors>>

\* No interface suits the address: the host refuses, the path is rolled back.
RefuseNode ==
    /\ phase = "configure"
    /\ Suitable(Target, nodes[Target].downstream.ip) = {}
    /\ phase' = "failed"
    /\ built' = [i \in Positions |-> None]
    /\ UNCHANGED <<path_ip, port, sender, receiver, pos, nodes, descriptors>>

Next == DescribeNode \/ LinkNode \/ ConfigureNode \/ RefuseNode

Spec == Init /\ [][Next]_vars

-----------------------------------------------------------------------------
(* Properties *)

Built(i) == built[i] # None

\* The interface that is found first has another address than was asked for.
Misbound(i) == built[i].node_address # nodes[i].downstream

(***************************************************************************)
(* Two nodes next to each other on the path share a mask, and the first    *)
(* sends to where the second listens, unless the second one's host bound   *)
(* the first of several interfaces of one network; the ingress node        *)
(* listens on the port the sender was given, the egress node sends to the  *)
(* receiver.                                                               *)
(***************************************************************************)
NeighboursMeet ==
    /\ \A i \in 1..(N - 1) :
          Built(i) /\ Built(i + 1) =>
              /\ built[i].upstream_mask = built[i + 1].downstream_mask
              /\ built[i].upstream_mask # None
              /\ \/ built[i].upstream = built[i + 1].node_address
                 \/ Misbound(i + 1)
    /\ Built(1) => built[1].node_address.port = sender
    /\ Built(N) => built[N].upstream = receiver

(***************************************************************************)
(* A node reports under the identifier the controller knows it by          *)
(* (locate_error looks reports up by the keys of the descriptors) although *)
(* the identifier is not sent and the host computes it from an address     *)
(* that was written again when the nodes were linked; and it plays the     *)
(* part the controller shows for it, and has the share, of its position:   *)
(* both sides work the type out on their own.                              *)
(***************************************************************************)
NodesAreWhoTheyShouldBe ==
    \A i \in Positions : Built(i) =>
        /\ built[i].node_id = nodes[i].node_id
        /\ built[i].share = i
        /\ built[i].type = nodes[i].node_type
        /\ built[i].type = IF i = 1 THEN "Ingress"
                           ELSE IF i = N THEN "Egress" ELSE "Middle"

(***************************************************************************)
(* A path that is set up lacks a node only where a later node has the same *)
(* identifier (the same address, or another with the same digits); only    *)
(* then its flows wait for more reports than there are nodes.              *)
(***************************************************************************)
OnlyNamesakesAreLost ==
    phase = "done" =>
        \A i \in Positions :
            Built(i) <=> \A j \in (i + 1)..N : ~SameId(i, j)
=============================================================================
