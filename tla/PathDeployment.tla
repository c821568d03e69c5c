--------------------------- MODULE PathDeployment ---------------------------
(***************************************************************************)
(* How paths come and go: OPoTController.create_path and destroy_path, run *)
(* by the threads of the REST server, against the NETCONF server and the   *)
(* NodeController of every host.                                           *)
(*                                                                         *)
(* A host keeps its configuration in the datastore of sysrepo, which       *)
(* outlives the NodeController, and its nodes in NodeController.nodes,     *)
(* which does not.  An edit_config is one step: sysrepo asks the           *)
(* NodeController (handle_packet) before it accepts the change.            *)
(***************************************************************************)
EXTENDS Naturals, Sequences, FiniteSets

CONSTANTS Paths,      \* paths clients ask for
          Deleters,   \* DELETE requests
          Hosts,
          Routes,     \* the sequences of hosts a path may be asked to follow
          Protocols,  \* the protocols it may be asked to use
          Faults,     \* what may go wrong, of the kinds below
          MaxFaults,  \* bound on how often it does
          None

(***************************************************************************)
(* reject: the host is unreachable or refuses the change.                  *)
(* lost: the change is made, but the reply does not come (timeout=90).     *)
(* thread: node.start() fails in create_node.                              *)
(* restart: the NodeController of a host restarts.                         *)
(***************************************************************************)
FaultKinds == {"reject", "lost", "thread", "restart"}

ASSUME RoutesAssumption == Routes \subseteq Seq(Hosts) \ {<<>>}
ASSUME ProtocolsAssumption == Protocols \subseteq {"UDP", "TCP"}
ASSUME FaultsAssumption == Faults \subseteq FaultKinds /\ MaxFaults \in Nat
ASSUME RequestsAssumption == Paths \cap Deleters = {} /\ None \notin Paths

Requests == Paths \cup Deleters     \* a path stands for the POST that asks it

\* The statuses create_path gives; FINISHED and ERROR need update_status, which
\* nothing calls.
PathStatus == {"Preparing", "Operative"}

VARIABLES
    route, protocol,  \* what the client asked for, by path
    paths,            \* OPoTController.paths
    status,           \* OPoTPath.status
    operative,        \* the positions of each path whose node.status is OPERATIVE
    pc, pos, on,      \* step, position and path of each request
    stored,           \* the profiles in the datastore of each host
    nodes,            \* NodeController.nodes: path to position
    running,          \* the nodes that were started and not told to stop
    faults,           \* faults so far
    unacked           \* history: hosts that took a profile and seemed not to

world == <<route, protocol>>
hosts == <<stored, nodes, running>>
vars == <<world, paths, status, operative, pc, pos, on, hosts, faults, unacked>>

Positions == UNION {1..Len(r) : r \in Routes}
Length(p) == Len(route[p])

Init == /\ route \in [Paths -> Routes]
        /\ protocol \in [Paths -> Protocols]
        /\ paths = {}
        /\ status = [p \in Paths |-> "Preparing"]
        /\ operative = [p \in Paths |-> {}]
        /\ pc = [r \in Requests |-> "idle"]
        /\ pos = [r \in Requests |-> 1]
        /\ on = [r \in Requests |-> IF r \in Paths THEN r ELSE None]
        /\ stored = [h \in Hosts |-> {}]
        /\ nodes = [h \in Hosts |-> {}]
        /\ running = {}
        /\ faults = 0
        /\ unacked = {}

Fault(kind) == kind \in Faults /\ faults < MaxFaults /\ faults' = faults + 1
NoFault == UNCHANGED faults

Step(r, to, at) == /\ pc' = [pc EXCEPT ![r] = to]
                   /\ pos' = [pos EXCEPT ![r] = at]

-----------------------------------------------------------------------------
(* What an edit_config does at host h *)

\* create_node, for a profile that was not in the datastore.
CreateNode(p, i, h) ==
    /\ p \notin stored[h]
    /\ stored' = [stored EXCEPT ![h] = @ \cup {p}]
    /\ nodes' = [nodes EXCEPT ![h] = @ \cup {p}]
    /\ running' = running \cup {<<p, i>>}

\* A profile of that name is there: sysrepo merges the two, and handle_packet
\* does nothing with a ChangeModified.
MergeNode(p, h) == p \in stored[h] /\ UNCHANGED hosts

\* node.start() fails after the node entered the dictionary: create_node
\* terminates the node and raises, and sysrepo refuses the change.
HalfCreateNode(p, h) ==
    /\ p \notin stored[h]
    /\ nodes' = [nodes EXCEPT ![h] = @ \cup {p}]
    /\ UNCHANGED <<stored, running>>

NodesAt(p, h) == {<<p, i>> : i \in {j \in 1..Length(p) : route[p][j] = h}}

\* Faulty variant: the node leaves the dictionary and is not terminated.
DropNode(p, h) ==
    /\ p \in stored[h] /\ p \in nodes[h] /\ protocol[p] = "UDP"
    /\ stored' = [stored EXCEPT ![h] = @ \ {p}]
    /\ nodes' = [nodes EXCEPT ![h] = @ \ {p}]
    /\ UNCHANGED running

\* destroy_node: terminate the node and drop it from the dictionary.
DestroyNode(p, h) ==
    /\ p \in stored[h] /\ p \in nodes[h] /\ protocol[p] = "UDP"
    /\ stored' = [stored EXCEPT ![h] = @ \ {p}]
    /\ nodes' = [nodes EXCEPT ![h] = @ \ {p}]
    /\ running' = running \ NodesAt(p, h)

(***************************************************************************)
(* The removal is refused: sysrepo has no such profile (data-missing), or  *)
(* destroy_node raises: a KeyError, or from terminate, which connects the  *)
(* listening socket of a TCP node after it told its thread to stop.        *)
(***************************************************************************)
RefuseRemoval(p, h) ==
    \/ /\ p \notin stored[h] \/ p \notin nodes[h]
       /\ UNCHANGED hosts
    \/ /\ p \in stored[h] /\ p \in nodes[h] /\ protocol[p] = "TCP"
       /\ running' = running \ NodesAt(p, h)
       /\ UNCHANGED <<stored, nodes>>

-----------------------------------------------------------------------------
(* create_path *)

\* Faulty variant: positions counted from zero.
CreatePathFromZero(p) ==
    /\ pc[p] = "idle"
    /\ Step(p, "deploy", 0)
    /\ paths' = paths \cup {p}
    /\ UNCHANGED <<world, status, operative, on, hosts, faults, unacked>>

CreatePath(p) ==
    /\ pc[p] = "idle"
    /\ Step(p, "deploy", 1)
    /\ paths' = paths \cup {p}
    /\ UNCHANGED <<world, status, operative, on, hosts, faults, unacked>>

\* The next node is configured and marked OPERATIVE.
DeployNode(p) ==
    /\ pc[p] = "deploy" /\ pos[p] <= Length(p)
    /\ LET h == route[p][pos[p]]
       IN  CreateNode(p, pos[p], h) \/ MergeNode(p, h)
    /\ operative' = [operative EXCEPT ![p] = @ \cup {pos[p]}]
    /\ Step(p, "deploy", pos[p] + 1)
    /\ UNCHANGED <<world, paths, status, on, faults, unacked>>

\* Faulty variants: the error is logged, and the next node configured ...
DeployGoesOn(p) ==
    /\ pc[p] = "deploy" /\ pos[p] <= Length(p)
    /\ Fault("reject")
    /\ Step(p, "deploy", pos[p] + 1)
    /\ UNCHANGED <<world, paths, status, operative, on, hosts, unacked>>

\* ... or it is passed to the client without a rollback.
DeployGivesUp(p) ==
    /\ pc[p] = "deploy" /\ pos[p] <= Length(p)
    /\ Fault("reject")
    /\ Step(p, "error", 1)
    /\ UNCHANGED <<world, paths, status, operative, on, hosts, unacked>>

\* The next node cannot be configured, or so it seems: roll back, which is
\* destroy_path on what is marked OPERATIVE.
DeployFails(p) ==
    /\ pc[p] = "deploy" /\ pos[p] <= Length(p)
    /\ LET h == route[p][pos[p]]
       IN  \/ Fault("reject") /\ UNCHANGED <<hosts, unacked>>
           \/ Fault("thread") /\ HalfCreateNode(p, h) /\ UNCHANGED unacked
           \/ /\ Fault("lost")
              /\ CreateNode(p, pos[p], h) \/ MergeNode(p, h)
              /\ unacked' = unacked \cup {<<p, h>>}
    /\ Step(p, "lookup", 1)
    /\ UNCHANGED <<world, paths, status, operative, on>>

PathCreated(p) ==
    /\ pc[p] = "deploy" /\ pos[p] > Length(p)
    /\ status' = [status EXCEPT ![p] = "Operative"]
    /\ Step(p, "ok", 1)
    /\ UNCHANGED <<world, paths, operative, on, hosts, faults, unacked>>

-----------------------------------------------------------------------------
(* destroy_path, for a DELETE request or as the rollback of create_path *)

\* A client that was given the identifier of a path asks to delete it.
RequestDelete(d, p) ==
    /\ pc[d] = "idle" /\ pc[p] = "ok"
    /\ on' = [on EXCEPT ![d] = p]
    /\ Step(d, "lookup", 1)
    /\ UNCHANGED <<world, paths, status, operative, hosts, faults, unacked>>

\* It asks again when it is answered 500, not when it is answered 404.
Retry(d) ==
    /\ pc[d] = "error" /\ on[d] \in paths
    /\ Step(d, "lookup", 1)
    /\ UNCHANGED <<world, paths, status, operative, on, hosts, faults, unacked>>

\* self.paths[path_id].nodes.items()
FindPath(r) ==
    /\ pc[r] = "lookup"
    /\ Step(r, IF on[r] \in paths THEN "remove" ELSE "error", 1)
    /\ UNCHANGED <<world, paths, status, operative, on, hosts, faults, unacked>>

Deployed(r) == pos[r] \in operative[on[r]]
HostOf(r) == route[on[r]][pos[r]]

\* A node that is not OPERATIVE is passed over.
SkipNode(r) ==
    /\ pc[r] = "remove" /\ pos[r] <= Length(on[r])
    /\ ~Deployed(r)
    /\ Step(r, "remove", pos[r] + 1)
    /\ UNCHANGED <<world, paths, status, operative, on, hosts, faults, unacked>>

RemoveNode(r) ==
    /\ pc[r] = "remove" /\ pos[r] <= Length(on[r])
    /\ Deployed(r)
    /\ DestroyNode(on[r], HostOf(r))
    /\ Step(r, "remove", pos[r] + 1)
    /\ UNCHANGED <<world, paths, status, operative, on, faults, unacked>>

\* Faulty variant: the error is logged, and the next node removed.
RemovalGoesOn(r) ==
    /\ pc[r] = "remove" /\ pos[r] <= Length(on[r])
    /\ Deployed(r)
    /\ NoFault /\ RefuseRemoval(on[r], HostOf(r))
    /\ Step(r, "remove", pos[r] + 1)
    /\ UNCHANGED <<world, paths, status, operative, on, unacked>>

\* The first removal that fails ends destroy_path; create_path swallows that
\* and raises its own error.
RemoveFails(r) ==
    /\ pc[r] = "remove" /\ pos[r] <= Length(on[r])
    /\ Deployed(r)
    /\ \/ NoFault /\ RefuseRemoval(on[r], HostOf(r))
       \/ Fault("reject") /\ UNCHANGED hosts
       \/ Fault("lost") /\ DestroyNode(on[r], HostOf(r))
    /\ Step(r, "error", 1)
    /\ UNCHANGED <<world, paths, status, operative, on, unacked>>

\* self.paths.get(path_id).closeFiles(), an AttributeError when it is gone.
CloseFiles(r) ==
    /\ pc[r] = "remove" /\ pos[r] > Length(on[r])
    /\ Step(r, IF on[r] \in paths THEN "pop" ELSE "error", 1)
    /\ UNCHANGED <<world, paths, status, operative, on, hosts, faults, unacked>>

\* Faulty variant: only a rollback forgets the path.
PopOnRollback(r) ==
    /\ pc[r] = "pop"
    /\ Step(r, IF r \in Deleters /\ on[r] \in paths THEN "ok" ELSE "error", 1)
    /\ paths' = paths \ ({on[r]} \cap Paths \cap {r})
    /\ UNCHANGED <<world, status, operative, on, hosts, faults, unacked>>

\* self.paths.pop(path_id); a rollback still answers the create with an error.
PopPath(r) ==
    /\ pc[r] = "pop"
    /\ Step(r, IF r \in Deleters /\ on[r] \in paths THEN "ok" ELSE "error", 1)
    /\ paths' = paths \ {on[r]}
    /\ UNCHANGED <<world, status, operative, on, hosts, faults, unacked>>

-----------------------------------------------------------------------------

\* The NodeController restarts: it finds the stored profiles, and passes.
RestartNodeController(h) ==
    /\ Fault("restart")
    /\ nodes' = [nodes EXCEPT ![h] = {}]
    /\ running' = {n \in running : route[n[1]][n[2]] # h}
    /\ UNCHANGED <<world, paths, status, operative, pc, pos, on, stored,
                   unacked>>

Serve(r) == \/ r \in Paths /\ (DeployNode(r) \/ DeployFails(r) \/ PathCreated(r))
            \/ FindPath(r) \/ SkipNode(r) \/ RemoveNode(r) \/ RemoveFails(r)
            \/ CloseFiles(r) \/ PopPath(r)

Next == \/ \E p \in Paths : CreatePath(p)
        \/ \E d \in Deleters, p \in Paths : RequestDelete(d, p)
        \/ \E d \in Deleters : Retry(d)
        \/ \E r \in Requests : Serve(r)
        \/ \E h \in Hosts : RestartNodeController(h)

Spec == Init /\ [][Next]_vars

(***************************************************************************)
(* The server finishes the requests it accepted (every NETCONF call has a  *)
(* timeout), and a client that wants a path deleted keeps asking.          *)
(***************************************************************************)
FairSpec == /\ Spec
            /\ \A r \in Requests : WF_vars(Serve(r))
            /\ \A d \in Deleters : WF_vars(Retry(d))

-----------------------------------------------------------------------------
(* Properties *)

TypeOK == /\ route \in [Paths -> Routes]
          /\ protocol \in [Paths -> Protocols]
          /\ paths \in SUBSET Paths
          /\ status \in [Paths -> PathStatus]
          /\ operative \in [Paths -> SUBSET Positions]
          /\ pc \in [Requests -> {"idle", "deploy", "lookup", "remove", "pop",
                                  "ok", "error"}]
          /\ on \in [Requests -> Paths \cup {None}]
          /\ pos \in [Requests -> Nat \ {0}]
          /\ \A r \in Requests : on[r] # None => pos[r] <= Length(on[r]) + 1
          /\ stored \in [Hosts -> SUBSET Paths]
          /\ nodes \in [Hosts -> SUBSET Paths]
          /\ running \in SUBSET (Paths \X Positions)
          /\ faults \in 0..MaxFaults
          /\ unacked \in SUBSET (Paths \X Hosts)

DifferentHosts(p) == \A h \in Hosts : Cardinality(NodesAt(p, h)) <= 1

ClosedOrForgotten(p) ==
    \/ pc[p] # "idle" /\ p \notin paths
    \/ \E r \in Requests : pc[r] = "pop" /\ on[r] = p

(***************************************************************************)
(* The controller closes the files of a path and forgets it only when no   *)
(* host runs it or holds its profile any more, whatever failed before and  *)
(* however DELETE requests interleave, but for nodes whose creation was    *)
(* made and reported as failed.                                            *)
(***************************************************************************)
ForgottenMeansClean ==
    \A p \in Paths : ClosedOrForgotten(p) =>
        \A i \in 1..Length(p) :
            \/ <<p, route[p][i]>> \in unacked
            \/ <<p, i>> \notin running /\ p \notin stored[route[p][i]]

(***************************************************************************)
(* A path that is OPERATIVE, and that nobody asked to delete, has its      *)
(* profile on every host of its route, and every node of it on a host of   *)
(* its own was started there and not told to stop, unless the              *)
(* NodeController forgot it in a restart.  (An error may have ended its    *)
(* loop since: see KeptNodesServe of NodeLife.)                            *)
(***************************************************************************)
OperativeMeansDeployed ==
    \A p \in Paths :
        (status[p] = "Operative" /\ \A d \in Deleters : on[d] # p) =>
            \A i \in 1..Length(p) :
                /\ p \in stored[route[p][i]]
                /\ \/ <<p, i>> \in running
                   \/ p \notin nodes[route[p][i]]
                   \/ Cardinality(NodesAt(p, route[p][i])) > 1

(***************************************************************************)
(* The rollback works: when one thing goes wrong in the creation of a UDP  *)
(* path over different hosts, the client that gets the error leaves        *)
(* nothing behind in the controller.                                       *)
(***************************************************************************)
FailedCreateIsForgotten ==
    \A p \in Paths :
        (/\ pc[p] = "error" /\ faults = 1
         /\ protocol[p] = "UDP"
         /\ DifferentHosts(p)) =>
            p \notin paths

(***************************************************************************)
(* A node runs only under a profile in the datastore of its host, and only *)
(* if the NodeController knows it: it can be found to be stopped.          *)
(***************************************************************************)
RunningIsKnown ==
    \A n \in running : LET h == route[n[1]][n[2]]
                       IN  n[1] \in stored[h] /\ n[1] \in nodes[h]

(***************************************************************************)
(* A client that asks for a path to be deleted, and asks again as long as  *)
(* it is answered 500, gets it deleted, also when another one asks at the  *)
(* same time: a UDP path over different hosts, when nothing goes wrong.    *)
(***************************************************************************)
PathsAreDeleted ==
    \A d \in Deleters, p \in Paths :
        (pc[d] = "lookup" /\ on[d] = p) ~>
            \/ p \notin paths
            \/ faults > 0 \/ protocol[p] = "TCP" \/ ~DifferentHosts(p)
=============================================================================
