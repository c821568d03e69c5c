------------------------ MODULE PathDeploymentProofs ------------------------
(***************************************************************************)
(* Proofs about PathDeployment, for any number of paths, clients, hosts    *)
(* and faults, and routes of any length.                                   *)
(***************************************************************************)
EXTENDS PathDeployment, TLAPS, FiniteSetTheorems

-----------------------------------------------------------------------------
(* The invariant *)

RollingBack == {"lookup", "remove", "pop"}

\* A path is deleted only after its creation was answered.
Requested ==
    /\ \A p \in Paths : on[p] = p
    /\ \A d \in Deleters :
          /\ pc[d] # "deploy"
          /\ on[d] = None <=> pc[d] = "idle"
          /\ on[d] # None => pc[on[d]] = "ok"

\* While a path is created or rolled back the controller knows it.
Kept ==
    \A p \in Paths :
        /\ pc[p] = "idle" => p \notin paths
        /\ pc[p] = "deploy" \/ pc[p] \in RollingBack => p \in paths
        /\ status[p] = "Operative" => pc[p] = "ok"

\* operative holds positions that were configured.
Marked ==
    \A p \in Paths :
        /\ operative[p] \subseteq 1..Length(p)
        /\ pc[p] = "idle" => operative[p] = {}
        /\ pc[p] = "deploy" => operative[p] \subseteq 1..(pos[p] - 1)

\* A profile belongs to a position that is marked, or was not acknowledged.
Accounted ==
    \A p \in Paths, h \in Hosts :
        p \in stored[h] => \/ <<p, h>> \in unacked
                           \/ \E i \in operative[p] : route[p][i] = h

\* What a removal has passed is gone, and nobody creates it again.
Swept ==
    \A r \in Requests :
        pc[r] = "remove" =>
            \A i \in operative[on[r]] :
                i < pos[r] => on[r] \notin stored[route[on[r]][i]]

Clean(p) == \A h \in Hosts : p \in stored[h] => <<p, h>> \in unacked

Forgotten == \A p \in Paths : ClosedOrForgotten(p) => Clean(p)

\* Whatever runs is a node of a route.
Placed == \A n \in running : n[2] \in 1..Length(n[1])

\* Another position of the path is on the host of position i.
Shared(p, i) == \E j \in 1..Length(p) : j # i /\ route[p][j] = route[p][i]

At(p, i) == /\ p \in stored[route[p][i]]
            /\ \/ <<p, i>> \in running
               \/ p \notin nodes[route[p][i]]
               \/ Shared(p, i)

Wanted(p) == \A d \in Deleters : on[d] # p

\* Profiles are where they have been put.
Fresh ==
    \A p \in Paths :
        /\ pc[p] = "idle" => \A h \in Hosts : p \notin stored[h]
        /\ pc[p] = "deploy" =>
              \A h \in Hosts : p \in stored[h] =>
                  \E i \in 1..Length(p) : i < pos[p] /\ route[p][i] = h

\* What was configured stays until somebody asks to delete it.
Built ==
    \A p \in Paths :
        /\ pc[p] = "deploy" => \A i \in 1..Length(p) : i < pos[p] => At(p, i)
        /\ pc[p] = "ok" /\ Wanted(p) => \A i \in 1..Length(p) : At(p, i)

Apart(p) == \A i, j \in 1..Length(p) : route[p][i] = route[p][j] => i = j

\* The node of position i can be removed.
Removable(p, i) == p \in stored[route[p][i]] /\ p \in nodes[route[p][i]]

\* The rollback after the first fault finds every node it has to remove.
Undoable ==
    \A p \in Paths :
        /\ pc[p] \in RollingBack \cup {"error"} => faults >= 1
        /\ Apart(p) =>
              /\ faults = 0 /\ pc[p] = "deploy" =>
                    \A i \in operative[p] : Removable(p, i)
              /\ faults = 1 /\ protocol[p] = "UDP" =>
                    /\ pc[p] = "lookup" =>
                          \A i \in operative[p] : Removable(p, i)
                    /\ pc[p] = "remove" =>
                          \A i \in operative[p] : i >= pos[p] => Removable(p, i)
                    /\ pc[p] = "error" => p \notin paths

IInv == /\ TypeOK /\ Requested /\ Kept /\ Marked /\ Accounted /\ Swept
        /\ Forgotten /\ Placed /\ RunningIsKnown /\ Fresh /\ Built
        /\ Undoable

-----------------------------------------------------------------------------
(* Routes *)

\* A route is not empty, and leads over hosts.
LEMMA RouteFacts ==
    ASSUME TypeOK, NEW p \in Paths
    PROVE  /\ Length(p) \in Nat \ {0}
           /\ \A i \in 1..Length(p) : route[p][i] \in Hosts /\ i \in Positions
<1>1. route[p] \in Routes /\ route[p] \in Seq(Hosts) /\ route[p] # <<>>
  BY RoutesAssumption DEF TypeOK
<1> QED BY <1>1 DEF Length, Positions

-----------------------------------------------------------------------------
(* What happens at a host *)

\* Nothing happens to the nodes of q.
Untouched(q) == \A j \in 1..Length(q) : /\ At(q, j)' = At(q, j)
                                        /\ Removable(q, j)' = Removable(q, j)

\* What the nodes of q need stays.
Preserved(q) == \A j \in 1..Length(q) : /\ At(q, j) => At(q, j)'
                                        /\ Removable(q, j) => Removable(q, j)'

\* The part of TypeOK and the invariants that is about the hosts alone.
HostsOK == /\ stored \in [Hosts -> SUBSET Paths]
           /\ nodes \in [Hosts -> SUBSET Paths]
           /\ running \in SUBSET (Paths \X Positions)
           /\ Placed
           /\ RunningIsKnown

\* What does not reach a host leaves the nodes alone.
LEMMA QuietEffect ==
    ASSUME UNCHANGED world, UNCHANGED hosts, HostsOK
    PROVE  HostsOK' /\ \A q \in Paths : Untouched(q)
<1>1. HostsOK'
  BY DEF HostsOK, hosts, world, Placed, RunningIsKnown, Length
<1>2. \A q \in Paths : Untouched(q)
  BY DEF Untouched, At, Removable, Shared, Length, hosts, world
<1> QED BY <1>1, <1>2

\* create_node: the node of position i comes to its host, no other changes.
LEMMA CreateEffect ==
    ASSUME TypeOK, HostsOK, UNCHANGED world,
           NEW p \in Paths, NEW i \in 1..Length(p),
           CreateNode(p, i, route[p][i])
    PROVE  /\ HostsOK'
           /\ \A q \in Paths \ {p} : Untouched(q)
           /\ Preserved(p) /\ At(p, i)' /\ Removable(p, i)'
           /\ \A h \in Hosts : stored'[h] = IF h = route[p][i]
                                            THEN stored[h] \cup {p}
                                            ELSE stored[h]
<1> USE DEF CreateNode, HostsOK
<1>1. route[p][i] \in Hosts /\ i \in Positions
  BY RouteFacts
<1>2. \A q \in Paths : Length(q)' = Length(q) /\ route'[q] = route[q]
  BY DEF world, Length
<1>3. \A h \in Hosts : /\ stored'[h] = IF h = route[p][i]
                                       THEN stored[h] \cup {p} ELSE stored[h]
                       /\ nodes'[h] = IF h = route[p][i]
                                      THEN nodes[h] \cup {p} ELSE nodes[h]
  BY <1>1
<1>4. /\ stored' \in [Hosts -> SUBSET Paths]
      /\ nodes' \in [Hosts -> SUBSET Paths]
      /\ running' \in SUBSET (Paths \X Positions)
  BY <1>1
<1>5. Placed'
  BY <1>2 DEF Placed
<1>6. \A q \in Paths : \A j \in 1..Length(q) : route[q][j] \in Hosts
  BY RouteFacts
<1>7. RunningIsKnown'
  <2> SUFFICES ASSUME NEW n \in running'
               PROVE  /\ n[1] \in stored'[route'[n[1]][n[2]]]
                      /\ n[1] \in nodes'[route'[n[1]][n[2]]]
    BY DEF RunningIsKnown
  <2>1. CASE n = <<p, i>>
    BY <2>1, <1>1, <1>2, <1>3
  <2>2. CASE n \in running
    <3>1. n[1] \in Paths /\ n[2] \in 1..Length(n[1])
      BY <2>2 DEF Placed
    <3>2. n[1] \in stored[route[n[1]][n[2]]] /\ n[1] \in nodes[route[n[1]][n[2]]]
      BY <2>2 DEF RunningIsKnown
    <3> QED BY <3>1, <3>2, <1>2, <1>3, <1>6
  <2> QED BY <2>1, <2>2
<1>8. \A q \in Paths \ {p} : Untouched(q)
  BY <1>2, <1>3, <1>6 DEF Untouched, At, Removable, Shared
<1>9. Preserved(p)
  <2> SUFFICES ASSUME NEW j \in 1..Length(p)
               PROVE  /\ At(p, j) => At(p, j)'
                      /\ Removable(p, j) => Removable(p, j)'
    BY DEF Preserved
  <2>1. Shared(p, j)' = Shared(p, j)
    BY <1>2 DEF Shared
  <2> QED BY <2>1, <1>2, <1>3, <1>6 DEF At, Removable
<1>10. At(p, i)' /\ Removable(p, i)'
  BY <1>1, <1>2, <1>3 DEF At, Removable
<1> QED BY <1>3, <1>4, <1>5, <1>7, <1>8, <1>9, <1>10

\* create_node whose start fails: only the dictionary of the host changes.
LEMMA HalfCreateEffect ==
    ASSUME TypeOK, HostsOK, UNCHANGED world,
           NEW p \in Paths, NEW i \in 1..Length(p),
           HalfCreateNode(p, route[p][i])
    PROVE  /\ HostsOK'
           /\ \A q \in Paths \ {p} : Untouched(q)
           /\ Preserved(p)
           /\ stored' = stored
<1> USE DEF HalfCreateNode, HostsOK
<1>1. route[p][i] \in Hosts
  BY RouteFacts
<1>2. \A q \in Paths : Length(q)' = Length(q) /\ route'[q] = route[q]
  BY DEF world, Length
<1>3. \A h \in Hosts : nodes'[h] = IF h = route[p][i]
                                   THEN nodes[h] \cup {p} ELSE nodes[h]
  BY <1>1
<1>4. nodes' \in [Hosts -> SUBSET Paths]
  BY <1>1
<1>5. Placed'
  BY <1>2 DEF Placed
<1>6. \A q \in Paths : \A j \in 1..Length(q) : route[q][j] \in Hosts
  BY RouteFacts
<1>7. RunningIsKnown'
  <2> SUFFICES ASSUME NEW n \in running
               PROVE  /\ n[1] \in stored[route'[n[1]][n[2]]]
                      /\ n[1] \in nodes'[route'[n[1]][n[2]]]
    BY DEF RunningIsKnown
  <2>1. n[1] \in Paths /\ n[2] \in 1..Length(n[1])
    BY DEF Placed
  <2>2. n[1] \in stored[route[n[1]][n[2]]] /\ n[1] \in nodes[route[n[1]][n[2]]]
    BY DEF RunningIsKnown
  <2> QED BY <2>1, <2>2, <1>2, <1>3, <1>6
<1>8. \A q \in Paths \ {p} : Untouched(q)
  BY <1>2, <1>3, <1>6 DEF Untouched, At, Removable, Shared
<1>9. Preserved(p)
  <2> SUFFICES ASSUME NEW j \in 1..Length(p)
               PROVE  /\ At(p, j) => At(p, j)'
                      /\ Removable(p, j) => Removable(p, j)'
    BY DEF Preserved
  <2>1. Shared(p, j)' = Shared(p, j)
    BY <1>2 DEF Shared
  <2> QED BY <2>1, <1>2, <1>3, <1>6 DEF At, Removable
<1> QED BY <1>4, <1>5, <1>7, <1>8, <1>9

\* The node of position i leaves its host, and no other node of another host.
LEMMA DestroyEffect ==
    ASSUME TypeOK, HostsOK, UNCHANGED world,
           NEW p \in Paths, NEW i \in 1..Length(p),
           DestroyNode(p, route[p][i])
    PROVE  /\ HostsOK'
           /\ \A q \in Paths \ {p} : Untouched(q)
           /\ \A j \in 1..Length(p) :
                 route[p][j] # route[p][i] => Removable(p, j)' = Removable(p, j)
           /\ \A h \in Hosts : stored'[h] = IF h = route[p][i]
                                            THEN stored[h] \ {p}
                                            ELSE stored[h]
<1> USE DEF DestroyNode, HostsOK
<1>1. route[p][i] \in Hosts
  BY RouteFacts
<1>2. \A q \in Paths : Length(q)' = Length(q) /\ route'[q] = route[q]
  BY DEF world, Length
<1>3. \A h \in Hosts : /\ stored'[h] = IF h = route[p][i]
                                       THEN stored[h] \ {p} ELSE stored[h]
                       /\ nodes'[h] = IF h = route[p][i]
                                      THEN nodes[h] \ {p} ELSE nodes[h]
  BY <1>1
<1>4. /\ stored' \in [Hosts -> SUBSET Paths]
      /\ nodes' \in [Hosts -> SUBSET Paths]
      /\ running' \in SUBSET (Paths \X Positions)
  BY <1>1
<1>5. Placed'
  BY <1>2 DEF Placed
<1>6. \A q \in Paths : \A j \in 1..Length(q) : route[q][j] \in Hosts
  BY RouteFacts
<1>7. \A q \in Paths \ {p} : \A j \in 1..Length(q) :
          <<q, j>> \in running' <=> <<q, j>> \in running
  BY DEF NodesAt
<1>8. RunningIsKnown'
  <2> SUFFICES ASSUME NEW n \in running'
               PROVE  /\ n[1] \in stored'[route'[n[1]][n[2]]]
                      /\ n[1] \in nodes'[route'[n[1]][n[2]]]
    BY DEF RunningIsKnown
  <2>1. n \in running /\ n[1] \in Paths /\ n[2] \in 1..Length(n[1])
        /\ n = <<n[1], n[2]>>
    BY DEF Placed
  <2>2. n[1] \in stored[route[n[1]][n[2]]] /\ n[1] \in nodes[route[n[1]][n[2]]]
    BY <2>1 DEF RunningIsKnown
  <2>3. n[1] = p => route[n[1]][n[2]] # route[p][i]
    BY <2>1 DEF NodesAt
  <2> QED BY <2>1, <2>2, <2>3, <1>2, <1>3, <1>6
<1>9. \A q \in Paths \ {p} : Untouched(q)
  <2> SUFFICES ASSUME NEW q \in Paths \ {p}, NEW j \in 1..Length(q)
               PROVE  /\ At(q, j)' = At(q, j)
                      /\ Removable(q, j)' = Removable(q, j)
    BY DEF Untouched
  <2>1. Shared(q, j)' = Shared(q, j)
    BY <1>2 DEF Shared
  <2>2. /\ q \in stored'[route[q][j]] <=> q \in stored[route[q][j]]
        /\ q \in nodes'[route[q][j]] <=> q \in nodes[route[q][j]]
    BY <1>3, <1>6
  <2> QED BY <2>1, <2>2, <1>2, <1>7 DEF At, Removable
<1>10. \A j \in 1..Length(p) :
          route[p][j] # route[p][i] => Removable(p, j)' = Removable(p, j)
  BY <1>2, <1>3, <1>6 DEF Removable
<1> QED BY <1>3, <1>4, <1>5, <1>8, <1>9, <1>10

\* A refused removal leaves the datastore and the dictionary alone.
LEMMA RefuseEffect ==
    ASSUME TypeOK, HostsOK, UNCHANGED world,
           NEW p \in Paths, NEW i \in 1..Length(p),
           RefuseRemoval(p, route[p][i])
    PROVE  /\ HostsOK'
           /\ \A q \in Paths \ {p} : Untouched(q)
           /\ \A j \in 1..Length(p) : Removable(p, j)' = Removable(p, j)
           /\ stored' = stored
<1>1. stored' = stored /\ nodes' = nodes /\ running' \subseteq running
  BY DEF RefuseRemoval, hosts
<1>2. \A q \in Paths : Length(q)' = Length(q) /\ route'[q] = route[q]
  BY DEF world, Length
<1>3. \A q \in Paths \ {p} : \A j \in 1..Length(q) :
          <<q, j>> \in running' <=> <<q, j>> \in running
  BY DEF NodesAt, RefuseRemoval, hosts
<1>4. Placed' /\ running' \in SUBSET (Paths \X Positions)
  BY <1>1, <1>2 DEF HostsOK, Placed
<1>5. RunningIsKnown'
  BY <1>1, <1>2 DEF HostsOK, RunningIsKnown
<1>6. \A q \in Paths \ {p} : Untouched(q)
  BY <1>1, <1>2, <1>3 DEF Untouched, At, Removable, Shared
<1>7. \A j \in 1..Length(p) : Removable(p, j)' = Removable(p, j)
  BY <1>1, <1>2 DEF Removable
<1> QED BY <1>1, <1>4, <1>5, <1>6, <1>7 DEF HostsOK

\* After a restart of the NodeController the profiles are still there.
LEMMA RestartEffect ==
    ASSUME TypeOK, HostsOK, UNCHANGED world, UNCHANGED stored, NEW h \in Hosts,
           nodes' = [nodes EXCEPT ![h] = {}],
           running' = {n \in running : route[n[1]][n[2]] # h}
    PROVE  /\ HostsOK'
           /\ \A q \in Paths : \A j \in 1..Length(q) : At(q, j) => At(q, j)'
<1> USE DEF HostsOK
<1>1. \A q \in Paths : Length(q)' = Length(q) /\ route'[q] = route[q]
  BY DEF world, Length
<1>2. \A g \in Hosts : nodes'[g] = IF g = h THEN {} ELSE nodes[g]
  OBVIOUS
<1>3. nodes' \in [Hosts -> SUBSET Paths] /\ Placed'
  BY <1>1 DEF Placed
<1>4. \A q \in Paths : \A j \in 1..Length(q) : route[q][j] \in Hosts
  BY RouteFacts
<1>5. RunningIsKnown'
  <2> SUFFICES ASSUME NEW n \in running'
               PROVE  /\ n[1] \in stored[route'[n[1]][n[2]]]
                      /\ n[1] \in nodes'[route'[n[1]][n[2]]]
    BY DEF RunningIsKnown
  <2>1. n \in running /\ n[1] \in Paths /\ n[2] \in 1..Length(n[1])
    BY DEF Placed
  <2> QED BY <2>1, <1>1, <1>2, <1>4 DEF RunningIsKnown
<1>6. ASSUME NEW q \in Paths, NEW j \in 1..Length(q), At(q, j)
      PROVE  At(q, j)'
  <2>1. Shared(q, j)' = Shared(q, j)
    BY <1>1 DEF Shared
  <2> QED BY <1>1, <1>2, <1>4, <1>6, <2>1 DEF At
<1> QED BY <1>3, <1>5, <1>6

\* The parts of the invariant the lemmas above need.
LEMMA HostsFacts == ASSUME IInv PROVE TypeOK /\ HostsOK
BY DEF IInv, HostsOK, TypeOK

\* What the client asked for does not change.
LEMMA WorldFacts ==
    ASSUME UNCHANGED world
    PROVE  \A q \in Paths : /\ route'[q] = route[q] /\ protocol'[q] = protocol[q]
                            /\ Length(q)' = Length(q)
                            /\ Apart(q)' = Apart(q)
BY DEF world, Length, Apart

-----------------------------------------------------------------------------
(* The steps that reach a host *)

\* An edit_config for the next node of p is made.
LEMMA ConfigureEffect ==
    ASSUME TypeOK, HostsOK, Fresh, UNCHANGED world,
           NEW p \in Paths, NEW i \in 1..Length(p),
           pc[p] = "deploy", pos[p] = i,
           CreateNode(p, i, route[p][i]) \/ MergeNode(p, route[p][i])
    PROVE  /\ HostsOK'
           /\ \A q \in Paths \ {p} : Untouched(q)
           /\ Preserved(p) /\ At(p, i)'
           /\ Apart(p) => Removable(p, i)'
           /\ \A g \in Hosts, q \in Paths :
                 q \in stored'[g] <=> (q \in stored[g] \/ (q = p /\ g = route[p][i]))
<1>1. CASE CreateNode(p, i, route[p][i])
  <2>1. /\ HostsOK'
        /\ \A q \in Paths \ {p} : Untouched(q)
        /\ Preserved(p) /\ At(p, i)' /\ Removable(p, i)'
        /\ \A h \in Hosts : stored'[h] = IF h = route[p][i]
                                         THEN stored[h] \cup {p}
                                         ELSE stored[h]
    BY <1>1, CreateEffect
  <2> QED BY <2>1
<1>2. CASE MergeNode(p, route[p][i])
  <2>1. p \in stored[route[p][i]] /\ UNCHANGED hosts
    BY <1>2 DEF MergeNode
  <2>2. HostsOK' /\ \A q \in Paths : Untouched(q)
    BY <2>1, QuietEffect
  <2>3. route[p][i] \in Hosts
    BY RouteFacts
  <2>4. PICK k \in 1..Length(p) : k < i /\ route[p][k] = route[p][i]
    BY <2>1, <2>3 DEF Fresh
  <2>5. Shared(p, i) /\ ~Apart(p)
    BY <2>4 DEF Shared, Apart
  <2>6. At(p, i)
    BY <2>1, <2>5 DEF At
  <2>7. At(p, i)' /\ Preserved(p)
    BY <2>2, <2>6 DEF Untouched, Preserved
  <2>8. UNCHANGED stored
    BY <2>1 DEF hosts
  <2> QED BY <2>1, <2>2, <2>3, <2>5, <2>7, <2>8
<1> QED BY <1>1, <1>2

\* The next node is configured.
LEMMA DeployNodeStep ==
    ASSUME IInv, NEW p \in Paths, DeployNode(p)
    PROVE  IInv'
<1>t. /\ TypeOK /\ Requested /\ Kept /\ Marked /\ Accounted /\ Swept
      /\ Forgotten /\ Placed /\ RunningIsKnown /\ Fresh /\ Built
      /\ Undoable /\ HostsOK
  BY HostsFacts DEF IInv
<1>i. PICK i \in 1..Length(p) : i = pos[p]
  BY <1>t, RouteFacts DEF DeployNode, TypeOK, Requests
<1>s. /\ pc[p] = "deploy" /\ i \in Nat \ {0} /\ i + 1 \in Nat \ {0}
      /\ UNCHANGED <<world, pc, paths, status, on, faults, unacked>>
      /\ CreateNode(p, i, route[p][i]) \/ MergeNode(p, route[p][i])
      /\ pos' = [pos EXCEPT ![p] = i + 1]
      /\ operative' = [operative EXCEPT ![p] = @ \cup {i}]
  BY <1>t, <1>i, RouteFacts DEF DeployNode, Step, TypeOK, Requests
<1>p. /\ \A r \in Requests : pos'[r] = IF r = p THEN i + 1 ELSE pos[r]
      /\ \A q \in Paths : operative'[q] = IF q = p THEN operative[p] \cup {i}
                                          ELSE operative[q]
      /\ on[p] = p
      /\ \A r \in Requests : on[r] = p /\ r # p => pc[r] = "idle"
  BY <1>s, <1>t, RequestsAssumption DEF TypeOK, Requests, Requested
<1>w. \A q \in Paths : /\ route'[q] = route[q] /\ protocol'[q] = protocol[q]
                       /\ Length(q)' = Length(q)
                       /\ Apart(q)' = Apart(q)
                       /\ \A j \in 1..Length(q) : route[q][j] \in Hosts
  BY <1>t, <1>s, WorldFacts, RouteFacts
<1>e. /\ HostsOK'
      /\ \A q \in Paths \ {p} : Untouched(q)
      /\ Preserved(p) /\ At(p, i)'
      /\ Apart(p) => Removable(p, i)'
      /\ \A g \in Hosts, q \in Paths :
            q \in stored'[g] <=> (q \in stored[g] \/ (q = p /\ g = route[p][i]))
  BY <1>t, <1>i, <1>s, ConfigureEffect
<1>1. TypeOK'
  <2>1. operative' \in [Paths -> SUBSET Positions] /\ pos' \in [Requests -> Nat \ {0}]
    BY <1>i, <1>s, <1>t, RouteFacts DEF TypeOK
  <2>2. \A r \in Requests : on'[r] # None => pos'[r] <= (Length(on[r]) + 1)'
    <3> SUFFICES ASSUME NEW r \in Requests, on[r] # None
                 PROVE  pos'[r] <= (Length(on[r]) + 1)'
      BY <1>i, <1>s
    <3>1. on[r] \in Paths /\ Length(on[r])' = Length(on[r])
      BY <1>i, <1>s, <1>t, <1>w DEF TypeOK
    <3>2. CASE r = p
      BY <3>1, <3>2, <1>p, <1>i, <1>s, <1>w, RouteFacts, <1>t
    <3>3. CASE r # p
      BY <3>1, <3>3, <1>p, <1>i, <1>s, <1>t DEF TypeOK
    <3> QED BY <3>2, <3>3
  <2> QED BY <2>1, <2>2, <1>e, <1>i, <1>s, <1>t DEF TypeOK, HostsOK, world
<1>2. Requested'
  BY <1>i, <1>s, <1>t DEF Requested
<1>3. Kept'
  BY <1>i, <1>s, <1>t DEF Kept
<1>4. Marked'
  <2> SUFFICES ASSUME NEW q \in Paths
               PROVE  /\ operative'[q] \subseteq 1..Length(q)
                      /\ pc[q] = "idle" => operative'[q] = {}
                      /\ pc[q] = "deploy" => operative'[q] \subseteq 1..(pos'[q] - 1)
    BY <1>i, <1>s, <1>w DEF Marked
  <2>1. CASE q = p
    BY <2>1, <1>p, <1>i, <1>s, <1>t, RouteFacts DEF Marked, Requests
  <2>2. CASE q # p
    BY <2>2, <1>p, <1>i, <1>s, <1>t DEF Marked, Requests
  <2> QED BY <2>1, <2>2
<1>5. Accounted'
  BY <1>p, <1>e, <1>w, <1>i, <1>s, <1>t DEF Accounted, Marked
<1>6. Swept'
  BY <1>p, <1>e, <1>w, <1>i, <1>s, <1>t, RequestsAssumption
     DEF Swept, Requested, Marked, TypeOK, Requests
<1>7. Forgotten'
  <2>1. ~ClosedOrForgotten(p)'
    BY <1>p, <1>i, <1>s, <1>t DEF ClosedOrForgotten, Kept
  <2>2. \A q \in Paths \ {p} : Clean(q)' = Clean(q)
    BY <1>e, <1>i, <1>s DEF Clean
  <2>3. \A q \in Paths : ClosedOrForgotten(q)' = ClosedOrForgotten(q)
    BY <1>i, <1>s DEF ClosedOrForgotten
  <2> QED BY <2>1, <2>2, <2>3, <1>t DEF Forgotten
<1>8. Placed' /\ RunningIsKnown'
  BY <1>e DEF HostsOK
<1>9. Fresh'
  BY <1>p, <1>e, <1>i, <1>s, <1>w, <1>t DEF Fresh, TypeOK, Requests
<1>10. Built'
  <2> SUFFICES ASSUME NEW q \in Paths, NEW j \in 1..Length(q)
               PROVE  /\ pc[q] = "deploy" /\ j < pos'[q] => At(q, j)'
                      /\ pc[q] = "ok" /\ Wanted(q) => At(q, j)'
    BY <1>i, <1>s, <1>w DEF Built, Wanted
  <2>1. CASE q = p
    <3>1. j < pos'[q] => j < i \/ j = i
      BY <2>1, <1>p, <1>i, <1>s DEF Requests
    <3>2. j < i => At(q, j)
      BY <2>1, <1>i, <1>s, <1>t DEF Built
    <3> QED BY <2>1, <3>1, <3>2, <1>i, <1>s, <1>e DEF Preserved
  <2>2. CASE q # p
    BY <2>2, <1>p, <1>e, <1>t DEF Built, Untouched, Requests
  <2> QED BY <2>1, <2>2
<1>11. Undoable'
  <2> SUFFICES ASSUME NEW q \in Paths
               PROVE  /\ pc[q] \in RollingBack \cup {"error"} => faults >= 1
                      /\ Apart(q) =>
                         /\ faults = 0 /\ pc[q] = "deploy" =>
                               \A k \in operative'[q] : Removable(q, k)'
                         /\ faults = 1 /\ protocol[q] = "UDP" =>
                              /\ pc[q] = "lookup" =>
                                    \A k \in operative'[q] : Removable(q, k)'
                              /\ pc[q] = "remove" =>
                                    \A k \in operative'[q] :
                                        k >= pos'[q] => Removable(q, k)'
                              /\ pc[q] = "error" => q \notin paths
    BY <1>i, <1>s, <1>w DEF Undoable
  <2>0. operative[q] \subseteq 1..Length(q)
    BY <1>t DEF Marked
  <2>1. CASE q = p
    BY <2>0, <2>1, <1>p, <1>e, <1>i, <1>s, <1>t DEF Undoable, Preserved, RollingBack
  <2>2. CASE q # p
    BY <2>0, <2>2, <1>p, <1>e, <1>t DEF Undoable, Untouched, Requests
  <2> QED BY <2>1, <2>2
<1> QED BY <1>1, <1>2, <1>3, <1>4, <1>5, <1>6, <1>7, <1>8, <1>9, <1>10, <1>11
        DEF IInv

\* The next node cannot be configured.
LEMMA DeployFailsStep ==
    ASSUME IInv, NEW p \in Paths, DeployFails(p)
    PROVE  IInv'
<1>t. /\ TypeOK /\ Requested /\ Kept /\ Marked /\ Accounted /\ Swept
      /\ Forgotten /\ Placed /\ RunningIsKnown /\ Fresh /\ Built
      /\ Undoable /\ HostsOK
  BY HostsFacts DEF IInv
<1>i. PICK i \in 1..Length(p) : i = pos[p]
  BY <1>t, RouteFacts DEF DeployFails, TypeOK, Requests
<1>s. /\ pc[p] = "deploy"
      /\ UNCHANGED <<world, paths, status, operative, on>>
      /\ faults' = faults + 1 /\ faults < MaxFaults
      /\ \/ UNCHANGED <<hosts, unacked>>
         \/ HalfCreateNode(p, route[p][i]) /\ UNCHANGED unacked
         \/ /\ CreateNode(p, i, route[p][i]) \/ MergeNode(p, route[p][i])
            /\ unacked' = unacked \cup {<<p, route[p][i]>>}
      /\ pc' = [pc EXCEPT ![p] = "lookup"] /\ pos' = [pos EXCEPT ![p] = 1]
  BY <1>t, <1>i DEF DeployFails, Step, Fault
<1>u. UNCHANGED world /\ pc[p] = "deploy"
  BY <1>s
<1>p. /\ \A r \in Requests : /\ pos'[r] = IF r = p THEN 1 ELSE pos[r]
                             /\ pc'[r] = IF r = p THEN "lookup" ELSE pc[r]
      /\ p \in Requests /\ on[p] = p
      /\ \A r \in Requests : on[r] = p /\ r # p => pc[r] = "idle"
      /\ faults \in Nat
  BY <1>s, <1>t, RequestsAssumption, FaultsAssumption
     DEF TypeOK, Requests, Requested
<1>w. \A q \in Paths : /\ route'[q] = route[q] /\ protocol'[q] = protocol[q]
                       /\ Length(q)' = Length(q)
                       /\ Apart(q)' = Apart(q)
                       /\ \A j \in 1..Length(q) : route[q][j] \in Hosts
  BY <1>t, <1>s, WorldFacts, RouteFacts
<1>e. /\ HostsOK' /\ unacked' \in SUBSET (Paths \X Hosts)
      /\ \A q \in Paths \ {p} : Untouched(q)
      /\ Preserved(p)
      /\ unacked \subseteq unacked'
      /\ \A g \in Hosts, q \in Paths :
            q \in stored'[g] =>
                q \in stored[g] \/ (q = p /\ <<q, g>> \in unacked')
  <2>1. CASE UNCHANGED <<hosts, unacked>>
    <3>1. UNCHANGED hosts
      BY <2>1
    <3>2. HostsOK' /\ \A q \in Paths : Untouched(q)
      BY <3>1, <1>t, <1>u, QuietEffect
    <3> QED BY <2>1, <3>1, <3>2, <1>t DEF hosts, Untouched, Preserved, TypeOK
  <2>2. CASE HalfCreateNode(p, route[p][i]) /\ UNCHANGED unacked
    <3>1. /\ HostsOK'
          /\ \A q \in Paths \ {p} : Untouched(q)
          /\ Preserved(p)
          /\ stored' = stored
      BY <2>2, <1>t, <1>u, HalfCreateEffect
    <3> QED BY <2>2, <3>1, <1>t DEF TypeOK
  <2>3. CASE /\ CreateNode(p, i, route[p][i]) \/ MergeNode(p, route[p][i])
             /\ unacked' = unacked \cup {<<p, route[p][i]>>}
    <3>1. /\ HostsOK'
          /\ \A q \in Paths \ {p} : Untouched(q)
          /\ Preserved(p)
          /\ \A g \in Hosts, q \in Paths :
                 q \in stored'[g] <=> (q \in stored[g] \/ (q = p /\ g = route[p][i]))
      BY <2>3, <1>t, <1>i, <1>u, ConfigureEffect
    <3> QED BY <2>3, <3>1, <1>t, <1>w DEF TypeOK
  <2> QED BY <1>s, <2>1, <2>2, <2>3
<1>1. TypeOK'
  <2>1. /\ pos' \in [Requests -> Nat \ {0}]
        /\ pc' \in [Requests -> {"idle", "deploy", "lookup", "remove", "pop",
                                 "ok", "error"}]
        /\ faults' \in 0..MaxFaults
    <3>1. faults' \in 0..MaxFaults
      BY <1>s, <1>p, <1>t, FaultsAssumption DEF TypeOK
    <3>2. pos' \in [Requests -> Nat \ {0}]
      BY <1>p, <1>s, <1>t DEF TypeOK
    <3> QED BY <3>1, <3>2, <1>s, <1>t DEF TypeOK
  <2>2. \A x \in Requests : on'[x] # None => pos'[x] <= (Length(on[x]) + 1)'
    <3> SUFFICES ASSUME NEW x \in Requests, on[x] # None
                 PROVE  pos'[x] <= (Length(on[x]) + 1)'
      BY <1>s
    <3>1. on[x] \in Paths /\ Length(on[x])' = Length(on[x])
      BY <1>s, <1>t, <1>w DEF TypeOK
    <3>2. Length(on[x]) \in Nat \ {0}
      BY <1>t, <3>1, RouteFacts
    <3>3. pos[x] <= Length(on[x]) + 1 /\ pos[x] \in Nat
      BY <1>t DEF TypeOK
    <3>4. Length(on[x]) + 1 = (Length(on[x]) + 1)'
      BY <3>1
    <3>5. pos'[x] <= Length(on[x]) + 1
      BY <3>1, <3>2, <3>3, <1>p
    <3> QED BY <3>4, <3>5
  <2> QED BY <2>1, <2>2, <1>e, <1>s, <1>t DEF TypeOK, HostsOK, world
<1>2. Requested'
  BY <1>p, <1>s, <1>t, RequestsAssumption DEF Requested, Requests
<1>3. Kept'
  BY <1>p, <1>s, <1>t DEF Kept, RollingBack, Requests
<1>4. Marked'
  BY <1>p, <1>s, <1>t, <1>w DEF Marked, Requests
<1>5. Accounted'
  BY <1>e, <1>w, <1>s, <1>t DEF Accounted, Marked
<1>6. Swept'
  <2> SUFFICES ASSUME NEW r \in Requests, pc'[r] = "remove",
                      NEW k \in operative[on[r]], k < pos'[r]
               PROVE  on[r] \notin stored'[route'[on[r]][k]]
    BY <1>s DEF Swept
  <2>1. r # p /\ pc[r] = "remove" /\ on[r] # p /\ on[r] \in Paths /\ k < pos[r]
    BY <1>p, <1>t, RequestsAssumption DEF Requested, Requests, TypeOK
  <2>2. k \in 1..Length(on[r])
    BY <2>1, <1>t DEF Marked
  <2> QED BY <2>1, <2>2, <1>e, <1>w, <1>t DEF Swept
<1>7. Forgotten'
  <2>1. ~ClosedOrForgotten(p)'
    BY <1>p, <1>s, <1>t DEF ClosedOrForgotten, Kept
  <2>2. \A q \in Paths \ {p} : Clean(q) => Clean(q)'
    BY <1>e DEF Clean
  <2>3. \A q \in Paths \ {p} : ClosedOrForgotten(q)' => ClosedOrForgotten(q)
    BY <1>p, <1>s DEF ClosedOrForgotten, Requests
  <2> QED BY <2>1, <2>2, <2>3, <1>t DEF Forgotten
<1>8. Placed' /\ RunningIsKnown'
  BY <1>e DEF HostsOK
<1>9. Fresh'
  <2>1. pc'[p] = "lookup" /\ \A q \in Paths \ {p} : pc'[q] = pc[q] /\ pos'[q] = pos[q]
    BY <1>p DEF Requests
  <2>2. \A q \in Paths \ {p}, g \in Hosts : q \in stored'[g] => q \in stored[g]
    BY <1>e
  <2> QED BY <2>1, <2>2, <1>w, <1>t DEF Fresh
<1>10. Built'
  BY <1>p, <1>e, <1>s, <1>w, <1>t DEF Built, Untouched, Wanted, Requests
<1>11. Undoable'
  <2> SUFFICES ASSUME NEW q \in Paths
               PROVE  /\ pc'[q] \in RollingBack \cup {"error"} => faults' >= 1
                      /\ Apart(q) =>
                         /\ faults' = 0 /\ pc'[q] = "deploy" =>
                               \A k \in operative[q] : Removable(q, k)'
                         /\ faults' = 1 /\ protocol[q] = "UDP" =>
                              /\ pc'[q] = "lookup" =>
                                    \A k \in operative[q] : Removable(q, k)'
                              /\ pc'[q] = "remove" =>
                                    \A k \in operative[q] :
                                        k >= pos'[q] => Removable(q, k)'
                              /\ pc'[q] = "error" => q \notin paths
    BY <1>s, <1>w DEF Undoable
  <2>0. operative[q] \subseteq 1..Length(q) /\ q \in Requests
    BY <1>t DEF Marked, Requests
  <2>1. CASE q = p
    BY <2>0, <2>1, <1>p, <1>e, <1>s, <1>t DEF Undoable, Preserved, RollingBack
  <2>2. CASE q # p
    BY <2>0, <2>2, <1>p, <1>s, <1>t DEF Undoable, RollingBack
  <2> QED BY <2>1, <2>2
<1> QED BY <1>1, <1>2, <1>3, <1>4, <1>5, <1>6, <1>7, <1>8, <1>9, <1>10, <1>11
        DEF IInv

\* A node is removed.
LEMMA RemoveNodeStep ==
    ASSUME IInv, NEW r \in Requests, RemoveNode(r)
    PROVE  IInv'
<1>t. /\ TypeOK /\ Requested /\ Kept /\ Marked /\ Accounted /\ Swept
      /\ Forgotten /\ Placed /\ RunningIsKnown /\ Fresh /\ Built
      /\ Undoable /\ HostsOK
  BY HostsFacts DEF IInv
<1>r. pc[r] = "remove"
  BY DEF RemoveNode
<1>o. PICK p \in Paths : p = on[r]
  BY <1>r, <1>t DEF Requested, Requests, TypeOK
<1>i. PICK i \in 1..Length(p) : i = pos[r]
  BY <1>t, <1>o, RouteFacts DEF RemoveNode, TypeOK
<1>s. /\ UNCHANGED <<world, pc, paths, status, operative, on, faults, unacked>>
      /\ DestroyNode(p, route[p][i])
      /\ pos' = [pos EXCEPT ![r] = i + 1]
  BY <1>t, <1>r, <1>o, <1>i DEF RemoveNode, Step, TypeOK, HostOf
<1>p. /\ \A x \in Requests : /\ pos'[x] = IF x = r THEN i + 1 ELSE pos[x]
                             /\ pc'[x] = IF x = r THEN "remove" ELSE pc[x]
      /\ r # p => r \in Deleters /\ pc[p] = "ok" /\ ~Wanted(p)
      /\ \A q \in Paths : on[q] = q
      /\ faults \in Nat
  BY <1>s, <1>t, <1>r, <1>o, <1>i, RequestsAssumption, FaultsAssumption
     DEF TypeOK, Requests, Requested, Wanted
<1>w. \A q \in Paths : /\ route'[q] = route[q] /\ protocol'[q] = protocol[q]
                       /\ Length(q)' = Length(q)
                       /\ Apart(q)' = Apart(q)
                       /\ \A j \in 1..Length(q) : route[q][j] \in Hosts
  BY <1>t, <1>s, WorldFacts, RouteFacts
<1>e. /\ HostsOK'
      /\ \A q \in Paths \ {p} : Untouched(q)
      /\ \A j \in 1..Length(p) :
            route[p][j] # route[p][i] => Removable(p, j)' = Removable(p, j)
      /\ \A g \in Hosts, q \in Paths : q \in stored'[g] => q \in stored[g]
      /\ p \notin stored'[route[p][i]]
  <2>1. /\ HostsOK'
        /\ \A q \in Paths \ {p} : Untouched(q)
        /\ \A j \in 1..Length(p) :
              route[p][j] # route[p][i] => Removable(p, j)' = Removable(p, j)
        /\ \A g \in Hosts : stored'[g] = IF g = route[p][i]
                                         THEN stored[g] \ {p} ELSE stored[g]
    BY <1>t, <1>i, <1>s, DestroyEffect
  <2> QED BY <2>1, <1>w
<1>1. TypeOK'
  <2>1. /\ pos' \in [Requests -> Nat \ {0}]
        /\ pc' \in [Requests -> {"idle", "deploy", "lookup", "remove", "pop",
                                 "ok", "error"}]
        /\ faults' \in 0..MaxFaults
    <3>1. faults' \in 0..MaxFaults
      BY <1>s, <1>p, <1>t, FaultsAssumption DEF TypeOK
    <3>2. pos' \in [Requests -> Nat \ {0}]
      BY <1>i, <1>s, <1>t DEF TypeOK
    <3> QED BY <3>1, <3>2, <1>s, <1>t DEF TypeOK
  <2>2. \A x \in Requests : on'[x] # None => pos'[x] <= (Length(on[x]) + 1)'
    <3> SUFFICES ASSUME NEW x \in Requests, on[x] # None
                 PROVE  pos'[x] <= (Length(on[x]) + 1)'
      BY <1>s
    <3>1. on[x] \in Paths /\ Length(on[x])' = Length(on[x])
      BY <1>s, <1>t, <1>w DEF TypeOK
    <3>2. Length(on[x]) \in Nat \ {0}
      BY <1>t, <3>1, RouteFacts
    <3>3. pos[x] <= Length(on[x]) + 1 /\ pos[x] \in Nat
      BY <1>t DEF TypeOK
    <3>4. Length(on[x]) + 1 = (Length(on[x]) + 1)'
      BY <3>1
    <3>5. pos'[x] <= Length(on[x]) + 1
      BY <3>1, <3>2, <3>3, <1>p, <1>i, <1>o
    <3> QED BY <3>4, <3>5
  <2> QED BY <2>1, <2>2, <1>e, <1>s, <1>t DEF TypeOK, HostsOK, world
<1>2. Requested'
  BY <1>p, <1>r, <1>s, <1>t, RequestsAssumption DEF Requested, Requests
<1>3. Kept'
  BY <1>p, <1>r, <1>s, <1>t DEF Kept, RollingBack, Requests
<1>4. Marked'
  BY <1>p, <1>r, <1>s, <1>t, <1>w DEF Marked, Requests
<1>5. Accounted'
  BY <1>e, <1>w, <1>s, <1>t DEF Accounted, Marked
<1>6. Swept'
  <2> SUFFICES ASSUME NEW x \in Requests, pc[x] = "remove",
                      NEW k \in operative[on[x]], k < pos'[x]
               PROVE  on[x] \notin stored'[route'[on[x]][k]]
    BY <1>p, <1>r, <1>s DEF Swept
  <2>1. on[x] \in Paths
    BY <1>t DEF Requested, Requests, TypeOK
  <2>2. k \in 1..Length(on[x])
    BY <2>1, <1>t DEF Marked
  <2>3. CASE k < pos[x]
    BY <2>1, <2>2, <2>3, <1>e, <1>w, <1>t DEF Swept
  <2>4. CASE x = r /\ k = i
    BY <2>1, <2>4, <1>o, <1>e, <1>w
  <2>5. pos[x] \in Nat \ {0}
    BY <1>t DEF TypeOK
  <2> QED BY <2>2, <2>3, <2>4, <2>5, <1>p, <1>i
<1>7. Forgotten'
  <2>1. \A q \in Paths : Clean(q) => Clean(q)'
    BY <1>e, <1>s DEF Clean
  <2>2. \A q \in Paths : ClosedOrForgotten(q)' => ClosedOrForgotten(q)
    BY <1>p, <1>r, <1>s DEF ClosedOrForgotten, Requests
  <2> QED BY <2>1, <2>2, <1>t DEF Forgotten
<1>8. Placed' /\ RunningIsKnown'
  BY <1>e DEF HostsOK
<1>9. Fresh'
  BY <1>p, <1>e, <1>r, <1>s, <1>w, <1>t DEF Fresh, Requests
<1>10. Built'
  <2> SUFFICES ASSUME NEW q \in Paths, NEW j \in 1..Length(q)
               PROVE  /\ pc'[q] = "deploy" /\ j < pos'[q] => At(q, j)'
                      /\ pc'[q] = "ok" /\ Wanted(q) => At(q, j)'
    BY <1>s, <1>w DEF Built, Wanted
  <2>1. CASE q = p
    BY <2>1, <1>o, <1>p, <1>r DEF Requests
  <2>2. CASE q # p
    <3>1. q # r
      BY <2>2, <1>o, <1>p
    <3> QED BY <2>2, <3>1, <1>p, <1>e, <1>t DEF Built, Untouched, Requests
  <2> QED BY <2>1, <2>2
<1>11. Undoable'
  <2> SUFFICES ASSUME NEW q \in Paths
               PROVE  /\ pc'[q] \in RollingBack \cup {"error"} => faults' >= 1
                      /\ Apart(q) =>
                         /\ faults' = 0 /\ pc'[q] = "deploy" =>
                               \A k \in operative[q] : Removable(q, k)'
                         /\ faults' = 1 /\ protocol[q] = "UDP" =>
                              /\ pc'[q] = "lookup" =>
                                    \A k \in operative[q] : Removable(q, k)'
                              /\ pc'[q] = "remove" =>
                                    \A k \in operative[q] :
                                        k >= pos'[q] => Removable(q, k)'
                              /\ pc'[q] = "error" => q \notin paths
    BY <1>s, <1>w DEF Undoable
  <2>0. operative[q] \subseteq 1..Length(q) /\ q \in Requests
    BY <1>t DEF Marked, Requests
  <2>1. CASE q = p
    <3>1. \A k \in 1..Length(p) : Apart(p) /\ k >= i + 1 => route[p][k] # route[p][i]
      BY <1>i DEF Apart
    <3>2. r = p => \A k \in operative[p] :
                      /\ k \in 1..Length(p)
                      /\ k >= i + 1 => k >= pos[p]
      BY <2>0, <2>1, <1>i, <1>t DEF TypeOK
    <3> QED BY <2>0, <2>1, <3>1, <3>2, <1>o, <1>p, <1>r, <1>e, <1>s, <1>t
            DEF Undoable, RollingBack
  <2>2. CASE q # p
    <3>1. q # r
      BY <2>2, <1>o, <1>p
    <3> QED BY <2>0, <2>2, <3>1, <1>p, <1>e, <1>s, <1>t
            DEF Undoable, Untouched, RollingBack
  <2> QED BY <2>1, <2>2
<1> QED BY <1>1, <1>2, <1>3, <1>4, <1>5, <1>6, <1>7, <1>8, <1>9, <1>10, <1>11
        DEF IInv

\* A removal fails.
LEMMA RemoveFailsStep ==
    ASSUME IInv, NEW r \in Requests, RemoveFails(r)
    PROVE  IInv'
<1>t. /\ TypeOK /\ Requested /\ Kept /\ Marked /\ Accounted /\ Swept
      /\ Forgotten /\ Placed /\ RunningIsKnown /\ Fresh /\ Built
      /\ Undoable /\ HostsOK
  BY HostsFacts DEF IInv
<1>r. pc[r] = "remove"
  BY DEF RemoveFails
<1>o. PICK p \in Paths : p = on[r]
  BY <1>r, <1>t DEF Requested, Requests, TypeOK
<1>i. PICK i \in 1..Length(p) : i = pos[r]
  BY <1>t, <1>o, RouteFacts DEF RemoveFails, TypeOK
<1>s. /\ UNCHANGED <<world, paths, status, operative, on, unacked>>
      /\ \/ faults' = faults /\ RefuseRemoval(p, route[p][i])
         \/ faults' = faults + 1 /\ faults < MaxFaults /\ UNCHANGED hosts
         \/ /\ faults' = faults + 1 /\ faults < MaxFaults
            /\ DestroyNode(p, route[p][i])
      /\ i \in operative[p]
      /\ pos' = [pos EXCEPT ![r] = 1] /\ pc' = [pc EXCEPT ![r] = "error"]
  BY <1>t, <1>r, <1>o, <1>i DEF RemoveFails, Step, HostOf, Deployed, Fault, NoFault
<1>p. /\ \A x \in Requests : /\ pos'[x] = IF x = r THEN 1 ELSE pos[x]
                             /\ pc'[x] = IF x = r THEN "error" ELSE pc[x]
      /\ r # p => r \in Deleters /\ pc[p] = "ok" /\ ~Wanted(p)
      /\ \A q \in Paths : on[q] = q
      /\ faults \in Nat
  BY <1>s, <1>t, <1>r, <1>o, <1>i, RequestsAssumption, FaultsAssumption
     DEF TypeOK, Requests, Requested, Wanted
<1>w. \A q \in Paths : /\ route'[q] = route[q] /\ protocol'[q] = protocol[q]
                       /\ Length(q)' = Length(q)
                       /\ Apart(q)' = Apart(q)
                       /\ \A j \in 1..Length(q) : route[q][j] \in Hosts
  BY <1>t, <1>s, WorldFacts, RouteFacts
<1>e. /\ HostsOK'
      /\ \A q \in Paths \ {p} : Untouched(q)
      /\ \A g \in Hosts, q \in Paths : q \in stored'[g] => q \in stored[g]
  <2>1. CASE RefuseRemoval(p, route[p][i])
    BY <2>1, <1>t, <1>i, <1>s, RefuseEffect
  <2>2. CASE UNCHANGED hosts
    <3>1. HostsOK' /\ \A q \in Paths : Untouched(q)
      BY <2>2, <1>t, <1>s, QuietEffect
    <3> QED BY <2>2, <3>1 DEF hosts
  <2>3. CASE DestroyNode(p, route[p][i])
    <3>1. /\ HostsOK'
          /\ \A q \in Paths \ {p} : Untouched(q)
          /\ \A g \in Hosts : stored'[g] = IF g = route[p][i]
                                           THEN stored[g] \ {p} ELSE stored[g]
      BY <2>3, <1>t, <1>i, <1>s, DestroyEffect
    <3> QED BY <3>1
  <2> QED BY <1>s, <2>1, <2>2, <2>3
<1>1. TypeOK'
  <2>1. /\ pos' \in [Requests -> Nat \ {0}]
        /\ pc' \in [Requests -> {"idle", "deploy", "lookup", "remove", "pop",
                                 "ok", "error"}]
        /\ faults' \in 0..MaxFaults
    <3>1. faults' \in 0..MaxFaults
      BY <1>s, <1>p, <1>t, FaultsAssumption DEF TypeOK
    <3>2. pos' \in [Requests -> Nat \ {0}]
      BY <1>i, <1>s, <1>t DEF TypeOK
    <3> QED BY <3>1, <3>2, <1>s, <1>t DEF TypeOK
  <2>2. \A x \in Requests : on'[x] # None => pos'[x] <= (Length(on[x]) + 1)'
    <3> SUFFICES ASSUME NEW x \in Requests, on[x] # None
                 PROVE  pos'[x] <= (Length(on[x]) + 1)'
      BY <1>s
    <3>1. on[x] \in Paths /\ Length(on[x])' = Length(on[x])
      BY <1>s, <1>t, <1>w DEF TypeOK
    <3>2. Length(on[x]) \in Nat \ {0}
      BY <1>t, <3>1, RouteFacts
    <3>3. pos[x] <= Length(on[x]) + 1 /\ pos[x] \in Nat
      BY <1>t DEF TypeOK
    <3>4. Length(on[x]) + 1 = (Length(on[x]) + 1)'
      BY <3>1
    <3>5. pos'[x] <= Length(on[x]) + 1
      BY <3>1, <3>2, <3>3, <1>p, <1>i, <1>o
    <3> QED BY <3>4, <3>5
  <2> QED BY <2>1, <2>2, <1>e, <1>s, <1>t DEF TypeOK, HostsOK, world
<1>2. Requested'
  BY <1>p, <1>r, <1>s, <1>t, RequestsAssumption DEF Requested, Requests
<1>3. Kept'
  BY <1>p, <1>r, <1>s, <1>t DEF Kept, RollingBack, Requests
<1>4. Marked'
  BY <1>p, <1>r, <1>s, <1>t, <1>w DEF Marked, Requests
<1>5. Accounted'
  BY <1>e, <1>w, <1>s, <1>t DEF Accounted, Marked
<1>6. Swept'
  <2> SUFFICES ASSUME NEW x \in Requests, pc'[x] = "remove",
                      NEW k \in operative[on[x]], k < pos'[x]
               PROVE  on[x] \notin stored'[route'[on[x]][k]]
    BY <1>s DEF Swept
  <2>1. x # r /\ pc[x] = "remove" /\ on[x] \in Paths /\ k < pos[x]
    BY <1>p, <1>t DEF Requested, Requests, TypeOK
  <2>2. k \in 1..Length(on[x])
    BY <2>1, <1>t DEF Marked
  <2> QED BY <2>1, <2>2, <1>e, <1>w, <1>t DEF Swept
<1>7. Forgotten'
  <2>1. \A q \in Paths : Clean(q) => Clean(q)'
    BY <1>e, <1>s DEF Clean
  <2>2. \A q \in Paths : ClosedOrForgotten(q)' => ClosedOrForgotten(q)
    BY <1>p, <1>r, <1>s DEF ClosedOrForgotten, Requests
  <2> QED BY <2>1, <2>2, <1>t DEF Forgotten
<1>8. Placed' /\ RunningIsKnown'
  BY <1>e DEF HostsOK
<1>9. Fresh'
  BY <1>p, <1>e, <1>r, <1>s, <1>w, <1>t DEF Fresh, Requests
<1>10. Built'
  <2> SUFFICES ASSUME NEW q \in Paths, NEW j \in 1..Length(q)
               PROVE  /\ pc'[q] = "deploy" /\ j < pos'[q] => At(q, j)'
                      /\ pc'[q] = "ok" /\ Wanted(q) => At(q, j)'
    BY <1>s, <1>w DEF Built, Wanted
  <2>1. CASE q = p
    BY <2>1, <1>o, <1>p, <1>r DEF Requests
  <2>2. CASE q # p
    <3>1. q # r
      BY <2>2, <1>o, <1>p
    <3> QED BY <2>2, <3>1, <1>p, <1>e, <1>t DEF Built, Untouched, Requests
  <2> QED BY <2>1, <2>2
<1>11. Undoable'
  <2> SUFFICES ASSUME NEW q \in Paths
               PROVE  /\ pc'[q] \in RollingBack \cup {"error"} => faults' >= 1
                      /\ Apart(q) =>
                         /\ faults' = 0 /\ pc'[q] = "deploy" =>
                               \A k \in operative[q] : Removable(q, k)'
                         /\ faults' = 1 /\ protocol[q] = "UDP" =>
                              /\ pc'[q] = "lookup" =>
                                    \A k \in operative[q] : Removable(q, k)'
                              /\ pc'[q] = "remove" =>
                                    \A k \in operative[q] :
                                        k >= pos'[q] => Removable(q, k)'
                              /\ pc'[q] = "error" => q \notin paths
    BY <1>s, <1>w DEF Undoable
  <2>0. operative[q] \subseteq 1..Length(q) /\ q \in Requests
    BY <1>t DEF Marked, Requests
  <2>1. CASE q = p
    <3>1. r = p /\ faults' = 1 /\ protocol[p] = "UDP" /\ Apart(p) => FALSE
      <4> SUFFICES ASSUME r = p, faults' = 1, protocol[p] = "UDP", Apart(p)
                   PROVE  FALSE
        OBVIOUS
      <4>1. faults = 1 /\ RefuseRemoval(p, route[p][i])
        BY <1>p, <1>r, <1>s, <1>t DEF Undoable, RollingBack
      <4>2. Removable(p, i)
        BY <4>1, <1>r, <1>i, <1>s, <1>t DEF Undoable
      <4> QED BY <4>1, <4>2 DEF Removable, RefuseRemoval
    <3>2. pc[r] = "remove" /\ (r = p => faults >= 1)
      BY <1>r, <1>t DEF Undoable, RollingBack
    <3> QED BY <2>1, <3>1, <3>2, <1>p, <1>s DEF RollingBack, Requests
  <2>2. CASE q # p
    <3>1. q # r
      BY <2>2, <1>o, <1>p
    <3> QED BY <2>0, <2>2, <3>1, <1>p, <1>e, <1>s, <1>t
            DEF Undoable, Untouched, RollingBack
  <2> QED BY <2>1, <2>2
<1> QED BY <1>1, <1>2, <1>3, <1>4, <1>5, <1>6, <1>7, <1>8, <1>9, <1>10, <1>11
        DEF IInv

\* A NodeController restarts.
LEMMA RestartNodeControllerStep ==
    ASSUME IInv, NEW h \in Hosts, RestartNodeController(h)
    PROVE  IInv'
<1>t. /\ TypeOK /\ Requested /\ Kept /\ Marked /\ Accounted /\ Swept
      /\ Forgotten /\ Placed /\ RunningIsKnown /\ Fresh /\ Built
      /\ Undoable /\ HostsOK
  BY HostsFacts DEF IInv
<1>s. /\ UNCHANGED <<world, paths, status, operative, pc, pos, on, stored, unacked>>
      /\ faults' = faults + 1 /\ faults < MaxFaults /\ faults \in Nat
      /\ nodes' = [nodes EXCEPT ![h] = {}]
      /\ running' = {n \in running : route[n[1]][n[2]] # h}
  BY <1>t, FaultsAssumption DEF RestartNodeController, Fault, TypeOK
<1>w. \A q \in Paths : /\ route'[q] = route[q] /\ protocol'[q] = protocol[q]
                       /\ Length(q)' = Length(q)
  BY <1>s, WorldFacts
<1>e. HostsOK' /\ \A q \in Paths : \A j \in 1..Length(q) : At(q, j) => At(q, j)'
  BY <1>s, <1>t, RestartEffect
<1>1. TypeOK'
  <2>1. \A r \in Requests : on'[r] # None => pos'[r] <= (Length(on[r]) + 1)'
    BY <1>s, <1>w, <1>t DEF TypeOK
  <2>2. faults' \in 0..MaxFaults
    BY <1>s, FaultsAssumption
  <2> QED BY <2>1, <2>2, <1>e, <1>s, <1>t DEF TypeOK, HostsOK, world
<1>2. Requested' /\ Kept' /\ Marked' /\ Accounted'
  BY <1>s, <1>t, <1>w DEF Requested, Kept, Marked, Accounted
<1>3. Swept'
  BY <1>s, <1>t DEF Swept, world
<1>4. Forgotten'
  BY <1>s, <1>t DEF Forgotten, ClosedOrForgotten, Clean
<1>5. Placed' /\ RunningIsKnown'
  BY <1>e DEF HostsOK
<1>6. Fresh'
  BY <1>s, <1>t, <1>w DEF Fresh
<1>7. Built'
  BY <1>e, <1>s, <1>t, <1>w DEF Built, Wanted
<1>8. Undoable'
  BY <1>s, <1>t DEF Undoable, RollingBack
<1> QED BY <1>1, <1>2, <1>3, <1>4, <1>5, <1>6, <1>7, <1>8 DEF IInv

-----------------------------------------------------------------------------
(* The steps that reach no host *)

\* A path is asked for.
LEMMA CreatePathStep ==
    ASSUME IInv, NEW p \in Paths, CreatePath(p)
    PROVE  IInv'
<1>t. /\ TypeOK /\ Requested /\ Kept /\ Marked /\ Accounted /\ Swept
      /\ Forgotten /\ Placed /\ RunningIsKnown /\ Fresh /\ Built
      /\ Undoable /\ HostsOK
  BY HostsFacts DEF IInv
<1>s. /\ pc[p] = "idle"
      /\ UNCHANGED <<world, status, operative, on, hosts, faults, unacked>>
      /\ paths' = paths \cup {p}
      /\ pos' = [pos EXCEPT ![p] = 1]
      /\ pc' = [pc EXCEPT ![p] = "deploy"]
  BY <1>t DEF CreatePath, Step, TypeOK
<1>o. p \in Requests
  BY <1>s, <1>t, RequestsAssumption DEF Requested, Requests, TypeOK
<1>p. /\ \A x \in Requests : /\ pos'[x] = IF x = p THEN 1 ELSE pos[x]
                             /\ pc'[x] = IF x = p THEN "deploy" ELSE pc[x]
      /\ \A q \in Paths : on[q] = q
  BY <1>o, <1>s, <1>t DEF TypeOK, Requested
<1>w. \A q \in Paths : /\ route'[q] = route[q] /\ protocol'[q] = protocol[q]
                       /\ Length(q)' = Length(q) /\ Length(q) \in Nat \ {0}
                       /\ Apart(q)' = Apart(q)
  <2>1. UNCHANGED world
    BY <1>s
  <2>2. \A q \in Paths : Length(q) \in Nat \ {0}
    BY <1>t, RouteFacts
  <2> QED BY <2>1, <2>2, WorldFacts
<1>e. HostsOK' /\ (\A q \in Paths : Untouched(q)) /\ UNCHANGED stored
  <2>1. UNCHANGED hosts /\ UNCHANGED world
    BY <1>s
  <2> QED BY <2>1, <1>t, QuietEffect DEF hosts
<1>1. TypeOK'
  <2>1. pos' \in [Requests -> Nat \ {0}]
    BY <1>o, <1>s, <1>t DEF TypeOK
  <2>2. \A x \in Requests : on'[x] # None => pos'[x] <= (Length(on[x]) + 1)'
    <3> SUFFICES ASSUME NEW x \in Requests, on[x] # None
                 PROVE  pos'[x] <= (Length(on[x]) + 1)'
      BY <1>s
    <3>1. on[x] \in Paths
      BY <1>t DEF TypeOK
    <3>2. Length(on[x])' = Length(on[x]) /\ Length(on[x]) \in Nat \ {0}
      BY <1>s, <1>w, <3>1
    <3>3. pos[x] \in Nat \ {0} /\ pos[x] <= Length(on[x]) + 1
      BY <1>t DEF TypeOK
    <3> QED BY <3>2, <3>3, <1>o, <1>p, <1>s
  <2> QED BY <2>1, <2>2, <1>o, <1>e, <1>s, <1>t
     DEF TypeOK, HostsOK, PathStatus, world
<1>2. Requested'
  BY <1>o, <1>p, <1>s, <1>t, RequestsAssumption DEF Requested, Requests, TypeOK
<1>3. Kept'
  BY <1>o, <1>p, <1>s, <1>t, RequestsAssumption
     DEF Kept, Requested, RollingBack, Requests, TypeOK
<1>4. Marked'
  BY <1>o, <1>p, <1>s, <1>t, <1>w DEF Marked, Requests
<1>5. Accounted'
  BY <1>e, <1>w, <1>s, <1>t DEF Accounted, Marked
<1>6. Swept'
  <2> SUFFICES ASSUME NEW x \in Requests, pc'[x] = "remove",
                      NEW k \in operative[on'[x]], k < pos'[x]
               PROVE  on'[x] \notin stored[route[on'[x]][k]]
    BY <1>s, <1>e DEF Swept, world
  <2>1. x # p
    BY <1>o, <1>p
  <2> QED BY <2>1, <1>p, <1>s, <1>t DEF Swept
<1>7. Forgotten'
  <2> SUFFICES ASSUME NEW q \in Paths, ClosedOrForgotten(q)'
               PROVE  Clean(q)
    BY <1>s, <1>e DEF Forgotten, Clean
  <2>1. q # p /\ ClosedOrForgotten(q)
    BY <1>o, <1>p, <1>s, <1>t DEF ClosedOrForgotten, Requested, Requests
  <2> QED BY <2>1, <1>t DEF Forgotten
<1>8. Placed' /\ RunningIsKnown'
  BY <1>e DEF HostsOK
<1>9. Fresh'
  BY <1>o, <1>p, <1>e, <1>s, <1>w, <1>t DEF Fresh, Requests
<1>10. Built'
  <2> SUFFICES ASSUME NEW q \in Paths, NEW j \in 1..Length(q)
               PROVE  /\ pc'[q] = "deploy" /\ j < pos'[q] => At(q, j)
                      /\ pc'[q] = "ok" /\ Wanted(q) => At(q, j)
    BY <1>s, <1>w, <1>e DEF Built, Wanted, Untouched
  <2> QED BY <1>o, <1>p, <1>s, <1>t, RequestsAssumption DEF Built, Requests
<1>11. Undoable'
  <2> SUFFICES ASSUME NEW q \in Paths
               PROVE  /\ pc'[q] \in RollingBack \cup {"error"} => faults >= 1
                      /\ Apart(q) =>
                         /\ faults = 0 /\ pc'[q] = "deploy" =>
                               \A k \in operative[q] : Removable(q, k)
                         /\ faults = 1 /\ protocol[q] = "UDP" =>
                              /\ pc'[q] = "lookup" =>
                                    \A k \in operative[q] : Removable(q, k)
                              /\ pc'[q] = "remove" =>
                                    \A k \in operative[q] :
                                        k >= pos'[q] => Removable(q, k)
                              /\ pc'[q] = "error" => q \notin paths'
    <3>1. \A q \in Paths : \A k \in operative[q] : Removable(q, k)' = Removable(q, k)
      BY <1>e, <1>t DEF Marked, Untouched
    <3> QED BY <3>1, <1>s, <1>w DEF Undoable
  <2>0. operative[q] \subseteq 1..Length(q) /\ q \in Requests
    BY <1>t DEF Marked, Requests
  <2>1. CASE q = p
    BY <2>0, <2>1, <1>o, <1>p, <1>s, <1>t DEF Undoable, RollingBack, Marked
  <2>2. CASE q # p
    BY <2>0, <2>2, <1>p, <1>s, <1>t DEF Undoable
  <2> QED BY <2>1, <2>2
<1> QED BY <1>1, <1>2, <1>3, <1>4, <1>5, <1>6, <1>7, <1>8, <1>9, <1>10, <1>11
        DEF IInv

\* The last node of a path was configured.
LEMMA PathCreatedStep ==
    ASSUME IInv, NEW p \in Paths, PathCreated(p)
    PROVE  IInv'
<1>t. /\ TypeOK /\ Requested /\ Kept /\ Marked /\ Accounted /\ Swept
      /\ Forgotten /\ Placed /\ RunningIsKnown /\ Fresh /\ Built
      /\ Undoable /\ HostsOK
  BY HostsFacts DEF IInv
<1>s. /\ pc[p] = "deploy" /\ pos[p] > Length(p)
      /\ UNCHANGED <<world, paths, operative, on, hosts, faults, unacked>>
      /\ status' = [status EXCEPT ![p] = "Operative"]
      /\ pos' = [pos EXCEPT ![p] = 1]
      /\ pc' = [pc EXCEPT ![p] = "ok"]
  BY <1>t DEF PathCreated, Step, TypeOK
<1>o. p \in Requests
  BY <1>s, <1>t, RequestsAssumption DEF Requested, Requests, TypeOK
<1>p. /\ \A x \in Requests : /\ pos'[x] = IF x = p THEN 1 ELSE pos[x]
                             /\ pc'[x] = IF x = p THEN "ok" ELSE pc[x]
      /\ \A q \in Paths : on[q] = q
  BY <1>o, <1>s, <1>t DEF TypeOK, Requested
<1>w. \A q \in Paths : /\ route'[q] = route[q] /\ protocol'[q] = protocol[q]
                       /\ Length(q)' = Length(q) /\ Length(q) \in Nat \ {0}
                       /\ Apart(q)' = Apart(q)
  <2>1. UNCHANGED world
    BY <1>s
  <2>2. \A q \in Paths : Length(q) \in Nat \ {0}
    BY <1>t, RouteFacts
  <2> QED BY <2>1, <2>2, WorldFacts
<1>e. HostsOK' /\ (\A q \in Paths : Untouched(q)) /\ UNCHANGED stored
  <2>1. UNCHANGED hosts /\ UNCHANGED world
    BY <1>s
  <2> QED BY <2>1, <1>t, QuietEffect DEF hosts
<1>1. TypeOK'
  <2>1. pos' \in [Requests -> Nat \ {0}]
    BY <1>o, <1>s, <1>t DEF TypeOK
  <2>2. \A x \in Requests : on'[x] # None => pos'[x] <= (Length(on[x]) + 1)'
    <3> SUFFICES ASSUME NEW x \in Requests, on[x] # None
                 PROVE  pos'[x] <= (Length(on[x]) + 1)'
      BY <1>s
    <3>1. on[x] \in Paths
      BY <1>t DEF TypeOK
    <3>2. Length(on[x])' = Length(on[x]) /\ Length(on[x]) \in Nat \ {0}
      BY <1>s, <1>w, <3>1
    <3>3. pos[x] \in Nat \ {0} /\ pos[x] <= Length(on[x]) + 1
      BY <1>t DEF TypeOK
    <3> QED BY <3>2, <3>3, <1>o, <1>p, <1>s
  <2> QED BY <2>1, <2>2, <1>o, <1>e, <1>s, <1>t
     DEF TypeOK, HostsOK, PathStatus, world
<1>2. Requested'
  BY <1>o, <1>p, <1>s, <1>t, RequestsAssumption DEF Requested, Requests, TypeOK
<1>3. Kept'
  BY <1>o, <1>p, <1>s, <1>t, RequestsAssumption
     DEF Kept, Requested, RollingBack, Requests, TypeOK
<1>4. Marked'
  BY <1>o, <1>p, <1>s, <1>t, <1>w DEF Marked, Requests
<1>5. Accounted'
  BY <1>e, <1>w, <1>s, <1>t DEF Accounted, Marked
<1>6. Swept'
  <2> SUFFICES ASSUME NEW x \in Requests, pc'[x] = "remove",
                      NEW k \in operative[on'[x]], k < pos'[x]
               PROVE  on'[x] \notin stored[route[on'[x]][k]]
    BY <1>s, <1>e DEF Swept, world
  <2>1. x # p
    BY <1>o, <1>p
  <2> QED BY <2>1, <1>p, <1>s, <1>t DEF Swept
<1>7. Forgotten'
  <2> SUFFICES ASSUME NEW q \in Paths, ClosedOrForgotten(q)'
               PROVE  ClosedOrForgotten(q)
    BY <1>s, <1>e, <1>t DEF Forgotten, Clean
  <2> QED BY <1>o, <1>p, <1>s DEF ClosedOrForgotten, Requests
<1>8. Placed' /\ RunningIsKnown'
  BY <1>e DEF HostsOK
<1>9. Fresh'
  BY <1>p, <1>e, <1>s, <1>w, <1>t DEF Fresh, Requests
<1>10. Built'
  <2> SUFFICES ASSUME NEW q \in Paths, NEW j \in 1..Length(q)
               PROVE  /\ pc'[q] = "deploy" /\ j < pos'[q] => At(q, j)
                      /\ pc'[q] = "ok" /\ Wanted(q) => At(q, j)
    BY <1>s, <1>w, <1>e DEF Built, Wanted, Untouched
  <2>1. pos[p] > Length(p) => (q = p => j < pos[q])
    BY <1>w, <1>o, <1>t DEF TypeOK
  <2> QED BY <2>1, <1>o, <1>p, <1>s, <1>t DEF Built, Requests
<1>11. Undoable'
  <2> SUFFICES ASSUME NEW q \in Paths
               PROVE  /\ pc'[q] \in RollingBack \cup {"error"} => faults >= 1
                      /\ Apart(q) =>
                         /\ faults = 0 /\ pc'[q] = "deploy" =>
                               \A k \in operative[q] : Removable(q, k)
                         /\ faults = 1 /\ protocol[q] = "UDP" =>
                              /\ pc'[q] = "lookup" =>
                                    \A k \in operative[q] : Removable(q, k)
                              /\ pc'[q] = "remove" =>
                                    \A k \in operative[q] :
                                        k >= pos'[q] => Removable(q, k)
                              /\ pc'[q] = "error" => q \notin paths'
    <3>1. \A q \in Paths : \A k \in operative[q] : Removable(q, k)' = Removable(q, k)
      BY <1>e, <1>t DEF Marked, Untouched
    <3> QED BY <3>1, <1>s, <1>w DEF Undoable
  <2>0. operative[q] \subseteq 1..Length(q) /\ q \in Requests
    BY <1>t DEF Marked, Requests
  <2>1. CASE q = p
    BY <2>0, <2>1, <1>o, <1>p, <1>s, <1>t DEF Undoable, RollingBack, Marked
  <2>2. CASE q # p
    BY <2>0, <2>2, <1>p, <1>s, <1>t DEF Undoable
  <2> QED BY <2>1, <2>2
<1> QED BY <1>1, <1>2, <1>3, <1>4, <1>5, <1>6, <1>7, <1>8, <1>9, <1>10, <1>11
        DEF IInv

\* A client asks for a path to be deleted.
LEMMA RequestDeleteStep ==
    ASSUME IInv, NEW d \in Deleters, NEW p \in Paths, RequestDelete(d, p)
    PROVE  IInv'
<1>t. /\ TypeOK /\ Requested /\ Kept /\ Marked /\ Accounted /\ Swept
      /\ Forgotten /\ Placed /\ RunningIsKnown /\ Fresh /\ Built
      /\ Undoable /\ HostsOK
  BY HostsFacts DEF IInv
<1>s. /\ pc[d] = "idle" /\ pc[p] = "ok"
      /\ UNCHANGED <<world, paths, status, operative, hosts, faults, unacked>>
      /\ on' = [on EXCEPT ![d] = p]
      /\ pos' = [pos EXCEPT ![d] = 1]
      /\ pc' = [pc EXCEPT ![d] = "lookup"]
  BY <1>t DEF RequestDelete, Step, TypeOK
<1>o. d \in Requests
  BY <1>s, <1>t, RequestsAssumption DEF Requested, Requests, TypeOK
<1>p. /\ \A x \in Requests : /\ pos'[x] = IF x = d THEN 1 ELSE pos[x]
                             /\ pc'[x] = IF x = d THEN "lookup" ELSE pc[x]
      /\ \A q \in Paths : on[q] = q
  BY <1>o, <1>s, <1>t DEF TypeOK, Requested
<1>w. \A q \in Paths : /\ route'[q] = route[q] /\ protocol'[q] = protocol[q]
                       /\ Length(q)' = Length(q) /\ Length(q) \in Nat \ {0}
                       /\ Apart(q)' = Apart(q)
  <2>1. UNCHANGED world
    BY <1>s
  <2>2. \A q \in Paths : Length(q) \in Nat \ {0}
    BY <1>t, RouteFacts
  <2> QED BY <2>1, <2>2, WorldFacts
<1>e. HostsOK' /\ (\A q \in Paths : Untouched(q)) /\ UNCHANGED stored
  <2>1. UNCHANGED hosts /\ UNCHANGED world
    BY <1>s
  <2> QED BY <2>1, <1>t, QuietEffect DEF hosts
<1>1. TypeOK'
  <2>1. pos' \in [Requests -> Nat \ {0}]
    BY <1>o, <1>s, <1>t DEF TypeOK
  <2>2. \A x \in Requests : on'[x] # None => pos'[x] <= (Length(on[x]) + 1)'
    <3> SUFFICES ASSUME NEW x \in Requests, on'[x] # None
                 PROVE  pos'[x] <= (Length(on[x]) + 1)'
      OBVIOUS
    <3>1. on'[x] \in Paths /\ on'[x] = IF x = d THEN p ELSE on[x]
      BY <1>o, <1>s, <1>t DEF TypeOK
    <3>2. Length(on[x])' = Length(on'[x]) /\ Length(on'[x]) \in Nat \ {0}
      BY <3>1, <1>w DEF Length
    <3> QED BY <3>1, <3>2, <1>o, <1>p, <1>t DEF TypeOK
  <2> QED BY <2>1, <2>2, <1>o, <1>e, <1>s, <1>t
     DEF TypeOK, HostsOK, PathStatus, world
<1>2. Requested'
  <2>1. \A x \in Requests : on'[x] = IF x = d THEN p ELSE on[x]
    BY <1>o, <1>s, <1>t DEF TypeOK
  <2> QED BY <2>1, <1>o, <1>p, <1>s, <1>t, RequestsAssumption
     DEF Requested, Requests, TypeOK
<1>3. Kept'
  BY <1>o, <1>p, <1>s, <1>t, RequestsAssumption
     DEF Kept, Requested, RollingBack, Requests, TypeOK
<1>4. Marked'
  BY <1>o, <1>p, <1>s, <1>t, <1>w DEF Marked, Requests
<1>5. Accounted'
  BY <1>e, <1>w, <1>s, <1>t DEF Accounted, Marked
<1>6. Swept'
  <2> SUFFICES ASSUME NEW x \in Requests, pc'[x] = "remove",
                      NEW k \in operative[on'[x]], k < pos'[x]
               PROVE  on'[x] \notin stored[route[on'[x]][k]]
    BY <1>s, <1>e DEF Swept, world
  <2>1. x # d /\ on'[x] = on[x]
    BY <1>o, <1>p, <1>s, <1>t DEF TypeOK
  <2> QED BY <2>1, <1>p, <1>t DEF Swept
<1>7. Forgotten'
  <2> SUFFICES ASSUME NEW q \in Paths, ClosedOrForgotten(q)'
               PROVE  ClosedOrForgotten(q)
    BY <1>s, <1>e, <1>t DEF Forgotten, Clean
  <2>1. \A x \in Requests \ {d} : on'[x] = on[x]
    BY <1>o, <1>s, <1>t DEF TypeOK
  <2> QED BY <2>1, <1>o, <1>p, <1>s, RequestsAssumption
     DEF ClosedOrForgotten, Requests
<1>8. Placed' /\ RunningIsKnown'
  BY <1>e DEF HostsOK
<1>9. Fresh'
  BY <1>p, <1>e, <1>s, <1>w, <1>t DEF Fresh, Requests
<1>10. Built'
  <2> SUFFICES ASSUME NEW q \in Paths
               PROVE  /\ pc'[q] = "deploy" => \A j \in 1..Length(q) : j < pos'[q] => At(q, j)'
                      /\ pc'[q] = "ok" /\ Wanted(q)' => \A j \in 1..Length(q) : At(q, j)'
    BY <1>s, <1>w DEF Built
  <2>1. q # d /\ q \in Requests
    BY RequestsAssumption DEF Requests
  <2>2. Wanted(q)' => Wanted(q)
    <3>1. on' = [on EXCEPT ![d] = p] /\ pc[d] = "idle"
      BY <1>s
    <3>2. SUFFICES ASSUME Wanted(q)', NEW x \in Deleters PROVE on[x] # q
      BY DEF Wanted
    <3>3. on'[x] # q
      BY <3>2 DEF Wanted
    <3>4. CASE x # d
      BY <3>1, <3>3, <3>4, <1>t DEF TypeOK, Requests
    <3>5. CASE x = d
      BY <3>1, <3>5, <1>t, RequestsAssumption DEF Requested
    <3> QED BY <3>4, <3>5
  <2> QED BY <2>1, <2>2, <1>p, <1>e, <1>t DEF Built, Untouched
<1>11. Undoable'
  <2> SUFFICES ASSUME NEW q \in Paths
               PROVE  /\ pc'[q] \in RollingBack \cup {"error"} => faults >= 1
                      /\ Apart(q) =>
                         /\ faults = 0 /\ pc'[q] = "deploy" =>
                               \A k \in operative[q] : Removable(q, k)
                         /\ faults = 1 /\ protocol[q] = "UDP" =>
                              /\ pc'[q] = "lookup" =>
                                    \A k \in operative[q] : Removable(q, k)
                              /\ pc'[q] = "remove" =>
                                    \A k \in operative[q] :
                                        k >= pos'[q] => Removable(q, k)
                              /\ pc'[q] = "error" => q \notin paths'
    <3>1. \A q \in Paths : \A k \in operative[q] : Removable(q, k)' = Removable(q, k)
      BY <1>e, <1>t DEF Marked, Untouched
    <3> QED BY <3>1, <1>s, <1>w DEF Undoable
  <2>0. operative[q] \subseteq 1..Length(q) /\ q \in Requests
    BY <1>t DEF Marked, Requests
  <2>1. q # d
    BY RequestsAssumption
  <2> QED BY <2>0, <2>1, <1>p, <1>s, <1>t DEF Undoable
<1> QED BY <1>1, <1>2, <1>3, <1>4, <1>5, <1>6, <1>7, <1>8, <1>9, <1>10, <1>11
        DEF IInv

\* It asks again.
LEMMA RetryStep ==
    ASSUME IInv, NEW d \in Deleters, Retry(d)
    PROVE  IInv'
<1>t. /\ TypeOK /\ Requested /\ Kept /\ Marked /\ Accounted /\ Swept
      /\ Forgotten /\ Placed /\ RunningIsKnown /\ Fresh /\ Built
      /\ Undoable /\ HostsOK
  BY HostsFacts DEF IInv
<1>s. /\ pc[d] = "error"
      /\ UNCHANGED <<world, paths, status, operative, on, hosts, faults, unacked>>
      /\ pos' = [pos EXCEPT ![d] = 1]
      /\ pc' = [pc EXCEPT ![d] = "lookup"]
  BY <1>t DEF Retry, Step, TypeOK
<1>o. d \in Requests
  BY <1>s, <1>t, RequestsAssumption DEF Requested, Requests, TypeOK
<1>p. /\ \A x \in Requests : /\ pos'[x] = IF x = d THEN 1 ELSE pos[x]
                             /\ pc'[x] = IF x = d THEN "lookup" ELSE pc[x]
      /\ \A q \in Paths : on[q] = q
  BY <1>o, <1>s, <1>t DEF TypeOK, Requested
<1>w. \A q \in Paths : /\ route'[q] = route[q] /\ protocol'[q] = protocol[q]
                       /\ Length(q)' = Length(q) /\ Length(q) \in Nat \ {0}
                       /\ Apart(q)' = Apart(q)
  <2>1. UNCHANGED world
    BY <1>s
  <2>2. \A q \in Paths : Length(q) \in Nat \ {0}
    BY <1>t, RouteFacts
  <2> QED BY <2>1, <2>2, WorldFacts
<1>e. HostsOK' /\ (\A q \in Paths : Untouched(q)) /\ UNCHANGED stored
  <2>1. UNCHANGED hosts /\ UNCHANGED world
    BY <1>s
  <2> QED BY <2>1, <1>t, QuietEffect DEF hosts
<1>1. TypeOK'
  <2>1. pos' \in [Requests -> Nat \ {0}]
    BY <1>o, <1>s, <1>t DEF TypeOK
  <2>2. \A x \in Requests : on'[x] # None => pos'[x] <= (Length(on[x]) + 1)'
    <3> SUFFICES ASSUME NEW x \in Requests, on[x] # None
                 PROVE  pos'[x] <= (Length(on[x]) + 1)'
      BY <1>s
    <3>1. on[x] \in Paths
      BY <1>t DEF TypeOK
    <3>2. Length(on[x])' = Length(on[x]) /\ Length(on[x]) \in Nat \ {0}
      BY <1>s, <1>w, <3>1
    <3>3. pos[x] \in Nat \ {0} /\ pos[x] <= Length(on[x]) + 1
      BY <1>t DEF TypeOK
    <3> QED BY <3>2, <3>3, <1>o, <1>p, <1>s
  <2> QED BY <2>1, <2>2, <1>o, <1>e, <1>s, <1>t
     DEF TypeOK, HostsOK, PathStatus, world
<1>2. Requested'
  BY <1>o, <1>p, <1>s, <1>t, RequestsAssumption DEF Requested, Requests, TypeOK
<1>3. Kept'
  BY <1>o, <1>p, <1>s, <1>t, RequestsAssumption
     DEF Kept, Requested, RollingBack, Requests, TypeOK
<1>4. Marked'
  BY <1>o, <1>p, <1>s, <1>t, <1>w DEF Marked, Requests
<1>5. Accounted'
  BY <1>e, <1>w, <1>s, <1>t DEF Accounted, Marked
<1>6. Swept'
  <2> SUFFICES ASSUME NEW x \in Requests, pc'[x] = "remove",
                      NEW k \in operative[on'[x]], k < pos'[x]
               PROVE  on'[x] \notin stored[route[on'[x]][k]]
    BY <1>s, <1>e DEF Swept, world
  <2>1. x # d
    BY <1>o, <1>p
  <2> QED BY <2>1, <1>p, <1>s, <1>t DEF Swept
<1>7. Forgotten'
  <2> SUFFICES ASSUME NEW q \in Paths, ClosedOrForgotten(q)'
               PROVE  ClosedOrForgotten(q)
    BY <1>s, <1>e, <1>t DEF Forgotten, Clean
  <2> QED BY <1>o, <1>p, <1>s DEF ClosedOrForgotten, Requests
<1>8. Placed' /\ RunningIsKnown'
  BY <1>e DEF HostsOK
<1>9. Fresh'
  BY <1>p, <1>e, <1>s, <1>w, <1>t DEF Fresh, Requests
<1>10. Built'
  <2> SUFFICES ASSUME NEW q \in Paths, NEW j \in 1..Length(q)
               PROVE  /\ pc'[q] = "deploy" /\ j < pos'[q] => At(q, j)
                      /\ pc'[q] = "ok" /\ Wanted(q) => At(q, j)
    BY <1>s, <1>w, <1>e DEF Built, Wanted, Untouched
  <2> QED BY <1>o, <1>p, <1>s, <1>t, RequestsAssumption DEF Built, Requests
<1>11. Undoable'
  <2> SUFFICES ASSUME NEW q \in Paths
               PROVE  /\ pc'[q] \in RollingBack \cup {"error"} => faults >= 1
                      /\ Apart(q) =>
                         /\ faults = 0 /\ pc'[q] = "deploy" =>
                               \A k \in operative[q] : Removable(q, k)
                         /\ faults = 1 /\ protocol[q] = "UDP" =>
                              /\ pc'[q] = "lookup" =>
                                    \A k \in operative[q] : Removable(q, k)
                              /\ pc'[q] = "remove" =>
                                    \A k \in operative[q] :
                                        k >= pos'[q] => Removable(q, k)
                              /\ pc'[q] = "error" => q \notin paths'
    <3>1. \A q \in Paths : \A k \in operative[q] : Removable(q, k)' = Removable(q, k)
      BY <1>e, <1>t DEF Marked, Untouched
    <3> QED BY <3>1, <1>s, <1>w DEF Undoable
  <2>0. operative[q] \subseteq 1..Length(q) /\ q \in Requests
    BY <1>t DEF Marked, Requests
  <2>1. q # d
    BY RequestsAssumption
  <2> QED BY <2>0, <2>1, <1>p, <1>s, <1>t DEF Undoable
<1> QED BY <1>1, <1>2, <1>3, <1>4, <1>5, <1>6, <1>7, <1>8, <1>9, <1>10, <1>11
        DEF IInv

\* destroy_path looks the path up.
LEMMA FindPathStep ==
    ASSUME IInv, NEW r \in Requests, FindPath(r)
    PROVE  IInv'
<1>t. /\ TypeOK /\ Requested /\ Kept /\ Marked /\ Accounted /\ Swept
      /\ Forgotten /\ Placed /\ RunningIsKnown /\ Fresh /\ Built
      /\ Undoable /\ HostsOK
  BY HostsFacts DEF IInv
<1>s. /\ pc[r] = "lookup"
      /\ UNCHANGED <<world, paths, status, operative, on, hosts, faults, unacked>>
      /\ pos' = [pos EXCEPT ![r] = 1]
      /\ pc' = [pc EXCEPT ![r] = IF on[r] \in paths THEN "remove" ELSE "error"]
  BY <1>t DEF FindPath, Step, TypeOK
<1>o. r \in Requests /\ on[r] \in Paths
  BY <1>s, <1>t, RequestsAssumption DEF Requested, Requests, TypeOK
<1>p. /\ \A x \in Requests : /\ pos'[x] = IF x = r THEN 1 ELSE pos[x]
                             /\ pc'[x] = IF x = r
                                         THEN IF on[r] \in paths THEN "remove" ELSE "error"
                                         ELSE pc[x]
      /\ \A q \in Paths : on[q] = q
  BY <1>o, <1>s, <1>t DEF TypeOK, Requested
<1>w. \A q \in Paths : /\ route'[q] = route[q] /\ protocol'[q] = protocol[q]
                       /\ Length(q)' = Length(q) /\ Length(q) \in Nat \ {0}
                       /\ Apart(q)' = Apart(q)
  <2>1. UNCHANGED world
    BY <1>s
  <2>2. \A q \in Paths : Length(q) \in Nat \ {0}
    BY <1>t, RouteFacts
  <2> QED BY <2>1, <2>2, WorldFacts
<1>e. HostsOK' /\ (\A q \in Paths : Untouched(q)) /\ UNCHANGED stored
  <2>1. UNCHANGED hosts /\ UNCHANGED world
    BY <1>s
  <2> QED BY <2>1, <1>t, QuietEffect DEF hosts
<1>1. TypeOK'
  <2>1. pos' \in [Requests -> Nat \ {0}]
    BY <1>o, <1>s, <1>t DEF TypeOK
  <2>2. \A x \in Requests : on'[x] # None => pos'[x] <= (Length(on[x]) + 1)'
    <3> SUFFICES ASSUME NEW x \in Requests, on[x] # None
                 PROVE  pos'[x] <= (Length(on[x]) + 1)'
      BY <1>s
    <3>1. on[x] \in Paths
      BY <1>t DEF TypeOK
    <3>2. Length(on[x])' = Length(on[x]) /\ Length(on[x]) \in Nat \ {0}
      BY <1>s, <1>w, <3>1
    <3>3. pos[x] \in Nat \ {0} /\ pos[x] <= Length(on[x]) + 1
      BY <1>t DEF TypeOK
    <3> QED BY <3>2, <3>3, <1>o, <1>p, <1>s
  <2> QED BY <2>1, <2>2, <1>o, <1>e, <1>s, <1>t
     DEF TypeOK, HostsOK, PathStatus, world
<1>2. Requested'
  BY <1>o, <1>p, <1>s, <1>t, RequestsAssumption DEF Requested, Requests, TypeOK
<1>3. Kept'
  BY <1>o, <1>p, <1>s, <1>t, RequestsAssumption
     DEF Kept, Requested, RollingBack, Requests, TypeOK
<1>4. Marked'
  BY <1>o, <1>p, <1>s, <1>t, <1>w DEF Marked, Requests
<1>5. Accounted'
  BY <1>e, <1>w, <1>s, <1>t DEF Accounted, Marked
<1>6. Swept'
  <2> SUFFICES ASSUME NEW x \in Requests, pc'[x] = "remove",
                      NEW k \in operative[on'[x]], k < pos'[x]
               PROVE  on'[x] \notin stored[route[on'[x]][k]]
    BY <1>s, <1>e DEF Swept, world
  <2>1. CASE x = r
    <3>1. operative[on[x]] \subseteq 1..Length(on[x])
      BY <2>1, <1>o, <1>t DEF Marked
    <3> QED BY <2>1, <3>1, <1>o, <1>p, <1>s, <1>w
  <2>2. CASE x # r
    BY <2>2, <1>p, <1>s, <1>t DEF Swept
  <2> QED BY <2>1, <2>2
<1>7. Forgotten'
  <2> SUFFICES ASSUME NEW q \in Paths, ClosedOrForgotten(q)'
               PROVE  ClosedOrForgotten(q)
    BY <1>s, <1>e, <1>t DEF Forgotten, Clean
  <2> QED BY <1>o, <1>p, <1>s DEF ClosedOrForgotten, Requests
<1>8. Placed' /\ RunningIsKnown'
  BY <1>e DEF HostsOK
<1>9. Fresh'
  BY <1>p, <1>e, <1>s, <1>w, <1>t DEF Fresh, Requests
<1>10. Built'
  <2> SUFFICES ASSUME NEW q \in Paths, NEW j \in 1..Length(q)
               PROVE  /\ pc'[q] = "deploy" /\ j < pos'[q] => At(q, j)
                      /\ pc'[q] = "ok" /\ Wanted(q) => At(q, j)
    BY <1>s, <1>w, <1>e DEF Built, Wanted, Untouched
  <2> QED BY <1>o, <1>p, <1>s, <1>t, RequestsAssumption DEF Built, Requests
<1>11. Undoable'
  <2> SUFFICES ASSUME NEW q \in Paths
               PROVE  /\ pc'[q] \in RollingBack \cup {"error"} => faults >= 1
                      /\ Apart(q) =>
                         /\ faults = 0 /\ pc'[q] = "deploy" =>
                               \A k \in operative[q] : Removable(q, k)
                         /\ faults = 1 /\ protocol[q] = "UDP" =>
                              /\ pc'[q] = "lookup" =>
                                    \A k \in operative[q] : Removable(q, k)
                              /\ pc'[q] = "remove" =>
                                    \A k \in operative[q] :
                                        k >= pos'[q] => Removable(q, k)
                              /\ pc'[q] = "error" => q \notin paths'
    <3>1. \A q \in Paths : \A k \in operative[q] : Removable(q, k)' = Removable(q, k)
      BY <1>e, <1>t DEF Marked, Untouched
    <3> QED BY <3>1, <1>s, <1>w DEF Undoable
  <2>0. operative[q] \subseteq 1..Length(q) /\ q \in Requests
    BY <1>t DEF Marked, Requests
  <2>1. CASE q = r
    BY <2>0, <2>1, <1>o, <1>p, <1>s, <1>t DEF Undoable, RollingBack, Marked, Kept
  <2>2. CASE q # r
    BY <2>0, <2>2, <1>p, <1>s, <1>t DEF Undoable
  <2> QED BY <2>1, <2>2
<1> QED BY <1>1, <1>2, <1>3, <1>4, <1>5, <1>6, <1>7, <1>8, <1>9, <1>10, <1>11
        DEF IInv

\* destroy_path passes over a node.
LEMMA SkipNodeStep ==
    ASSUME IInv, NEW r \in Requests, SkipNode(r)
    PROVE  IInv'
<1>t. /\ TypeOK /\ Requested /\ Kept /\ Marked /\ Accounted /\ Swept
      /\ Forgotten /\ Placed /\ RunningIsKnown /\ Fresh /\ Built
      /\ Undoable /\ HostsOK
  BY HostsFacts DEF IInv
<1>s. /\ pc[r] = "remove" /\ pos[r] <= Length(on[r]) /\ pos[r] \notin operative[on[r]]
      /\ UNCHANGED <<world, paths, status, operative, on, hosts, faults, unacked>>
      /\ pos' = [pos EXCEPT ![r] = pos[r] + 1]
      /\ pc' = [pc EXCEPT ![r] = "remove"]
  BY <1>t DEF SkipNode, Step, TypeOK, Deployed
<1>o. r \in Requests /\ on[r] \in Paths
  BY <1>s, <1>t, RequestsAssumption DEF Requested, Requests, TypeOK
<1>p. /\ \A x \in Requests : /\ pos'[x] = IF x = r THEN pos[r] + 1 ELSE pos[x]
                             /\ pc'[x] = IF x = r THEN "remove" ELSE pc[x]
      /\ \A q \in Paths : on[q] = q
  BY <1>o, <1>s, <1>t DEF TypeOK, Requested
<1>w. \A q \in Paths : /\ route'[q] = route[q] /\ protocol'[q] = protocol[q]
                       /\ Length(q)' = Length(q) /\ Length(q) \in Nat \ {0}
                       /\ Apart(q)' = Apart(q)
  <2>1. UNCHANGED world
    BY <1>s
  <2>2. \A q \in Paths : Length(q) \in Nat \ {0}
    BY <1>t, RouteFacts
  <2> QED BY <2>1, <2>2, WorldFacts
<1>e. HostsOK' /\ (\A q \in Paths : Untouched(q)) /\ UNCHANGED stored
  <2>1. UNCHANGED hosts /\ UNCHANGED world
    BY <1>s
  <2> QED BY <2>1, <1>t, QuietEffect DEF hosts
<1>1. TypeOK'
  <2>1. pos' \in [Requests -> Nat \ {0}]
    BY <1>o, <1>s, <1>t DEF TypeOK
  <2>2. \A x \in Requests : on'[x] # None => pos'[x] <= (Length(on[x]) + 1)'
    <3> SUFFICES ASSUME NEW x \in Requests, on[x] # None
                 PROVE  pos'[x] <= (Length(on[x]) + 1)'
      BY <1>s
    <3>1. on[x] \in Paths
      BY <1>t DEF TypeOK
    <3>2. Length(on[x])' = Length(on[x]) /\ Length(on[x]) \in Nat \ {0}
      BY <1>s, <1>w, <3>1
    <3>3. pos[x] \in Nat \ {0} /\ pos[x] <= Length(on[x]) + 1
      BY <1>t DEF TypeOK
    <3> QED BY <3>2, <3>3, <1>o, <1>p, <1>s
  <2> QED BY <2>1, <2>2, <1>o, <1>e, <1>s, <1>t
     DEF TypeOK, HostsOK, PathStatus, world
<1>2. Requested'
  BY <1>o, <1>p, <1>s, <1>t, RequestsAssumption DEF Requested, Requests, TypeOK
<1>3. Kept'
  BY <1>o, <1>p, <1>s, <1>t, RequestsAssumption
     DEF Kept, Requested, RollingBack, Requests, TypeOK
<1>4. Marked'
  BY <1>o, <1>p, <1>s, <1>t, <1>w DEF Marked, Requests
<1>5. Accounted'
  BY <1>e, <1>w, <1>s, <1>t DEF Accounted, Marked
<1>6. Swept'
  <2> SUFFICES ASSUME NEW x \in Requests, pc'[x] = "remove",
                      NEW k \in operative[on'[x]], k < pos'[x]
               PROVE  on'[x] \notin stored[route[on'[x]][k]]
    BY <1>s, <1>e DEF Swept, world
  <2>1. on[x] \in Paths /\ pos[x] \in Nat
    BY <1>p, <1>s, <1>t DEF Requested, Requests, TypeOK
  <2>2. k \in 1..Length(on[x])
    BY <2>1, <1>s, <1>t DEF Marked
  <2>3. k < pos[x] /\ pc[x] = "remove"
    BY <2>1, <2>2, <1>p, <1>s
  <2> QED BY <2>3, <1>s, <1>t DEF Swept
<1>7. Forgotten'
  <2> SUFFICES ASSUME NEW q \in Paths, ClosedOrForgotten(q)'
               PROVE  ClosedOrForgotten(q)
    BY <1>s, <1>e, <1>t DEF Forgotten, Clean
  <2> QED BY <1>o, <1>p, <1>s DEF ClosedOrForgotten, Requests
<1>8. Placed' /\ RunningIsKnown'
  BY <1>e DEF HostsOK
<1>9. Fresh'
  BY <1>p, <1>e, <1>s, <1>w, <1>t DEF Fresh, Requests
<1>10. Built'
  <2> SUFFICES ASSUME NEW q \in Paths, NEW j \in 1..Length(q)
               PROVE  /\ pc'[q] = "deploy" /\ j < pos'[q] => At(q, j)
                      /\ pc'[q] = "ok" /\ Wanted(q) => At(q, j)
    BY <1>s, <1>w, <1>e DEF Built, Wanted, Untouched
  <2> QED BY <1>o, <1>p, <1>s, <1>t, RequestsAssumption DEF Built, Requests
<1>11. Undoable'
  <2> SUFFICES ASSUME NEW q \in Paths
               PROVE  /\ pc'[q] \in RollingBack \cup {"error"} => faults >= 1
                      /\ Apart(q) =>
                         /\ faults = 0 /\ pc'[q] = "deploy" =>
                               \A k \in operative[q] : Removable(q, k)
                         /\ faults = 1 /\ protocol[q] = "UDP" =>
                              /\ pc'[q] = "lookup" =>
                                    \A k \in operative[q] : Removable(q, k)
                              /\ pc'[q] = "remove" =>
                                    \A k \in operative[q] :
                                        k >= pos'[q] => Removable(q, k)
                              /\ pc'[q] = "error" => q \notin paths'
    <3>1. \A q \in Paths : \A k \in operative[q] : Removable(q, k)' = Removable(q, k)
      BY <1>e, <1>t DEF Marked, Untouched
    <3> QED BY <3>1, <1>s, <1>w DEF Undoable
  <2>0. operative[q] \subseteq 1..Length(q) /\ q \in Requests
    BY <1>t DEF Marked, Requests
  <2>1. CASE q = r
    <3>1. pos[r] \in Nat /\ operative[q] \subseteq Nat
      BY <2>0, <1>o, <1>t DEF TypeOK
    <3>2. \A k \in operative[q] : k >= pos[r] + 1 => k >= pos[r]
      BY <3>1
    <3> QED BY <2>0, <2>1, <3>1, <3>2, <1>p, <1>s, <1>t DEF Undoable, RollingBack
  <2>2. CASE q # r
    BY <2>0, <2>2, <1>p, <1>s, <1>t DEF Undoable
  <2> QED BY <2>1, <2>2
<1> QED BY <1>1, <1>2, <1>3, <1>4, <1>5, <1>6, <1>7, <1>8, <1>9, <1>10, <1>11
        DEF IInv

\* destroy_path has passed the last node.
LEMMA CloseFilesStep ==
    ASSUME IInv, NEW r \in Requests, CloseFiles(r)
    PROVE  IInv'
<1>t. /\ TypeOK /\ Requested /\ Kept /\ Marked /\ Accounted /\ Swept
      /\ Forgotten /\ Placed /\ RunningIsKnown /\ Fresh /\ Built
      /\ Undoable /\ HostsOK
  BY HostsFacts DEF IInv
<1>s. /\ pc[r] = "remove" /\ pos[r] > Length(on[r])
      /\ UNCHANGED <<world, paths, status, operative, on, hosts, faults, unacked>>
      /\ pos' = [pos EXCEPT ![r] = 1]
      /\ pc' = [pc EXCEPT ![r] = IF on[r] \in paths THEN "pop" ELSE "error"]
  BY <1>t DEF CloseFiles, Step, TypeOK
<1>o. r \in Requests /\ on[r] \in Paths
  BY <1>s, <1>t, RequestsAssumption DEF Requested, Requests, TypeOK
<1>p. /\ \A x \in Requests : /\ pos'[x] = IF x = r THEN 1 ELSE pos[x]
                             /\ pc'[x] = IF x = r
                                         THEN IF on[r] \in paths THEN "pop" ELSE "error"
                                         ELSE pc[x]
      /\ \A q \in Paths : on[q] = q
  BY <1>o, <1>s, <1>t DEF TypeOK, Requested
<1>w. \A q \in Paths : /\ route'[q] = route[q] /\ protocol'[q] = protocol[q]
                       /\ Length(q)' = Length(q) /\ Length(q) \in Nat \ {0}
                       /\ Apart(q)' = Apart(q)
  <2>1. UNCHANGED world
    BY <1>s
  <2>2. \A q \in Paths : Length(q) \in Nat \ {0}
    BY <1>t, RouteFacts
  <2> QED BY <2>1, <2>2, WorldFacts
<1>e. HostsOK' /\ (\A q \in Paths : Untouched(q)) /\ UNCHANGED stored
  <2>1. UNCHANGED hosts /\ UNCHANGED world
    BY <1>s
  <2> QED BY <2>1, <1>t, QuietEffect DEF hosts
<1>1. TypeOK'
  <2>1. pos' \in [Requests -> Nat \ {0}]
    BY <1>o, <1>s, <1>t DEF TypeOK
  <2>2. \A x \in Requests : on'[x] # None => pos'[x] <= (Length(on[x]) + 1)'
    <3> SUFFICES ASSUME NEW x \in Requests, on[x] # None
                 PROVE  pos'[x] <= (Length(on[x]) + 1)'
      BY <1>s
    <3>1. on[x] \in Paths
      BY <1>t DEF TypeOK
    <3>2. Length(on[x])' = Length(on[x]) /\ Length(on[x]) \in Nat \ {0}
      BY <1>s, <1>w, <3>1
    <3>3. pos[x] \in Nat \ {0} /\ pos[x] <= Length(on[x]) + 1
      BY <1>t DEF TypeOK
    <3> QED BY <3>2, <3>3, <1>o, <1>p, <1>s
  <2> QED BY <2>1, <2>2, <1>o, <1>e, <1>s, <1>t
     DEF TypeOK, HostsOK, PathStatus, world
<1>2. Requested'
  BY <1>o, <1>p, <1>s, <1>t, RequestsAssumption DEF Requested, Requests, TypeOK
<1>3. Kept'
  BY <1>o, <1>p, <1>s, <1>t, RequestsAssumption
     DEF Kept, Requested, RollingBack, Requests, TypeOK
<1>4. Marked'
  BY <1>o, <1>p, <1>s, <1>t, <1>w DEF Marked, Requests
<1>5. Accounted'
  BY <1>e, <1>w, <1>s, <1>t DEF Accounted, Marked
<1>6. Swept'
  <2> SUFFICES ASSUME NEW x \in Requests, pc'[x] = "remove",
                      NEW k \in operative[on'[x]], k < pos'[x]
               PROVE  on'[x] \notin stored[route[on'[x]][k]]
    BY <1>s, <1>e DEF Swept, world
  <2>1. x # r
    BY <1>o, <1>p
  <2> QED BY <2>1, <1>p, <1>s, <1>t DEF Swept
<1>7. Forgotten'
  <2> SUFFICES ASSUME NEW q \in Paths, ClosedOrForgotten(q)'
               PROVE  Clean(q)
    BY <1>s, <1>e DEF Forgotten, Clean
  <2>1. CASE ClosedOrForgotten(q)
    BY <2>1, <1>t DEF Forgotten
  <2>2. CASE ~ClosedOrForgotten(q)
    <3>1. q = on[r]
      BY <2>2, <1>o, <1>p, <1>s DEF ClosedOrForgotten, Requests
    <3>2. SUFFICES ASSUME NEW h \in Hosts, q \in stored[h], <<q, h>> \notin unacked
                   PROVE  FALSE
      BY DEF Clean
    <3>3. PICK i \in operative[q] : route[q][i] = h
      BY <3>2, <1>t DEF Accounted
    <3>4. i \in 1..Length(q) /\ pos[r] \in Nat
      BY <1>o, <1>t DEF Marked, TypeOK
    <3>5. i < pos[r]
      BY <3>1, <3>4, <1>s, <1>w
    <3> QED BY <3>1, <3>2, <3>3, <3>5, <1>o, <1>s, <1>t DEF Swept
  <2> QED BY <2>1, <2>2
<1>8. Placed' /\ RunningIsKnown'
  BY <1>e DEF HostsOK
<1>9. Fresh'
  BY <1>p, <1>e, <1>s, <1>w, <1>t DEF Fresh, Requests
<1>10. Built'
  <2> SUFFICES ASSUME NEW q \in Paths, NEW j \in 1..Length(q)
               PROVE  /\ pc'[q] = "deploy" /\ j < pos'[q] => At(q, j)
                      /\ pc'[q] = "ok" /\ Wanted(q) => At(q, j)
    BY <1>s, <1>w, <1>e DEF Built, Wanted, Untouched
  <2> QED BY <1>o, <1>p, <1>s, <1>t, RequestsAssumption DEF Built, Requests
<1>11. Undoable'
  <2> SUFFICES ASSUME NEW q \in Paths
               PROVE  /\ pc'[q] \in RollingBack \cup {"error"} => faults >= 1
                      /\ Apart(q) =>
                         /\ faults = 0 /\ pc'[q] = "deploy" =>
                               \A k \in operative[q] : Removable(q, k)
                         /\ faults = 1 /\ protocol[q] = "UDP" =>
                              /\ pc'[q] = "lookup" =>
                                    \A k \in operative[q] : Removable(q, k)
                              /\ pc'[q] = "remove" =>
                                    \A k \in operative[q] :
                                        k >= pos'[q] => Removable(q, k)
                              /\ pc'[q] = "error" => q \notin paths'
    <3>1. \A q \in Paths : \A k \in operative[q] : Removable(q, k)' = Removable(q, k)
      BY <1>e, <1>t DEF Marked, Untouched
    <3> QED BY <3>1, <1>s, <1>w DEF Undoable
  <2>0. operative[q] \subseteq 1..Length(q) /\ q \in Requests
    BY <1>t DEF Marked, Requests
  <2>1. CASE q = r
    BY <2>0, <2>1, <1>o, <1>p, <1>s, <1>t DEF Undoable, RollingBack, Marked, Kept
  <2>2. CASE q # r
    BY <2>0, <2>2, <1>p, <1>s, <1>t DEF Undoable
  <2> QED BY <2>1, <2>2
<1> QED BY <1>1, <1>2, <1>3, <1>4, <1>5, <1>6, <1>7, <1>8, <1>9, <1>10, <1>11
        DEF IInv

\* destroy_path forgets the path.
LEMMA PopPathStep ==
    ASSUME IInv, NEW r \in Requests, PopPath(r)
    PROVE  IInv'
<1>t. /\ TypeOK /\ Requested /\ Kept /\ Marked /\ Accounted /\ Swept
      /\ Forgotten /\ Placed /\ RunningIsKnown /\ Fresh /\ Built
      /\ Undoable /\ HostsOK
  BY HostsFacts DEF IInv
<1>s. /\ pc[r] = "pop"
      /\ UNCHANGED <<world, status, operative, on, hosts, faults, unacked>>
      /\ paths' = paths \ {on[r]}
      /\ pos' = [pos EXCEPT ![r] = 1]
      /\ pc' = [pc EXCEPT ![r] = IF r \in Deleters /\ on[r] \in paths THEN "ok" ELSE "error"]
  BY <1>t DEF PopPath, Step, TypeOK
<1>o. r \in Requests /\ on[r] \in Paths
  BY <1>s, <1>t, RequestsAssumption DEF Requested, Requests, TypeOK
<1>p. /\ \A x \in Requests : /\ pos'[x] = IF x = r THEN 1 ELSE pos[x]
                             /\ pc'[x] = IF x = r
                                         THEN IF r \in Deleters /\ on[r] \in paths THEN "ok" ELSE "error"
                                         ELSE pc[x]
      /\ \A q \in Paths : on[q] = q
  BY <1>o, <1>s, <1>t DEF TypeOK, Requested
<1>w. \A q \in Paths : /\ route'[q] = route[q] /\ protocol'[q] = protocol[q]
                       /\ Length(q)' = Length(q) /\ Length(q) \in Nat \ {0}
                       /\ Apart(q)' = Apart(q)
  <2>1. UNCHANGED world
    BY <1>s
  <2>2. \A q \in Paths : Length(q) \in Nat \ {0}
    BY <1>t, RouteFacts
  <2> QED BY <2>1, <2>2, WorldFacts
<1>e. HostsOK' /\ (\A q \in Paths : Untouched(q)) /\ UNCHANGED stored
  <2>1. UNCHANGED hosts /\ UNCHANGED world
    BY <1>s
  <2> QED BY <2>1, <1>t, QuietEffect DEF hosts
<1>1. TypeOK'
  <2>1. pos' \in [Requests -> Nat \ {0}]
    BY <1>o, <1>s, <1>t DEF TypeOK
  <2>2. \A x \in Requests : on'[x] # None => pos'[x] <= (Length(on[x]) + 1)'
    <3> SUFFICES ASSUME NEW x \in Requests, on[x] # None
                 PROVE  pos'[x] <= (Length(on[x]) + 1)'
      BY <1>s
    <3>1. on[x] \in Paths
      BY <1>t DEF TypeOK
    <3>2. Length(on[x])' = Length(on[x]) /\ Length(on[x]) \in Nat \ {0}
      BY <1>s, <1>w, <3>1
    <3>3. pos[x] \in Nat \ {0} /\ pos[x] <= Length(on[x]) + 1
      BY <1>t DEF TypeOK
    <3> QED BY <3>2, <3>3, <1>o, <1>p, <1>s
  <2> QED BY <2>1, <2>2, <1>o, <1>e, <1>s, <1>t
     DEF TypeOK, HostsOK, PathStatus, world
<1>2. Requested'
  BY <1>o, <1>p, <1>s, <1>t, RequestsAssumption DEF Requested, Requests, TypeOK
<1>3. Kept'
  BY <1>o, <1>p, <1>s, <1>t, RequestsAssumption
     DEF Kept, Requested, RollingBack, Requests, TypeOK
<1>4. Marked'
  BY <1>o, <1>p, <1>s, <1>t, <1>w DEF Marked, Requests
<1>5. Accounted'
  BY <1>e, <1>w, <1>s, <1>t DEF Accounted, Marked
<1>6. Swept'
  <2> SUFFICES ASSUME NEW x \in Requests, pc'[x] = "remove",
                      NEW k \in operative[on'[x]], k < pos'[x]
               PROVE  on'[x] \notin stored[route[on'[x]][k]]
    BY <1>s, <1>e DEF Swept, world
  <2>1. x # r
    BY <1>o, <1>p
  <2> QED BY <2>1, <1>p, <1>s, <1>t DEF Swept
<1>7. Forgotten'
  <2> SUFFICES ASSUME NEW q \in Paths, ClosedOrForgotten(q)'
               PROVE  ClosedOrForgotten(q)
    BY <1>s, <1>e, <1>t DEF Forgotten, Clean
  <2>1. pc[q] = "idle" => q \notin paths /\ q # r /\ pc'[q] = "idle"
    BY <1>o, <1>p, <1>s, <1>t DEF Kept, Requests
  <2> QED BY <2>1, <1>o, <1>p, <1>s DEF ClosedOrForgotten, Requests
<1>8. Placed' /\ RunningIsKnown'
  BY <1>e DEF HostsOK
<1>9. Fresh'
  BY <1>p, <1>e, <1>s, <1>w, <1>t DEF Fresh, Requests
<1>10. Built'
  <2> SUFFICES ASSUME NEW q \in Paths, NEW j \in 1..Length(q)
               PROVE  /\ pc'[q] = "deploy" /\ j < pos'[q] => At(q, j)
                      /\ pc'[q] = "ok" /\ Wanted(q) => At(q, j)
    BY <1>s, <1>w, <1>e DEF Built, Wanted, Untouched
  <2>1. q = r => r \notin Deleters
    BY RequestsAssumption
  <2> QED BY <2>1, <1>o, <1>p, <1>s, <1>t DEF Built, Requests
<1>11. Undoable'
  <2> SUFFICES ASSUME NEW q \in Paths
               PROVE  /\ pc'[q] \in RollingBack \cup {"error"} => faults >= 1
                      /\ Apart(q) =>
                         /\ faults = 0 /\ pc'[q] = "deploy" =>
                               \A k \in operative[q] : Removable(q, k)
                         /\ faults = 1 /\ protocol[q] = "UDP" =>
                              /\ pc'[q] = "lookup" =>
                                    \A k \in operative[q] : Removable(q, k)
                              /\ pc'[q] = "remove" =>
                                    \A k \in operative[q] :
                                        k >= pos'[q] => Removable(q, k)
                              /\ pc'[q] = "error" => q \notin paths'
    <3>1. \A q \in Paths : \A k \in operative[q] : Removable(q, k)' = Removable(q, k)
      BY <1>e, <1>t DEF Marked, Untouched
    <3> QED BY <3>1, <1>s, <1>w DEF Undoable
  <2>0. operative[q] \subseteq 1..Length(q) /\ q \in Requests
    BY <1>t DEF Marked, Requests
  <2>1. CASE q = r
    BY <2>0, <2>1, <1>o, <1>p, <1>s, <1>t DEF Undoable, RollingBack, Marked
  <2>2. CASE q # r
    BY <2>0, <2>2, <1>p, <1>s, <1>t DEF Undoable
  <2> QED BY <2>1, <2>2
<1> QED BY <1>1, <1>2, <1>3, <1>4, <1>5, <1>6, <1>7, <1>8, <1>9, <1>10, <1>11
        DEF IInv

-----------------------------------------------------------------------------
(* Nodes that share a host *)

\* A host has finitely many nodes of a path.
LEMMA NodesAtIsFinite ==
    ASSUME TypeOK, NEW p \in Paths, NEW h
    PROVE  IsFiniteSet(NodesAt(p, h)) /\ Cardinality(NodesAt(p, h)) \in Nat
<1> DEFINE here == {k \in 1..Length(p) : route[p][k] = h}
           node == [k \in here |-> <<p, k>>]
<1>1. IsFiniteSet(1..Length(p))
  <2>1. Length(p) \in Nat
    BY RouteFacts
  <2> QED BY <2>1, FS_Interval
<1>2. IsFiniteSet(here)
  BY <1>1, FS_Subset
<1>3. node \in Surjection(here, NodesAt(p, h))
  BY DEF Surjection, NodesAt
<1>4. IsFiniteSet(NodesAt(p, h))
  BY <1>2, <1>3, FS_Surjection
<1> QED BY <1>4, FS_CardinalityType

\* Two positions on one host are two nodes of it.
LEMMA SharedHost ==
    ASSUME TypeOK, NEW p \in Paths, NEW i \in 1..Length(p), NEW j \in 1..Length(p),
           i # j, route[p][i] = route[p][j]
    PROVE  Cardinality(NodesAt(p, route[p][i])) > 1
<1>5. IsFiniteSet(NodesAt(p, route[p][i]))
  BY NodesAtIsFinite
<1>6. {<<p, i>>, <<p, j>>} \subseteq NodesAt(p, route[p][i])
  BY DEF NodesAt
<1>7. Cardinality({<<p, i>>, <<p, j>>}) = 2
  <2>1. <<p, i>> # <<p, j>>
    OBVIOUS
  <2>2. IsFiniteSet({<<p, i>>}) /\ Cardinality({<<p, i>>}) = 1
    BY FS_Singleton
  <2>3. {<<p, i>>, <<p, j>>} = {<<p, i>>} \cup {<<p, j>>}
    OBVIOUS
  <2>4. Cardinality({<<p, i>>} \cup {<<p, j>>}) = Cardinality({<<p, i>>}) + 1
    BY <2>1, <2>2, FS_AddElement
  <2> QED BY <2>2, <2>3, <2>4
<1>8. /\ Cardinality({<<p, i>>, <<p, j>>}) <= Cardinality(NodesAt(p, route[p][i]))
      /\ Cardinality(NodesAt(p, route[p][i])) \in Nat
  BY <1>5, <1>6, FS_Subset, FS_CardinalityType
<1> QED BY <1>7, <1>8

\* A path over different hosts has one position on each.
LEMMA DifferentHostsAreApart ==
    ASSUME TypeOK, NEW p \in Paths, DifferentHosts(p)
    PROVE  Apart(p)
<1> SUFFICES ASSUME NEW i \in 1..Length(p), NEW j \in 1..Length(p),
                    route[p][i] = route[p][j], i # j
             PROVE  FALSE
  BY DEF Apart
<1>1. Cardinality(NodesAt(p, route[p][i])) > 1
  BY SharedHost
<1>2. route[p][i] \in Hosts
  BY RouteFacts
<1>3. Cardinality(NodesAt(p, route[p][i])) <= 1
  BY <1>2 DEF DifferentHosts
<1>4. Cardinality(NodesAt(p, route[p][i])) \in Nat
  BY NodesAtIsFinite
<1> QED BY <1>1, <1>3, <1>4

-----------------------------------------------------------------------------
(* The invariant holds *)

\* The invariant holds when the controller starts ...
LEMMA StartHolds == ASSUME Init PROVE IInv
<1> USE DEF Init
<1>1. TypeOK
  <2>1. faults \in 0..MaxFaults
    BY FaultsAssumption
  <2>2. \A p \in Paths : Length(p) \in Nat \ {0}
    BY RoutesAssumption DEF Length
  <2>3. on \in [Requests -> Paths \cup {None}]
    BY DEF Requests
  <2>4. \A r \in Requests : on[r] # None => pos[r] <= Length(on[r]) + 1
    <3> SUFFICES ASSUME NEW r \in Requests, on[r] # None
                 PROVE  pos[r] <= Length(on[r]) + 1
      OBVIOUS
    <3>1. on[r] \in Paths /\ pos[r] = 1
      BY <2>3
    <3> QED BY <2>2, <3>1
  <2> QED BY <2>1, <2>3, <2>4 DEF TypeOK, PathStatus
<1>2. Requested
  BY RequestsAssumption DEF Requested, Requests
<1>3. Kept /\ Marked
  BY DEF Kept, Marked, RollingBack, Requests
<1>4. Accounted /\ Swept /\ Forgotten
  BY DEF Accounted, Swept, Forgotten, ClosedOrForgotten, Clean, Requests
<1>5. Placed /\ RunningIsKnown
  BY DEF Placed, RunningIsKnown
<1>6. Fresh /\ Built
  BY DEF Fresh, Built, Requests
<1>7. Undoable
  BY DEF Undoable, RollingBack, Requests
<1> QED BY <1>1, <1>2, <1>3, <1>4, <1>5, <1>6, <1>7 DEF IInv

\* ... and is kept by every step.
LEMMA StepHolds == ASSUME IInv, [Next]_vars PROVE IInv'
<1>1. CASE UNCHANGED vars
  <2>1. UNCHANGED <<route, protocol, paths, status, operative, pc, pos, on,
                    stored, nodes, running, faults, unacked>>
    BY <1>1 DEF vars, world, hosts
  <2>2. (TypeOK /\ Requested /\ Kept /\ Marked)'
    BY <2>1 DEF IInv, TypeOK, Requested, Kept, Marked, Length
  <2>3. (Accounted /\ Swept /\ Forgotten /\ Placed /\ RunningIsKnown)'
    BY <2>1 DEF IInv, Accounted, Swept, Forgotten, ClosedOrForgotten, Clean,
                Placed, RunningIsKnown, Length
  <2>4. (Fresh /\ Built)'
    BY <2>1 DEF IInv, Fresh, Built, At, Shared, Wanted, Length
  <2>5. Undoable'
    BY <2>1 DEF IInv, Undoable, Apart, Removable, Length
  <2> QED BY <2>2, <2>3, <2>4, <2>5 DEF IInv
<1>2. ASSUME NEW p \in Paths, CreatePath(p) PROVE IInv'
  BY <1>2, CreatePathStep
<1>3. ASSUME NEW d \in Deleters, NEW p \in Paths, RequestDelete(d, p) PROVE IInv'
  BY <1>3, RequestDeleteStep
<1>4. ASSUME NEW d \in Deleters, Retry(d) PROVE IInv'
  BY <1>4, RetryStep
<1>5. ASSUME NEW r \in Requests, Serve(r) PROVE IInv'
  <2>1. CASE r \in Paths /\ DeployNode(r)
    BY <2>1, DeployNodeStep
  <2>2. CASE r \in Paths /\ DeployFails(r)
    BY <2>2, DeployFailsStep
  <2>3. CASE r \in Paths /\ PathCreated(r)
    BY <2>3, PathCreatedStep
  <2>4. CASE FindPath(r)
    BY <2>4, FindPathStep
  <2>5. CASE SkipNode(r)
    BY <2>5, SkipNodeStep
  <2>6. CASE RemoveNode(r)
    BY <2>6, RemoveNodeStep
  <2>7. CASE RemoveFails(r)
    BY <2>7, RemoveFailsStep
  <2>8. CASE CloseFiles(r)
    BY <2>8, CloseFilesStep
  <2>9. CASE PopPath(r)
    BY <2>9, PopPathStep
  <2> QED BY <1>5, <2>1, <2>2, <2>3, <2>4, <2>5, <2>6, <2>7, <2>8, <2>9 DEF Serve
<1>6. ASSUME NEW h \in Hosts, RestartNodeController(h) PROVE IInv'
  BY <1>6, RestartNodeControllerStep
<1> QED BY <1>1, <1>2, <1>3, <1>4, <1>5, <1>6 DEF Next

\* Every part of the invariant holds in every state of create_path and
\* destroy_path.
THEOREM InvariantHolds == Spec => []IInv
<1> QED BY StartHolds, StepHolds, PTL DEF Spec

-----------------------------------------------------------------------------
(* What it says of the controller *)

\* The variables of the model stay in their types.
THEOREM TypesHold == Spec => []TypeOK
<1>1. IInv => TypeOK
  BY DEF IInv
<1> QED BY <1>1, InvariantHolds, PTL

\* When OPoTController.destroy_path closes the files of a path and pops it, no
\* host runs a node of it or holds its profile, whatever failed before.
THEOREM ForgottenIsClean == Spec => []ForgottenMeansClean
<1>1. ASSUME IInv PROVE ForgottenMeansClean
  <2> SUFFICES ASSUME NEW p \in Paths, ClosedOrForgotten(p), NEW i \in 1..Length(p),
                      <<p, route[p][i]>> \notin unacked
               PROVE  <<p, i>> \notin running /\ p \notin stored[route[p][i]]
    BY DEF ForgottenMeansClean
  <2>1. route[p][i] \in Hosts
    BY <1>1, RouteFacts DEF IInv
  <2>2. p \notin stored[route[p][i]]
    BY <1>1, <2>1 DEF IInv, Forgotten, Clean
  <2> QED BY <1>1, <2>2 DEF IInv, RunningIsKnown
<1> QED BY <1>1, InvariantHolds, PTL

\* A path that create_path made OPERATIVE is on every host of its route until a
\* DELETE request asks for it.
THEOREM OperativeIsDeployed == Spec => []OperativeMeansDeployed
<1>1. ASSUME IInv PROVE OperativeMeansDeployed
  <2> SUFFICES ASSUME NEW p \in Paths, status[p] = "Operative", Wanted(p),
                      NEW i \in 1..Length(p)
               PROVE  /\ p \in stored[route[p][i]]
                      /\ \/ <<p, i>> \in running
                         \/ p \notin nodes[route[p][i]]
                         \/ Cardinality(NodesAt(p, route[p][i])) > 1
    BY DEF OperativeMeansDeployed, Wanted
  <2>1. At(p, i)
    BY <1>1 DEF IInv, Kept, Built
  <2>2. Shared(p, i) => Cardinality(NodesAt(p, route[p][i])) > 1
    BY <1>1, SharedHost DEF IInv, Shared
  <2> QED BY <2>1, <2>2 DEF At
<1> QED BY <1>1, InvariantHolds, PTL

\* The rollback of create_path undoes all of a UDP path over different hosts
\* when one thing went wrong.
THEOREM FailedCreateIsUndone == Spec => []FailedCreateIsForgotten
<1>1. ASSUME IInv PROVE FailedCreateIsForgotten
  BY <1>1, DifferentHostsAreApart DEF IInv, FailedCreateIsForgotten, Undoable
<1> QED BY <1>1, InvariantHolds, PTL

\* Whatever NodeController runs has a profile in the datastore and an entry in
\* NodeController.nodes, by which it can be stopped.
THEOREM WhatRunsIsKnown == Spec => []RunningIsKnown
<1>1. IInv => RunningIsKnown
  BY DEF IInv
<1> QED BY <1>1, InvariantHolds, PTL
=============================================================================
