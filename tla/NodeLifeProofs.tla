--------------------------- MODULE NodeLifeProofs ---------------------------
(***************************************************************************)
(* Proofs about NodeLife, for any number of nodes, any protocols they use  *)
(* and socket buffers of any size.                                         *)
(***************************************************************************)
EXTENDS NodeLife, TLAPS

-----------------------------------------------------------------------------
(* The invariant *)

TypeOK ==
    /\ protocol \in [Paths -> {"UDP", "TCP"}]
    /\ ingress \in [Paths -> BOOLEAN]
    /\ stored \in SUBSET Paths /\ nodes \in SUBSET Paths
    /\ sample_generators \in SUBSET Paths /\ unstarted \in SUBSET Paths
    /\ erred \in SUBSET Paths
    /\ call \in [Paths -> {"none", "sample", "register", "start", "terminate",
                           "wake", "shut", "abortSample", "kept", "refused",
                           "removed"}]
    /\ running \in [Paths -> BOOLEAN]
    /\ socket \in [Paths -> {"none", "open", "closed"}]
    /\ thread \in [Paths -> {"none", "test", "call", "blocked", "finished", "died"}]
    /\ gen \in [Paths -> {"none", "test", "send", "sleep", "sleepOnce",
                          "finished", "died"}]
    /\ close \in [Paths -> BOOLEAN]

\* destroy_node works on a node in these steps.
Leaving == {"terminate", "wake", "shut"}

\* While create_node builds a node, its socket is bound and nothing stopped it.
Building(p) ==
    call[p] \in {"sample", "register", "start"} =>
        running[p] /\ socket[p] = "open" /\ p \notin stored

\* A node whose profile is kept can be found and reached; only terminate stops
\* it, and leaves a TCP node there, and only an error kills its loop.
Serves(p) ==
    /\ call[p] = "kept" => p \in stored
    /\ call[p] \in {"none", "sample", "register", "start"} => thread[p] = "none"
    /\ p \in erred => thread[p] = "died"
    /\ p \in stored =>
          /\ call[p] \in Leaving \cup {"kept"}
          /\ p \in nodes /\ socket[p] = "open"
          /\ running[p] => (Serving(p) <=> p \notin erred)
          /\ ~running[p] => protocol[p] = "TCP" \/ call[p] \in {"wake", "shut"}

\* The dictionary holds a node without a profile while it is started, or when
\* that failed.
Listed(p) ==
    /\ call[p] = "start" => p \in nodes
    /\ p \in nodes => p \in stored \cup unstarted \/ call[p] = "start"

\* A generator nobody told to stop is known, and so is its node once registered;
\* destroy_node tells it first.
Stoppable(p) ==
    Sampling(p) /\ ~close[p] =>
        /\ p \in sample_generators
        /\ call[p] \in {"register", "start", "abortSample", "kept", "refused"}
                       \cup Leaving
        /\ call[p] # "register" => p \in nodes
        /\ call[p] = "refused" => protocol[p] = "TCP"
        /\ ~(p \in stored /\ call[p] \in Leaving)

NodeInv(p) == Building(p) /\ Serves(p) /\ Listed(p) /\ Stoppable(p)

IInv == TypeOK /\ \A p \in Paths : NodeInv(p)

-----------------------------------------------------------------------------
(* Steps *)

\* Nothing happens to node q.
Same(q) ==
    /\ protocol'[q] = protocol[q] /\ call'[q] = call[q]
    /\ running'[q] = running[q] /\ socket'[q] = socket[q]
    /\ thread'[q] = thread[q] /\ gen'[q] = gen[q] /\ close'[q] = close[q]
    /\ q \in stored' <=> q \in stored
    /\ q \in nodes' <=> q \in nodes
    /\ q \in sample_generators' <=> q \in sample_generators
    /\ q \in unstarted' <=> q \in unstarted
    /\ q \in erred' <=> q \in erred

\* What is said of a node stays true as long as nothing happens to it.
LEMMA SameStays ==
    ASSUME NEW q \in Paths, NodeInv(q), Same(q)
    PROVE  NodeInv(q)'
<1>1. Serving(q)' = Serving(q) /\ Sampling(q)' = Sampling(q)
  BY DEF Same, Serving, Sampling
<1>2. Building(q)' /\ Serves(q)' /\ Listed(q)'
  BY <1>1 DEF Same, NodeInv, Building, Serves, Listed
<1>3. Stoppable(q)'
  BY <1>1 DEF Same, NodeInv, Stoppable
<1> QED BY <1>2, <1>3 DEF NodeInv

\* A step of node p keeps the invariant if it keeps that of p.
LEMMA OneNode ==
    ASSUME IInv, NEW p \in Paths, TypeOK', NodeInv(p)',
           \A q \in Paths \ {p} : Same(q)
    PROVE  IInv'
BY SameStays DEF IInv

\* create_node constructs a node.
LEMMA BuildNodeStep ==
    ASSUME IInv, NEW p \in Paths, BuildNode(p)
    PROVE  IInv'
<1> USE DEF BuildNode, Step, PrepareSocket, world, books, node, loop
<1>t. TypeOK /\ NodeInv(p)
  BY DEF IInv
<1>1. TypeOK'
  BY <1>t DEF TypeOK
<1>2. \A q \in Paths \ {p} : Same(q)
  BY <1>t DEF TypeOK, Same
<1>3. Building(p)'
  BY <1>t DEF NodeInv, Building, Serves, Leaving, TypeOK
<1>4. Serves(p)'
  BY <1>t DEF NodeInv, Building, Serves, Serving, Leaving, Listed, TypeOK
<1>5. Listed(p)'
  BY <1>t DEF NodeInv, Serves, Listed, Leaving, TypeOK
<1>6. Stoppable(p)'
  BY <1>t DEF NodeInv, Serves, Listed, Stoppable, Sampling, Leaving, TypeOK
<1> QED BY <1>1, <1>2, <1>3, <1>4, <1>5, <1>6, OneNode DEF NodeInv

\* create_node starts the generator of an ingress node.
LEMMA StartSampleGenStep ==
    ASSUME IInv, NEW p \in Paths, StartSampleGen(p)
    PROVE  IInv'
<1> USE DEF StartSampleGen, Step, world, books, node, loop
<1>t. TypeOK /\ NodeInv(p)
  BY DEF IInv
<1>1. TypeOK'
  BY <1>t DEF TypeOK
<1>2. \A q \in Paths \ {p} : Same(q)
  BY <1>t DEF TypeOK, Same
<1>3. Building(p)'
  BY <1>t DEF NodeInv, Building, Serves, Leaving, TypeOK
<1>4. Serves(p)'
  BY <1>t DEF NodeInv, Building, Serves, Serving, Leaving, Listed, TypeOK
<1>5. Listed(p)'
  BY <1>t DEF NodeInv, Serves, Listed, Leaving, TypeOK
<1>6. Stoppable(p)'
  BY <1>t DEF NodeInv, Serves, Listed, Stoppable, Sampling, Leaving, TypeOK
<1> QED BY <1>1, <1>2, <1>3, <1>4, <1>5, <1>6, OneNode DEF NodeInv

\* create_node enters the node in the dictionary.
LEMMA RegisterNodeStep ==
    ASSUME IInv, NEW p \in Paths, RegisterNode(p)
    PROVE  IInv'
<1> USE DEF RegisterNode, Step, world, books, node, loop
<1>t. TypeOK /\ NodeInv(p)
  BY DEF IInv
<1>1. TypeOK'
  BY <1>t DEF TypeOK
<1>2. \A q \in Paths \ {p} : Same(q)
  BY <1>t DEF TypeOK, Same
<1>3. Building(p)'
  BY <1>t DEF NodeInv, Building, Serves, Leaving, TypeOK
<1>4. Serves(p)'
  BY <1>t DEF NodeInv, Building, Serves, Serving, Leaving, Listed, TypeOK
<1>5. Listed(p)'
  BY <1>t DEF NodeInv, Serves, Listed, Leaving, TypeOK
<1>6. Stoppable(p)'
  BY <1>t DEF NodeInv, Serves, Listed, Stoppable, Sampling, Leaving, TypeOK
<1> QED BY <1>1, <1>2, <1>3, <1>4, <1>5, <1>6, OneNode DEF NodeInv

\* create_node starts its thread.
LEMMA StartNodeStep ==
    ASSUME IInv, NEW p \in Paths, StartNode(p)
    PROVE  IInv'
<1> USE DEF StartNode, Step, world, books, node, loop
<1>t. TypeOK /\ NodeInv(p)
  BY DEF IInv
<1>1. TypeOK'
  BY <1>t DEF TypeOK
<1>2. \A q \in Paths \ {p} : Same(q)
  BY <1>t DEF TypeOK, Same
<1>3. Building(p)'
  BY <1>t DEF NodeInv, Building, Serves, Leaving, TypeOK
<1>4. Serves(p)'
  BY <1>t DEF NodeInv, Building, Serves, Serving, Leaving, Listed, TypeOK
<1>5. Listed(p)'
  BY <1>t DEF NodeInv, Serves, Listed, Leaving, TypeOK
<1>6. Stoppable(p)'
  BY <1>t DEF NodeInv, Serves, Listed, Stoppable, Sampling, Leaving, TypeOK
<1> QED BY <1>1, <1>2, <1>3, <1>4, <1>5, <1>6, OneNode DEF NodeInv

\* terminate tells the node to stop.
LEMMA TerminateStep ==
    ASSUME IInv, NEW p \in Paths, Terminate(p)
    PROVE  IInv'
<1> USE DEF Terminate, Step, world, books, node, loop
<1>t. TypeOK /\ NodeInv(p)
  BY DEF IInv
<1>1. TypeOK'
  BY <1>t DEF TypeOK
<1>2. \A q \in Paths \ {p} : Same(q)
  BY <1>t DEF TypeOK, Same
<1>3. Building(p)'
  BY <1>t DEF NodeInv, Building, Serves, Leaving, TypeOK
<1>4. Serves(p)'
  BY <1>t DEF NodeInv, Building, Serves, Serving, Leaving, Listed, TypeOK
<1>5. Listed(p)'
  BY <1>t DEF NodeInv, Serves, Listed, Leaving, TypeOK
<1>6. Stoppable(p)'
  BY <1>t DEF NodeInv, Serves, Listed, Stoppable, Sampling, Leaving, TypeOK
<1> QED BY <1>1, <1>2, <1>3, <1>4, <1>5, <1>6, OneNode DEF NodeInv

\* terminate wakes the loop of the node.
LEMMA WakeStep ==
    ASSUME IInv, NEW p \in Paths, Wake(p)
    PROVE  IInv'
<1> USE DEF Wake, Step, world, books, node, loop
<1>t. TypeOK /\ NodeInv(p)
  BY DEF IInv
<1>1. TypeOK'
  BY <1>t DEF TypeOK
<1>2. \A q \in Paths \ {p} : Same(q)
  BY <1>t DEF TypeOK, Same
<1>3. Building(p)'
  BY <1>t DEF NodeInv, Building, Serves, Leaving, TypeOK
<1>4. Serves(p)'
  BY <1>t DEF NodeInv, Building, Serves, Serving, Leaving, Listed, TypeOK
<1>5. Listed(p)'
  BY <1>t DEF NodeInv, Serves, Listed, Leaving, TypeOK
<1>6. Stoppable(p)'
  BY <1>t DEF NodeInv, Serves, Listed, Stoppable, Sampling, Leaving, TypeOK
<1> QED BY <1>1, <1>2, <1>3, <1>4, <1>5, <1>6, OneNode DEF NodeInv

\* terminate closes the socket.
LEMMA ShutStep ==
    ASSUME IInv, NEW p \in Paths, Shut(p)
    PROVE  IInv'
<1> USE DEF Shut, Step, world, books, node, loop
<1>t. TypeOK /\ NodeInv(p)
  BY DEF IInv
<1>1. TypeOK'
  BY <1>t DEF TypeOK
<1>2. \A q \in Paths \ {p} : Same(q)
  BY <1>t DEF TypeOK, Same
<1>3. Building(p)'
  BY <1>t DEF NodeInv, Building, Serves, Leaving, TypeOK
<1>4. Serves(p)'
  BY <1>t DEF NodeInv, Building, Serves, Serving, Leaving, Listed, TypeOK
<1>5. Listed(p)'
  BY <1>t DEF NodeInv, Serves, Listed, Leaving, TypeOK
<1>6. Stoppable(p)'
  BY <1>t DEF NodeInv, Serves, Listed, Stoppable, Sampling, Leaving, TypeOK
<1> QED BY <1>1, <1>2, <1>3, <1>4, <1>5, <1>6, OneNode DEF NodeInv

\* create_node stops the generator.
LEMMA AbortSampleGenStep ==
    ASSUME IInv, NEW p \in Paths, AbortSampleGen(p)
    PROVE  IInv'
<1> USE DEF AbortSampleGen, Step, StopSampleGen, world, books, node, loop
<1>t. TypeOK /\ NodeInv(p)
  BY DEF IInv
<1>1. TypeOK'
  BY <1>t DEF TypeOK
<1>2. \A q \in Paths \ {p} : Same(q)
  BY <1>t DEF TypeOK, Same
<1>3. Building(p)'
  BY <1>t DEF NodeInv, Building, Serves, Leaving, TypeOK
<1>4. Serves(p)'
  BY <1>t DEF NodeInv, Building, Serves, Serving, Leaving, Listed, TypeOK
<1>5. Listed(p)'
  BY <1>t DEF NodeInv, Serves, Listed, Leaving, TypeOK
<1>6. Stoppable(p)'
  BY <1>t DEF NodeInv, Serves, Listed, Stoppable, Sampling, Leaving, TypeOK
<1> QED BY <1>1, <1>2, <1>3, <1>4, <1>5, <1>6, OneNode DEF NodeInv

\* destroy_node stops the generator.
LEMMA DestroySampleGenStep ==
    ASSUME IInv, NEW p \in Paths, DestroySampleGen(p)
    PROVE  IInv'
<1> USE DEF DestroySampleGen, Step, StopSampleGen, world, books, node, loop
<1>t. TypeOK /\ NodeInv(p)
  BY DEF IInv
<1>1. TypeOK'
  BY <1>t DEF TypeOK
<1>2. \A q \in Paths \ {p} : Same(q)
  BY <1>t DEF TypeOK, Same
<1>3. Building(p)'
  BY <1>t DEF NodeInv, Building, Serves, Leaving, TypeOK
<1>4. Serves(p)'
  BY <1>t DEF NodeInv, Building, Serves, Serving, Leaving, Listed, TypeOK
<1>5. Listed(p)'
  BY <1>t DEF NodeInv, Serves, Listed, Leaving, TypeOK
<1>6. Stoppable(p)'
  BY <1>t DEF NodeInv, Serves, Listed, Stoppable, Sampling, Leaving, TypeOK
<1> QED BY <1>1, <1>2, <1>3, <1>4, <1>5, <1>6, OneNode DEF NodeInv

\* The loop tests _running.
LEMMA TestRunningStep ==
    ASSUME IInv, NEW p \in Paths, TestRunning(p)
    PROVE  IInv'
<1> USE DEF TestRunning, Go, world, books, node, loop
<1>t. TypeOK /\ NodeInv(p)
  BY DEF IInv
<1>1. TypeOK'
  BY <1>t DEF TypeOK
<1>2. \A q \in Paths \ {p} : Same(q)
  BY <1>t DEF TypeOK, Same
<1>3. Building(p)'
  BY <1>t DEF NodeInv, Building, Serves, Leaving, TypeOK
<1>4. Serves(p)'
  BY <1>t DEF NodeInv, Building, Serves, Serving, Leaving, Listed, TypeOK
<1>5. Listed(p)'
  BY <1>t DEF NodeInv, Serves, Listed, Leaving, TypeOK
<1>6. Stoppable(p)'
  BY <1>t DEF NodeInv, Serves, Listed, Stoppable, Sampling, Leaving, TypeOK
<1> QED BY <1>1, <1>2, <1>3, <1>4, <1>5, <1>6, OneNode DEF NodeInv

\* The loop is about to receive.
LEMMA CallReceiveStep ==
    ASSUME IInv, NEW p \in Paths, CallReceive(p)
    PROVE  IInv'
<1> USE DEF CallReceive, Go, world, books, node, loop
<1>t. TypeOK /\ NodeInv(p)
  BY DEF IInv
<1>1. TypeOK'
  BY <1>t DEF TypeOK
<1>2. \A q \in Paths \ {p} : Same(q)
  BY <1>t DEF TypeOK, Same
<1>3. Building(p)'
  BY <1>t DEF NodeInv, Building, Serves, Leaving, TypeOK
<1>4. Serves(p)'
  BY <1>t DEF NodeInv, Building, Serves, Serving, Leaving, Listed, TypeOK
<1>5. Listed(p)'
  BY <1>t DEF NodeInv, Serves, Listed, Leaving, TypeOK
<1>6. Stoppable(p)'
  BY <1>t DEF NodeInv, Serves, Listed, Stoppable, Sampling, Leaving, TypeOK
<1> QED BY <1>1, <1>2, <1>3, <1>4, <1>5, <1>6, OneNode DEF NodeInv

\* The loop receives.
LEMMA ReceiveDataStep ==
    ASSUME IInv, NEW p \in Paths, ReceiveData(p)
    PROVE  IInv'
<1> USE DEF ReceiveData, Go, world, books, node, loop
<1>t. TypeOK /\ NodeInv(p)
  BY DEF IInv
<1>1. TypeOK'
  BY <1>t DEF TypeOK
<1>2. \A q \in Paths \ {p} : Same(q)
  BY <1>t DEF TypeOK, Same
<1>3. Building(p)'
  BY <1>t DEF NodeInv, Building, Serves, Leaving, TypeOK
<1>4. Serves(p)'
  BY <1>t DEF NodeInv, Building, Serves, Serving, Leaving, Listed, TypeOK
<1>5. Listed(p)'
  BY <1>t DEF NodeInv, Serves, Listed, Leaving, TypeOK
<1>6. Stoppable(p)'
  BY <1>t DEF NodeInv, Serves, Listed, Stoppable, Sampling, Leaving, TypeOK
<1> QED BY <1>1, <1>2, <1>3, <1>4, <1>5, <1>6, OneNode DEF NodeInv

\* The loop cannot start a packet thread.
LEMMA PacketThreadFailsStep ==
    ASSUME IInv, NEW p \in Paths, PacketThreadFails(p)
    PROVE  IInv'
<1> USE DEF PacketThreadFails, Go, world, books, node, loop
<1>t. TypeOK /\ NodeInv(p)
  BY DEF IInv
<1>1. TypeOK'
  BY <1>t DEF TypeOK
<1>2. \A q \in Paths \ {p} : Same(q)
  BY <1>t DEF TypeOK, Same
<1>3. Building(p)'
  BY <1>t DEF NodeInv, Building, Serves, Leaving, TypeOK
<1>4. Serves(p)'
  BY <1>t DEF NodeInv, Building, Serves, Serving, Leaving, Listed, TypeOK
<1>5. Listed(p)'
  BY <1>t DEF NodeInv, Serves, Listed, Leaving, TypeOK
<1>6. Stoppable(p)'
  BY <1>t DEF NodeInv, Serves, Listed, Stoppable, Sampling, Leaving, TypeOK
<1> QED BY <1>1, <1>2, <1>3, <1>4, <1>5, <1>6, OneNode DEF NodeInv

\* The loop cannot receive.
LEMMA ReceiveFailsStep ==
    ASSUME IInv, NEW p \in Paths, ReceiveFails(p)
    PROVE  IInv'
<1> USE DEF ReceiveFails, Go, world, books, node, loop
<1>t. TypeOK /\ NodeInv(p)
  BY DEF IInv
<1>1. TypeOK'
  BY <1>t DEF TypeOK
<1>2. \A q \in Paths \ {p} : Same(q)
  BY <1>t DEF TypeOK, Same
<1>3. Building(p)'
  BY <1>t DEF NodeInv, Building, Serves, Leaving, TypeOK
<1>4. Serves(p)'
  BY <1>t DEF NodeInv, Building, Serves, Serving, Leaving, Listed, TypeOK
<1>5. Listed(p)'
  BY <1>t DEF NodeInv, Serves, Listed, Leaving, TypeOK
<1>6. Stoppable(p)'
  BY <1>t DEF NodeInv, Serves, Listed, Stoppable, Sampling, Leaving, TypeOK
<1> QED BY <1>1, <1>2, <1>3, <1>4, <1>5, <1>6, OneNode DEF NodeInv

\* Somebody sends to the node.
LEMMA SenderSendsStep ==
    ASSUME IInv, NEW p \in Paths, NEW d, SenderSends(p, d)
    PROVE  IInv'
<1> USE DEF SenderSends, world, books, node, loop
<1>t. TypeOK /\ NodeInv(p)
  BY DEF IInv
<1>1. TypeOK'
  BY <1>t DEF TypeOK
<1>2. \A q \in Paths \ {p} : Same(q)
  BY <1>t DEF TypeOK, Same
<1>3. Building(p)'
  BY <1>t DEF NodeInv, Building, Serves, Leaving, TypeOK
<1>4. Serves(p)'
  BY <1>t DEF NodeInv, Building, Serves, Serving, Leaving, Listed, TypeOK
<1>5. Listed(p)'
  BY <1>t DEF NodeInv, Serves, Listed, Leaving, TypeOK
<1>6. Stoppable(p)'
  BY <1>t DEF NodeInv, Serves, Listed, Stoppable, Sampling, Leaving, TypeOK
<1> QED BY <1>1, <1>2, <1>3, <1>4, <1>5, <1>6, OneNode DEF NodeInv

\* The generator tests close.
LEMMA TestCloseStep ==
    ASSUME IInv, NEW p \in Paths, TestClose(p)
    PROVE  IInv'
<1> USE DEF TestClose, GenGo, world, books, node, loop
<1>t. TypeOK /\ NodeInv(p)
  BY DEF IInv
<1>1. TypeOK'
  BY <1>t DEF TypeOK
<1>2. \A q \in Paths \ {p} : Same(q)
  BY <1>t DEF TypeOK, Same
<1>3. Building(p)'
  BY <1>t DEF NodeInv, Building, Serves, Leaving, TypeOK
<1>4. Serves(p)'
  BY <1>t DEF NodeInv, Building, Serves, Serving, Leaving, Listed, TypeOK
<1>5. Listed(p)'
  BY <1>t DEF NodeInv, Serves, Listed, Leaving, TypeOK
<1>6. Stoppable(p)'
  BY <1>t DEF NodeInv, Serves, Listed, Stoppable, Sampling, Leaving, TypeOK
<1> QED BY <1>1, <1>2, <1>3, <1>4, <1>5, <1>6, OneNode DEF NodeInv

\* The generator sends a sample.
LEMMA SendSampleStep ==
    ASSUME IInv, NEW p \in Paths, SendSample(p)
    PROVE  IInv'
<1> USE DEF SendSample, GenGo, world, books, node, loop
<1>t. TypeOK /\ NodeInv(p)
  BY DEF IInv
<1>1. TypeOK'
  BY <1>t DEF TypeOK
<1>2. \A q \in Paths \ {p} : Same(q)
  BY <1>t DEF TypeOK, Same
<1>3. Building(p)'
  BY <1>t DEF NodeInv, Building, Serves, Leaving, TypeOK
<1>4. Serves(p)'
  BY <1>t DEF NodeInv, Building, Serves, Serving, Leaving, Listed, TypeOK
<1>5. Listed(p)'
  BY <1>t DEF NodeInv, Serves, Listed, Leaving, TypeOK
<1>6. Stoppable(p)'
  BY <1>t DEF NodeInv, Serves, Listed, Stoppable, Sampling, Leaving, TypeOK
<1> QED BY <1>1, <1>2, <1>3, <1>4, <1>5, <1>6, OneNode DEF NodeInv

\* The generator of a TCP node connects again.
LEMMA ConnectAgainStep ==
    ASSUME IInv, NEW p \in Paths, ConnectAgain(p)
    PROVE  IInv'
<1> USE DEF ConnectAgain, GenGo, world, books, node, loop
<1>t. TypeOK /\ NodeInv(p)
  BY DEF IInv
<1>1. TypeOK'
  BY <1>t DEF TypeOK
<1>2. \A q \in Paths \ {p} : Same(q)
  BY <1>t DEF TypeOK, Same
<1>3. Building(p)'
  BY <1>t DEF NodeInv, Building, Serves, Leaving, TypeOK
<1>4. Serves(p)'
  BY <1>t DEF NodeInv, Building, Serves, Serving, Leaving, Listed, TypeOK
<1>5. Listed(p)'
  BY <1>t DEF NodeInv, Serves, Listed, Leaving, TypeOK
<1>6. Stoppable(p)'
  BY <1>t DEF NodeInv, Serves, Listed, Stoppable, Sampling, Leaving, TypeOK
<1> QED BY <1>1, <1>2, <1>3, <1>4, <1>5, <1>6, OneNode DEF NodeInv

\* The generator sleeps.
LEMMA SleepStep ==
    ASSUME IInv, NEW p \in Paths, Sleep(p)
    PROVE  IInv'
<1> USE DEF Sleep, GenGo, world, books, node, loop
<1>t. TypeOK /\ NodeInv(p)
  BY DEF IInv
<1>1. TypeOK'
  BY <1>t DEF TypeOK
<1>2. \A q \in Paths \ {p} : Same(q)
  BY <1>t DEF TypeOK, Same
<1>3. Building(p)'
  BY <1>t DEF NodeInv, Building, Serves, Leaving, TypeOK
<1>4. Serves(p)'
  BY <1>t DEF NodeInv, Building, Serves, Serving, Leaving, Listed, TypeOK
<1>5. Listed(p)'
  BY <1>t DEF NodeInv, Serves, Listed, Leaving, TypeOK
<1>6. Stoppable(p)'
  BY <1>t DEF NodeInv, Serves, Listed, Stoppable, Sampling, Leaving, TypeOK
<1> QED BY <1>1, <1>2, <1>3, <1>4, <1>5, <1>6, OneNode DEF NodeInv

-----------------------------------------------------------------------------
(* The invariant holds *)

\* The invariant holds when the NodeController starts ...
LEMMA StartHolds == ASSUME Init PROVE IInv
<1>1. TypeOK
  BY ProtocolsAssumption DEF Init, TypeOK
<1>2. ASSUME NEW p \in Paths PROVE NodeInv(p)
  BY DEF Init, NodeInv, Building, Serves, Listed, Stoppable, Sampling
<1> QED BY <1>1, <1>2 DEF IInv

\* ... and is kept by every step.
LEMMA StepHolds == ASSUME IInv, [Next]_vars PROVE IInv'
<1>1. CASE UNCHANGED vars
  <2>1. TypeOK'
    BY <1>1 DEF IInv, TypeOK, vars, world, books, node, loop
  <2>2. \A q \in Paths : Same(q)
    BY <1>1 DEF Same, vars, world, books, node, loop
  <2> QED BY <2>1, <2>2, SameStays DEF IInv
<1>2. ASSUME NEW p \in Paths, BuildNode(p) PROVE IInv'
  BY <1>2, BuildNodeStep
<1>3. ASSUME NEW p \in Paths, DestroySampleGen(p) PROVE IInv'
  BY <1>3, DestroySampleGenStep
<1>4. ASSUME NEW p \in Paths, HandlePacket(p) PROVE IInv'
  BY <1>4, StartSampleGenStep, RegisterNodeStep, StartNodeStep, TerminateStep,
     WakeStep, ShutStep, AbortSampleGenStep DEF HandlePacket
<1>5. ASSUME NEW p \in Paths, Run(p) PROVE IInv'
  BY <1>5, TestRunningStep, CallReceiveStep, ReceiveDataStep DEF Run
<1>6. ASSUME NEW p \in Paths, Generate(p) PROVE IInv'
  BY <1>6, TestCloseStep, SendSampleStep, ConnectAgainStep, SleepStep DEF Generate
<1>7. ASSUME NEW p \in Paths, NEW d \in {"data", "empty"}, SenderSends(p, d) PROVE IInv'
  BY <1>7, SenderSendsStep
<1>8. ASSUME NEW p \in Paths, RunFails(p) PROVE IInv'
  BY <1>8, PacketThreadFailsStep, ReceiveFailsStep DEF RunFails
<1> QED BY <1>1, <1>2, <1>3, <1>4, <1>5, <1>6, <1>7, <1>8 DEF Next

\* Every part of the invariant holds in every state of the nodes of a host.
THEOREM InvariantHolds == Spec => []IInv
<1> QED BY StartHolds, StepHolds, PTL DEF Spec

-----------------------------------------------------------------------------
(* What it says of the nodes *)

\* As long as sysrepo keeps its profile, NodeController finds the node and its
\* socket is bound.  Unless terminate told it to stop, its loop serves until it
\* meets an error, and from then on it does not.
THEOREM KeptServe == Spec => []KeptNodesServe
<1>1. ASSUME IInv PROVE KeptNodesServe
  BY <1>1 DEF IInv, TypeOK, NodeInv, Serves, KeptNodesServe
<1> QED BY <1>1, InvariantHolds, PTL

\* NodeController.nodes holds nothing else than what has a profile, but for nodes
\* whose thread could not be started.
THEOREM ListedHaveProfiles == Spec => []NodesHaveProfiles
<1>1. ASSUME IInv, Idle PROVE nodes \subseteq stored \cup unstarted
  BY <1>1 DEF IInv, TypeOK, NodeInv, Listed, Idle, Between
<1> QED BY <1>1, InvariantHolds, PTL DEF NodesHaveProfiles

\* No SampleGen thread goes on sampling without a node it can be stopped with.
THEOREM SamplersAreStoppable == Spec => []SamplersHaveNodes
<1>1. ASSUME IInv, Idle, NEW p \in Paths, Sampling(p), ~close[p]
      PROVE  /\ p \in sample_generators /\ p \in nodes
             /\ p \in stored \/ protocol[p] = "TCP"
  <2>1. call[p] \in {"kept", "refused"}
    BY <1>1 DEF IInv, NodeInv, Stoppable, Idle, Between, Leaving
  <2> QED BY <1>1, <2>1 DEF IInv, NodeInv, Serves, Stoppable
<1>2. IInv => SamplersHaveNodes
  BY <1>1 DEF SamplersHaveNodes
<1> QED BY <1>2, InvariantHolds, PTL
=============================================================================
