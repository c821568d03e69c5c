------------------------------ MODULE NodeLife ------------------------------
(***************************************************************************)
(* How the nodes of one host live and end: NodeController.create_node and  *)
(* destroy_node, called by sysrepo one at a time, the loop of              *)
(* GenericNode.run, GenericNode.terminate, and the SampleGen thread that   *)
(* feeds an ingress node.  A path is created at most once: its identifier  *)
(* is a fresh uuid.                                                        *)
(***************************************************************************)
EXTENDS Naturals, Sequences

CONSTANTS Paths,     \* the paths that want a node on this host
          Protocols, \* the protocols they may use
          Buffer     \* bound on what a socket's buffer holds

ASSUME ProtocolsAssumption == Protocols \subseteq {"UDP", "TCP"}
ASSUME BufferAssumption == Buffer \in Nat \ {0}

VARIABLES
    protocol, ingress, \* what each path asked for
    stored,            \* the profiles sysrepo accepted
    nodes,             \* NodeController.nodes
    sample_generators, \* NodeController.sample_generators
    call,              \* the step of handle_packet for each path
    running,           \* _running, by node
    socket,            \* none, open or closed, by node
    inbox,             \* what waits in it: data, or a datagram without any
    thread,            \* the step of GenericNode.run
    gen,               \* the step of SampleGen.run
    close,             \* SampleGen.close
    unstarted,         \* history: nodes whose thread could not be started
    erred              \* history: nodes whose loop met an error that was not
                       \* the end of their socket

world == <<protocol, ingress>>
books == <<stored, nodes, sample_generators, unstarted>>
node == <<running, socket, inbox>>
loop == <<thread, erred>>
vars == <<world, books, call, node, loop, gen, close>>

Init == /\ protocol \in [Paths -> Protocols]
        /\ ingress \in [Paths -> BOOLEAN]
        /\ stored = {} /\ nodes = {} /\ sample_generators = {}
        /\ call = [p \in Paths |-> "none"]
        /\ running = [p \in Paths |-> FALSE]
        /\ socket = [p \in Paths |-> "none"]
        /\ inbox = [p \in Paths |-> <<>>]
        /\ thread = [p \in Paths |-> "none"]
        /\ gen = [p \in Paths |-> "none"]
        /\ close = [p \in Paths |-> FALSE]
        /\ unstarted = {} /\ erred = {}

\* sysrepo delivers one change after the other.
Between == {"none", "kept", "refused", "removed"}
Idle == \A p \in Paths : call[p] \in Between

Step(p, from, to) == call[p] = from /\ call' = [call EXCEPT ![p] = to]

\* What arrives at an open socket waits in its buffer, or is dropped.
Deliver(p, datagram) ==
    inbox' = IF socket[p] = "open" /\ Len(inbox[p]) < Buffer
             THEN [inbox EXCEPT ![p] = Append(@, datagram)] ELSE inbox

-----------------------------------------------------------------------------
(* create_node *)

PrepareSocket(p) == socket' = [socket EXCEPT ![p] = "open"]

\* The node is constructed: its socket is bound, or cannot be.
BuildNode(p) ==
    /\ Idle
    /\ \/ /\ Step(p, "none", IF ingress[p] THEN "sample" ELSE "register")
          /\ running' = [running EXCEPT ![p] = TRUE]
          /\ PrepareSocket(p)
       \/ /\ Step(p, "none", "refused")
          /\ UNCHANGED <<running, socket>>
    /\ UNCHANGED <<world, books, inbox, loop, gen, close>>

\* An ingress node gets a generator, whose start() may fail.
StartSampleGen(p) ==
    /\ sample_generators' = sample_generators \cup {p}
    /\ \/ Step(p, "sample", "register") /\ gen' = [gen EXCEPT ![p] = "test"]
       \/ Step(p, "sample", "terminate") /\ UNCHANGED gen
    /\ UNCHANGED <<world, stored, nodes, unstarted, node, loop, close>>

RegisterNode(p) ==
    /\ Step(p, "register", "start")
    /\ nodes' = nodes \cup {p}
    /\ UNCHANGED <<world, stored, sample_generators, unstarted, node, loop,
                   gen, close>>

\* node.start(), after which sysrepo keeps the profile.
StartNode(p) ==
    /\ \/ /\ Step(p, "start", "kept")
          /\ thread' = [thread EXCEPT ![p] = "test"]
          /\ stored' = stored \cup {p}
          /\ UNCHANGED unstarted
       \/ /\ Step(p, "start", "terminate")
          /\ unstarted' = unstarted \cup {p}
          /\ UNCHANGED <<thread, stored>>
    /\ UNCHANGED <<world, nodes, sample_generators, node, erred, gen, close>>

-----------------------------------------------------------------------------
(* GenericNode.terminate, in create_node when it fails and in destroy_node *)

\* self._running = False.  A TCP node then connects its listening socket, which
\* raises, and sysrepo keeps or refuses the profile as it was.
Terminate(p) ==
    /\ Step(p, "terminate", IF protocol[p] = "UDP" THEN "wake"
                            ELSE IF p \in stored THEN "kept" ELSE "refused")
    /\ running' = [running EXCEPT ![p] = FALSE]
    /\ UNCHANGED <<world, books, socket, inbox, loop, gen, close>>

\* Faulty variant: no empty datagram wakes the loop.
WakeNobody(p) ==
    /\ Step(p, "wake", "shut")
    /\ UNCHANGED <<world, books, node, loop, gen, close>>

\* A UDP node sends an empty datagram to itself ...
Wake(p) ==
    /\ Step(p, "wake", "shut")
    /\ Deliver(p, "empty")
    /\ UNCHANGED <<world, books, running, socket, loop, gen, close>>

\* Faulty variant: destroy_node leaves the node in the dictionary.
ShutAndKeep(p) ==
    /\ Step(p, "shut", IF p \in stored THEN "removed" ELSE "abortSample")
    /\ socket' = [socket EXCEPT ![p] = "closed"]
    /\ stored' = stored \ {p}
    /\ UNCHANGED <<world, nodes, sample_generators, unstarted, running, inbox,
                   loop, gen, close>>

\* ... and closes its socket; destroy_node drops it from the dictionary.
Shut(p) ==
    /\ Step(p, "shut", IF p \in stored THEN "removed" ELSE "abortSample")
    /\ socket' = [socket EXCEPT ![p] = "closed"]
    /\ stored' = stored \ {p}
    /\ nodes' = IF p \in stored THEN nodes \ {p} ELSE nodes
    /\ UNCHANGED <<world, sample_generators, unstarted, running, inbox, loop,
                   gen, close>>

\* Faulty variant: the generator is forgotten and not told to stop.
ForgetSampleGen(p) == /\ sample_generators' = sample_generators \ {p}
                      /\ UNCHANGED close

StopSampleGen(p) ==
    /\ sample_generators' = sample_generators \ {p}
    /\ close' = [close EXCEPT ![p] = @ \/ p \in sample_generators]

\* create_node stops the generator after the node ...
AbortSampleGen(p) ==
    /\ Step(p, "abortSample", "refused")
    /\ StopSampleGen(p)
    /\ UNCHANGED <<world, stored, nodes, unstarted, node, loop, gen>>

\* ... and destroy_node before it.
DestroySampleGen(p) ==
    /\ Idle /\ p \in stored
    /\ Step(p, "kept", "terminate")
    /\ StopSampleGen(p)
    /\ UNCHANGED <<world, stored, nodes, unstarted, node, loop, gen>>

HandlePacket(p) == \/ StartSampleGen(p) \/ RegisterNode(p) \/ StartNode(p)
                   \/ Terminate(p) \/ Wake(p) \/ Shut(p) \/ AbortSampleGen(p)

-----------------------------------------------------------------------------
(* GenericNode.run *)

Go(p, from, to) == /\ thread[p] = from
                   /\ thread' = [thread EXCEPT ![p] = to]
                   /\ UNCHANGED <<world, books, call, running, socket, gen, close>>

TestRunning(p) ==
    /\ Go(p, "test", IF running[p] THEN "call" ELSE "finished")
    /\ UNCHANGED <<inbox, erred>>

\* Any error in the loop raises once more in its handler, since a node has no
\* attribute logging, and the thread dies: first, that the socket is closed.
CallReceive(p) ==
    /\ Go(p, "call", IF socket[p] = "closed" THEN "died" ELSE "blocked")
    /\ UNCHANGED <<inbox, erred>>

\* Faulty variant: the loop ends with the first empty datagram.
ReceiveBreaks(p) ==
    /\ inbox[p] # <<>>
    /\ Go(p, "blocked", IF Head(inbox[p]) = "empty" THEN "finished" ELSE "test")
    /\ inbox' = [inbox EXCEPT ![p] = Tail(@)]
    /\ UNCHANGED erred

\* Data starts a packet thread, an empty datagram does nothing.
ReceiveData(p) ==
    /\ inbox[p] # <<>>
    /\ Go(p, "blocked", "test")
    /\ inbox' = [inbox EXCEPT ![p] = Tail(@)]
    /\ UNCHANGED erred

Run(p) == TestRunning(p) \/ CallReceive(p) \/ ReceiveData(p)

\* The packet thread cannot be started, and the data are lost.
PacketThreadFails(p) ==
    /\ inbox[p] # <<>> /\ Head(inbox[p]) = "data"
    /\ Go(p, "blocked", "died")
    /\ inbox' = [inbox EXCEPT ![p] = Tail(@)]
    /\ erred' = erred \cup {p}

\* accept, recv or recvfrom raises while the socket is open: the peer reset the
\* connection, or the process has no more descriptors or memory.
ReceiveFails(p) ==
    /\ socket[p] = "open"
    /\ Go(p, "blocked", "died")
    /\ erred' = erred \cup {p}
    /\ UNCHANGED inbox

RunFails(p) == PacketThreadFails(p) \/ ReceiveFails(p)

\* Anyone may send to the node, also nothing.
SenderSends(p, datagram) ==
    /\ socket[p] = "open" /\ Len(inbox[p]) < Buffer
    /\ Deliver(p, datagram)
    /\ UNCHANGED <<world, books, call, running, socket, loop, gen, close>>

-----------------------------------------------------------------------------
(* SampleGen.run *)

GenGo(p, from, to) == /\ gen[p] = from
                      /\ gen' = [gen EXCEPT ![p] = to]
                      /\ UNCHANGED <<world, books, call, running, socket, loop,
                                     close>>

TestClose(p) == /\ GenGo(p, "test", IF close[p] THEN "finished" ELSE "send")
                /\ UNCHANGED inbox

\* A TCP generator connects the same socket again for its second sample, which
\* raises: it sends one sample and dies.
SendSample(p) ==
    /\ GenGo(p, "send", IF protocol[p] = "TCP" THEN "sleepOnce" ELSE "sleep")
    /\ Deliver(p, "data")

ConnectAgain(p) == /\ GenGo(p, "sleepOnce", IF close[p] THEN "finished" ELSE "died")
                   /\ UNCHANGED inbox

Sleep(p) == GenGo(p, "sleep", "test") /\ UNCHANGED inbox

Generate(p) == TestClose(p) \/ SendSample(p) \/ ConnectAgain(p) \/ Sleep(p)

Next == \E p \in Paths :
            \/ BuildNode(p) \/ DestroySampleGen(p) \/ HandlePacket(p)
            \/ Run(p) \/ RunFails(p) \/ Generate(p)
            \/ \E d \in {"data", "empty"} : SenderSends(p, d)

Spec == Init /\ [][Next]_vars

(***************************************************************************)
(* A callback runs to its end, and the interpreter runs every thread.  No  *)
(* error has to happen.                                                    *)
(***************************************************************************)
FairSpec == /\ Spec
            /\ \A p \in Paths : /\ WF_vars(HandlePacket(p))
                                /\ WF_vars(Run(p))
                                /\ WF_vars(Generate(p))

-----------------------------------------------------------------------------
(* Properties *)

Serving(p) == thread[p] \in {"test", "call", "blocked"}
Sampling(p) == gen[p] \in {"test", "send", "sleep", "sleepOnce"}

(***************************************************************************)
(* As long as sysrepo keeps the profile of a node, the node can be found,  *)
(* is bound, and its loop serves whatever is sent to it, also nothing.     *)
(* Two things end that and leave the profile: an error in the loop, once   *)
(* and for good, and the attempt to remove a TCP node.                     *)
(***************************************************************************)
KeptNodesServe ==
    \A p \in stored :
        /\ p \in nodes /\ socket[p] = "open"
        /\ running[p] => (Serving(p) <=> p \notin erred)
        /\ ~running[p] => protocol[p] = "TCP" \/ call[p] \in {"wake", "shut"}

(***************************************************************************)
(* Between two changes the dictionary holds a node without a profile only  *)
(* if its thread could not be started: "we must remove it from the dict",  *)
(* says create_node, which does that for the generator alone.              *)
(***************************************************************************)
NodesHaveProfiles == Idle => nodes \subseteq stored \cup unstarted

(***************************************************************************)
(* Between two changes a generator that goes on sampling belongs to a node *)
(* that is there and can be stopped with it.  The exception is a TCP node  *)
(* that could not be started, whose generator is never told.               *)
(***************************************************************************)
SamplersHaveNodes ==
    Idle => \A p \in Paths :
        Sampling(p) /\ ~close[p] =>
            /\ p \in sample_generators /\ p \in nodes
            /\ p \in stored \/ protocol[p] = "TCP"

(***************************************************************************)
(* What is destroyed, or given up while it is created, comes to its end:   *)
(* the loop of a UDP node, also when it was blocked, about to receive, or  *)
(* had a full buffer, and the generator of the node.                       *)
(***************************************************************************)
StoppedNodesEnd ==
    \A p \in Paths : socket[p] = "closed" ~> ~Serving(p) /\ ~Sampling(p)
=============================================================================
