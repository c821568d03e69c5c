# Verification of cne_opot_sdk (Ordered Proof of Transit)

TLA+ models of the controller and the nodes of `opot_sdk`, the TLC runs that
check them and the TLAPS proofs about them. Paths below are relative to the
repository; `PROJECT.json` maps every definition to the lines it stands for.

## 1. The system

A client asks the controller, over REST, for a *path* through several hosts.
The controller computes secret-sharing parameters and pairwise masks and
configures each host over NETCONF. Packets then travel ingress → middle →
egress; every node adds its share to a cumulative value, and the egress node
verifies the result. Each node reports each packet to the controller over gRPC,
and the controller turns the reports of one packet into a verdict: a line in a
result file, a Prometheus metric, a Kafka record.

| part | state | operations | talks to | module |
|---|---|---|---|---|
| log listener, `LogListener.py` | shares `paths` with the controller | `ingress/middle/egressToController`, `handleLog`, run by 10 workers | path | FlowTracking |
| flow tracking, `OPoTPath.py` | `flow_status` (sequence number → `FlowInfo`) | `update_flow_status`, `FlowInfo.update_status`, `locate_error`, `send_to_kafka`, `closeFiles` | Kafka, Prometheus, result files | FlowTracking, FlowVerdict, Transit (`locate_error`) |
| result files | two open files and two locks in each path | `open`, `write`, `close` | other paths, by the name of the file | ResultFile |
| path set-up, `OPoTPath.py`, descriptors | `nodes`, links, masks, shares | `generate_node_descriptors`, `create_node_config`, reading it back | mask manager, Lagrange | PathSetup |
| controller, `OPoTController.py` | `paths`, status of each path and node | `create_path`, `destroy_path`, `run` | NETCONF server of each host | PathDeployment, ControllerStart |
| mask manager, `MaskManager.py` | a shelf of key bytes, `last_update`, a timer thread | `extract_opot_masks`, `_update_masks`, `generate_masks`, `run` | key service over HTTP | MaskPool |
| REST API, `api/` | none | `create_path`, `destroy_path`, `get_path_info` | controller | PathDeployment, ControllerStart |
| `Singleton` | `_instances` | `__call__` | controller | ControllerStart |
| node controller, `NodeController.py` | `nodes`, `sample_generators`; the sysrepo datastore outlives it | `handle_packet`, `create_node`, `destroy_node`, start-up | sysrepo | NodeLife, PathDeployment |
| nodes, `GenericNode.py`, `NodeTypes.py` | a socket, `seq`, `_running` | `run`, `node_functionality`, `terminate` | next node, log listener | DataPlane, Transit, NodeLife |
| sample generator | `close` | `run`, `terminate` | ingress node | NodeLife |
| Lagrange arithmetic, `lagrange.py` | none | parameters of a path, `calculate_new_cml` | | Transit |
| sockets, parameters, logging | | | | DataPlane, NodeLife (sockets) |

### What is hard

* Nothing locks a `FlowInfo`: handlers of one packet run side by side in the
  gRPC pool, and every test-then-set in them is a race. The image the project
  ships is built on Ubuntu 18.04 with CPython 3.6, whose interpreter lock can be
  handed over between any two bytecodes.
* Reports arrive in any order, late, or never. Sequence numbers are chosen by
  an unlocked read-modify-write, and wrap at 2^32 while a report holds an int32.
* `destroy_path` closes files and forgets the path under running handlers.
* All paths open result files of the same two names, each with a lock, a buffer
  and an offset of its own.
* The lock of the mask manager covers the write of the keys and not the
  read-cut-write of an extraction; a timer replaces the keys meanwhile. A write
  that fails leaves the lock held, and the request for keys has no timeout.
* A path lives on several hosts. Configuring or removing any of them can be
  refused, time out after it took effect, or meet a `NodeController` that
  restarted and forgot its nodes.
* What a node is to do is described twice: the host computes the identifier,
  the type and the listening address again from what it is sent, while the
  controller overwrites addresses when it links the nodes.
* A node ends by a flag that its loop tests and a datagram that must wake it; a
  generator feeds it at the same time and must end with it. An error in the loop
  ends it too, and nobody is told.
* `Singleton` tests, constructs and stores without the lock it has.

### What makes each part correct

* Flow tracking: no verdict before every node reported; a success goes back to
  a verification; a flow never goes back; exactly one right record when its
  handlers do not overlap; locks are released; handlers end.
* Result files: what a path has written is not lost to paths that had ended.
* Mask manager: no mask is cut from nothing; masks are one-time; old keys go,
  as long as neither the key service nor the shelf lets the timer down.
* Set-up: neighbours share a mask and one sends to where the other listens; a
  node reports under the identifier and plays the part the controller has for it.
* Controller and node controller: what the controller forgot is gone from the
  hosts; what it calls operative is deployed; a failed creation is rolled back;
  whatever runs can be found and stopped; a path can be deleted; a node that is
  kept serves, as long as no error ends its loop; what is stopped ends, with its
  generator.
* Start: a path that was created is found; its reports reach it; there is one
  controller in the end, and it serves.
* Data plane: one number per packet; a report tells of the whole way before it.
* Lagrange: an unaltered packet verifies, and the node that is blamed for an
  altered one is at fault.

## 2. The modules

Modules do not extend each other; each takes from the others a fact they
establish. `PathSetup` says what `PathDeployment` sends to a host and what the
masks of `MaskPool` are for; `NodeLife` opens up the node that `PathDeployment`
starts and stops in one step; `DataPlane` gives the reports, with numbers and
holes, that `FlowTracking` receives in any order, and `Transit` the verdict and
the values in them; `ControllerStart` says which controller receives them.

### FlowTracking and FlowVerdict

One behaviour of `FlowTracking` is the life of one path's flow tracking.
`Packets` cross the path; a *call* `<<p, n>>` is the report of node `n` about
packet `p`, and one handler runs for it. A report that is lost is a call that is
never dispatched.

* `seqOf` and `verdict` are chosen at the start: any assignment of numbers, so
  that two packets may share one (the racing counter, or a number that wrapped),
  and any finding of the egress node.
* `pc` steps a handler through `handleLog`, `update_flow_status` and
  `update_status`. A step contains at most one read or one write of shared
  state, except where Python reads or writes once more what no other thread can
  change. A test and the assignment it guards are two steps.
* `info` holds the `FlowInfo` objects, named by the call that creates them,
  since the object that lost the race for `flow_status` lives on in its
  handler. `ref` is the local variable `flow_status` of a handler.
* `timestamps` is reduced to whether it is empty, `duration` to whether it is set, the
  cumulative values to nothing: `locate_error` can only fail on a missing
  secret. The writes to a result file are a step that succeeds or raises.
* `CloseInvalid`, `CloseValid` and `PopPath` are the last three steps of
  `destroy_path`, as far as the handlers can see them.
* `overlapped` is a history variable: the numbers whose handlers ever ran side
  by side. It appears in no guard.

The races are real and stay in the model. Two handlers that both find no flow
create two objects, and the flow that is looked up stays Not Finished although
all nodes reported; the secret can be overwritten with None, whereupon
`locate_error` raises and the failure never reaches Kafka; a verified packet can
be called Fail (`FlowFailRace`). `FlowVerdict` states what holds nevertheless:
for each flow object, reports are *collected* in any order, the egress node may
*vouch* for it, only a complete flow is *judged*, a success only if vouched for,
and what is *published* is the judgement of the moment. `FlowTracking!Promise`
instantiates it: `collected` are the nodes with an entry, `vouched` the objects
that some handler of the egress node, for a verified packet of that number,
refers to, `published` the records its handlers sent. `KeepsThePromise` is that
specification, checked by `FlowConcurrent` and proved.

### ResultFile

`mtd_valid.csv` as all paths use it. `handle` is the open file of a path,
`written` and `flushed` count its lines, `file` holds for each line of the file
the path it came from. CPython buffers, so a flush may take any number of lines
at any time, and writes at the offset of its own descriptor; lines have one
length. `last` and `before` are history: the path that was created last and
those that had the file open then. A crash of the controller drops the buffers.
It shows two things the code really does: a new path erases all earlier
results, and paths that run at the same time write over each other.

### MaskPool

An *extraction* is one call of `extract_opot_masks` by the constructor of a
path. The shelf is opened without write-back, so `ReadKeys` makes a private
copy, `TakeMask` cuts a mask from its last key and `UpdateMasks` stores the
copy, or drops it when the last update is too old. A mask is named by the batch
and key it is cut from and its place in it; the mask cut from a key without
bytes is `Zero`, which is what `int.from_bytes(b'')` makes of it. Time is one
bit, `fresh`. Extractions that overlap do hand out the same masks, although the
constructor says that the lock makes the operations thread safe; `disturbed` is
history, the extractions this may have happened to.

`_update_masks` holds the lock throughout and is one step. It has no `finally`:
when the write to the shelf raises (`ShelfMayFail`) the lock stays held, which
is what the variable `lock` says, and the next extraction or timer that wants it
waits for ever. A write that failed is taken to leave the old keys. `ApiMayFail`
selects the HTTP key service, whose request may fail, which ends the timer
thread or the extraction, or never return, since `requests.get` is given no
timeout (`TimerHangs`; an extraction then takes no step any more). So keys that
became too old are not replaced for certain: `OldKeysAreReplaced` names the three
ways in which they are not, a thread that died, one that hangs, and the lock.

### PathSetup

The constructor of a path, `generate_node_descriptors`, position by position:
the address and port of a node (given, or the management address and a port of
the first free ones), type, mask and share; then the links, which write the
addresses of a node and its neighbour again; then, for each descriptor, the
configuration and the node the host builds from it, reading missing values as
None. Digits of address and port are sequences, because the identifier hashes
them written one after the other (`GenerateId`): two addresses may share one,
and of two such *namesakes* the dictionary keeps the later, which is what
`OnlyNamesakesAreLost` says. A host binds the first of its interfaces that is in
the network of the address, hence the exception `Misbound`. Each position has
its own host here; two on one are in `PathDeployment`.

### PathDeployment

Requests are POSTs, one for each path, and DELETEs. A host has `stored`, the
profiles in its sysrepo datastore, and `nodes`, the dictionary of its
`NodeController`; `running` are the nodes that were started and not told to
stop, whose loop an error may have ended all the same (`NodeLife`). An
`edit_config` is one step, since sysrepo asks the `NodeController` before it
accepts.
`operative` are the positions whose `node.status` is OPERATIVE; as in the code
nothing ever takes one back. The rollback of `create_path` runs the same
actions as a DELETE. A client that is answered 500 asks again.

Faults (`Faults`, at most `MaxFaults`): the host refuses or cannot be reached;
the change is made and the reply lost; a node's thread cannot start; a
`NodeController` restarts. The NETCONF transport, sysrepo and the client are
external.

Consequences of the code that the properties carry as exceptions: the profile
on a host is named after the path alone, so a second node of a path on the same
host is merged into the first and never created (the YANG model allows two
masks in each list, so that this happens to the ingress and the egress node of a
path, as in the runs; a third merge would be refused); a TCP node cannot be
terminated, since `terminate` connects a listening socket; after one removal
that was refused the path can never be deleted, because the next DELETE asks for
the removal of what is already gone; a path stays operative when a
`NodeController` restarts, which does not start the nodes of stored profiles;
and a node whose thread could not start stays in the dictionary.

### NodeLife

One host in detail. `call` steps `handle_packet` through `create_node` and
`destroy_node`; sysrepo delivers one change at a time (`Idle`). `thread` is the
loop of `GenericNode.run`, between the test of `running`, the `recvfrom` that
blocks on `inbox`, and its end; `gen` is `SampleGen.run`. `terminate` clears the
flag, sends itself a datagram without data, and closes the socket; the buffer of
the socket may be full (`Buffer`) and the loop may be anywhere. The two
exceptions of `PathDeployment` have their origin here: the TCP node whose
`terminate` raises, and the node that was put in the dictionary before its
thread failed to start.

The handler of `GenericNode.run` uses `self.logging`, which no node has, so that
every error in the loop raises again and ends the thread: a closed socket
(`CallReceive`), a packet thread that cannot be started (`PacketThreadFails`),
and `accept`, `recv` or `recvfrom` raising on an open socket, a reset by the
peer for instance (`ReceiveFails`). After the last two the profile is still
there, the node is in the dictionary and its socket open, and nobody receives:
this is what `KeptNodesServe` says of the nodes in `erred`, which is history.

### DataPlane

`<<p, c>>` is copy `c` of packet `p`; copies are made by the network. `step` is
the thread of a copy at a node: on the wire, numbering (`load`, `store`, `test`,
`wrap`, `return`, a step for every access to `self.seq`), `forward`, `report`,
or how it ended. Datagrams are lost, doubled and overtaken; a report fails; a
node's socket is closed. The counter wraps at `SeqMax` and a report holds
numbers up to `ReportMax`, so that half of all packets cannot be reported at
all. `overlapped` is history: copies whose numbering overlapped another one.
UDP only.

### Transit

The arithmetic of one packet, exact over small primes. `DrawParameters`,
`TryAgain` and `CalculateLpcs` are `generate_lagrange_parameters`, which draws
again until the coefficients have inverses; the packet then walks the nodes, each adds its share (`Process`), may
make the random error `GenericNode` can be configured for, and any link may
alter the value or the secret (`Alter`). The egress node verifies, and `LocateError` is
`FlowInfo.locate_error` on the values that were reported.

### ControllerStart

Requests run in threads of their own; `pc` steps each through
`Singleton.__call__` (look, construct, store, read again), then through its
endpoint; a POST looks its path up with a second `OPoTController()`. The
constructor starts a thread that opens the port of the metrics, where a second
controller fails, and then serves the reports of its own `paths`. `raced` is
history: two requests constructed at once.

## 3. The runs

| run | question | instance | states |
|---|---|---|---|
| FlowConcurrent | Can any interleaving of one packet's reports give an early or unfounded verdict, take a flow back, or break the promise of `FlowVerdict`? No. | 1 packet, 3 nodes, 3 workers, metrics on | 435885 |
| FlowPackets | Do packets disturb each other, by different numbers or a shared one? Does a flow whose handlers do not overlap end right? | 2 packets, 2 nodes, 2 numbers, 2 workers | 2094721 |
| FlowDestroy | What can closing the files under the handlers do to locks, handlers and records? | 1 packet, 2 nodes, 2 workers, files may close | 28102 |
| ResultFile | What can paths do to each other's lines? | 3 paths, 3 lines each | 28266 |
| MaskConcurrent | Do extractions, the timer, a key service that fails or hangs and a failing shelf leave the pool usable, and undisturbed masks one-time? When are old keys replaced? | 3 extractions (1, 2 and 2 masks), 2 keys of 2 masks, 3 batches | 141274 |
| PathSetup | Do neighbours meet, and do controller and hosts agree on who each node is, for all addresses a client may give? | 3 nodes, 3 addresses, 2 ports, one host with two interfaces in one network | 286056 |
| DeployFaults | Does the controller's view agree with the hosts under faults and concurrent deletes? | routes of 2 and 3 nodes, one of them twice on a host, UDP and TCP, 2 clients, 3 faults | 4299 |
| NodeLife | Do nodes that are kept serve until an error ends their loop, and do those that are stopped end, with their generators? | 2 paths on a host, UDP and TCP, buffers of 1 | 392121 |
| DataPlane | What do the races on the counter spoil, and do reports have holes? | 2 packets, one of them doubled, 2 nodes, numbers 0..3, reports 0..1, sockets may close | 3164604 |
| Transit | Does an unaltered packet verify, is an error caught, is the right node blamed? | 3 nodes, primes 5 and 7, points 1..4, 2 errors or alterations, altered values 0..8 | 275408 |
| ControllerStart | Does a race of first requests lose paths or reports, and does it end? | 2 POSTs, 1 GET, 1 DELETE | 20046 |

One more run, `FlowFailRace`, shows that the code does not keep what its own
text says (`findings` in `PROJECT.json` quotes it): a packet that was verified
is called Fail, because the verdict of the egress node is overwritten with None,
or because the status is computed before the verdict is stored.

### Bounds

* *Flow tracking.* Three nodes are one of each kind, and two handlers suffice
  for each race; the third worker lets one handler stand still between two steps
  of the others. A handler touches one flow, so two packets are enough for a
  shared number, and two numbers give every way two packets can be numbered.
  `FlowPackets` uses symmetry under permutations of packets and of numbers: both
  are only compared for equality and the run checks no liveness.
* *Result file.* A line is lost to a path that was there before; the third path
  lets another creation come in between, and three lines let one path be behind,
  at and beyond another one, with holes. Paths are symmetric; no liveness.
* *Masks.* Three extractions overlap pairwise and in a chain; two keys of two
  masks make an extraction cross a key and empty the pool; three batches let
  both the timer and an extraction replace the keys. `MaxBatch` ends a run.
* *Set-up.* Three nodes are one of each type, with two links. Two of the
  addresses can be written with the same digits, with their ports, as two
  different sockets, so that namesakes of both kinds (the same address, or
  another) occur; one host has two interfaces in one network.
* *Deployment.* Paths do not share state on a host (everything is keyed by the
  path), so DeployFaults takes one path and instead two clients, three hosts and
  three faults.
* *Node life.* Callbacks of two paths alternate; a buffer of one is full or not.
* *Data plane.* Two threads make every race on the counter, a doubled packet
  gives a third; the counter starts at 0 or at its last number, so that it wraps
  while threads overlap, and half of the numbers do not fit a report. The sender
  sends each packet once and the network doubles only that copy.
* *Transit.* Every node is once first, middle and last for a fault; with two
  faults one may hide the other. The primes are larger than every point, as in
  the code (16 bits against 100), and small enough that values meet by accident.
* *Start.* Two POSTs race; the GET and the DELETE come later and see the result.

Deadlock is not checked where everything may come to its end: Masks, Result
file, Set-up, Deployment, Node life, Transit and Start. With `FlowDestroy` it is
not checked either: a lock that a failed handler kept really stops later ones.

### Fairness

`FlowTracking!FairSpec`: a handler that has been dispatched and can go on does,
as CPython starves no thread; dispatch, arrival and destruction are not fair.
`MaskPool!FairSpec`: `sleep` returns and the timer thread is scheduled; a fault
of its request or of the shelf takes its next step away, as does the lock when
it was left held, and extractions need not go on. `PathDeployment!FairSpec`: the
server finishes its requests, every NETCONF call having a timeout, and a client
that wants a path deleted keeps asking. `NodeLife!FairSpec`: a callback of
sysrepo runs to its end, and the loops of nodes and generators are scheduled;
what anyone sends to a node, and errors in its loop (`RunFails`), are not fair.
`ControllerStart!FairSpec`: a request that was accepted and the thread of a
controller are scheduled; no request has to come. No fault is fair, and all
fairness is weak.

## 4. The proofs

Eight modules hold proofs. Each theorem is proved for every value of the
constants under the assumptions its module states (`...Assumption`), and each
invariant was first checked by TLC.

`FlowTrackingProofs`, for all finite sets of nodes and any packets, numbers and
workers; ingress and egress are different nodes:

| theorem | argument |
|---|---|
| `TypeCorrect` | `TypeOK` alone is not inductive: a step that writes `info[ref[c]]` needs to know that `ref[c]` is an object. `RefInv` says that a handler holds one from `fetch` on. |
| `FlowsAdvance` | only six steps write `info` (`InfoWriters`), and each only adds (`Advances`). |
| `VerdictsAreNotEarly` | `EarlyInv` adds that a handler past `settle` that is about to write a status holds a complete flow; completeness is stable by `AdvanceStep`. |
| `SuccessesAreSound` | `SoundInv` ties a flow object to its number and carries the witness from `valid` through the handler that evaluated it (at `succeed`) to `status` and Kafka. The witness is stable because `ref`, `seqOf` and `verdict` of a handler that holds a flow never change. |
| `LocksAreReleased` | `LockInv`: who is at `write` holds its lock, and `Write` is the only step that leaves one behind. |
| `SequentialIsExact` | `ExactInv`, see below. |
| `PromiseKept` | the refinement of `FlowVerdict`, see below. |

`SequentialIsExact` is about packets with a number of their own whose handlers
never ran side by side (`Regular`); those of other numbers interleave freely.
`OneAtATime` says what `overlapped` records. For a regular packet `Exact` tells
everything its flow object holds from where its handlers are: none has failed
and all refer to the object the first one made (`Started`); the entries, the
secret, the verdict and the status are those the handlers past that step have
put there (`Collects`); only the handler that came last reports, and when all
have ended one of them did (`Sends`). Nothing weaker is inductive: that
exactly one record is sent depends on the status, which depends on the entries,
the secret and the verdict the handlers read. Steps of other packets write
other flow objects, since their numbers differ (`OthersExact`).

`PromiseKept`: `FlowTracking!Spec` implements
`FlowVerdict!Spec` under the mapping `Promise`. Initial states map to initial
states. `WhatChanges` reduces a step to the few that the promise can see;
`Store` is a `Collect` or repeats one, `FetchFlow` of a handler of the egress
node may `Vouch`, `SetStatus` and `Assign` `Judge` (by `EarlyInv` the flow is
complete, by `SoundInv` a success was vouched for), `SendToKafka` is a `Publish`
(by `SettledInv` the flow it holds is settled). All others are stutters.

`MaskPoolProofs`, for any number of extractions, batches and sizes of a key,
with failures of the key service and the shelf or without:

| theorem | argument |
|---|---|
| `PoolsAreWhole` | `PoolInv`: the shelf, and every copy an extraction will still cut from, is a non-empty list of different keys of batches so far, of which only the last may be empty; `RemainingPool` says that cutting keeps that. |
| `PoolsHoldKeys` | follows. |
| `MasksAreOneTime` | `SpentInv`: every list that is still to be cut from is past the masks of undisturbed extractions; `OwnInv` and `DifferInv`: the masks of one are different, and differ from those of the others. An undisturbed extraction that is at work is alone, so the list it cuts from goes back to the shelf before any other reads it. |

`PathSetupProofs`, for paths of any length, any addresses, and hosts with any
interfaces:

| theorem | argument |
|---|---|
| `SetupInvariant` | `IInv`: what is described, linked and built so far. Linking writes the addresses of a node from its neighbours' fields that were just written, and the invariant shows that where a node listens is rewritten with itself; `ReadBack` and `CreatedNode` show what a host gets from a configuration that leaves out what is None. |
| `NodesAreRight` | the identifier the host computes is that of the listening address, which linking left alone; the type follows from `status` and `validator`. |
| `NeighboursAlwaysMeet` | follows from the links and the masks in `IInv`. |
| `NamesakesOnly` | `LastsInv` and `PlacedInv`: the dictionary holds exactly the positions without a later namesake, each once, so the configuration loop builds exactly those. |

`ControllerProofs`, for any number of requests, paths and lines. It proves about
two modules, `ControllerStart` and the `ResultFile` of the paths:

| theorem | argument |
|---|---|
| `StartInvariant` | `Alone`: without a race one request at a time constructs, and only before an instance is stored, so that there is one controller; `Created`: whatever a request asks for was created before and is in that controller unless it was deleted. |
| `PathsAreAlwaysFound` | follows, since a request uses a controller that was built (`Stored`). |
| `ReportsAlwaysArrive` | the controller that serves has the port of the metrics (`Served`), which is one; without a race all controllers are one (`OneBuilt`). |
| `OneControllerStays` | races included: once an instance is stored, every request that tests finds it. |
| `LatestSurvives`, `OlderErased` | `FileInv`: only flushed lines were written, and whoever can write is the latest path or was there before it (`Writers`); `FileAfterPut` says line by line what a flush leaves in the file. |

`PathDeploymentProofs`, for any number of paths, clients, hosts and faults, and
routes of any length. One invariant, `IInv`, carries all five theorems:
`Requested` and `Kept` say who works on a path when (a DELETE only after the
POST was answered, so that no node is created while another request removes
it); `Marked` and `Accounted` that a profile on a host belongs to a position
`operative` marks, or was not acknowledged; `Swept` that what a removal has
passed is gone and stays so.

| theorem | argument |
|---|---|
| `TypesHold` | with `TypeOK`, which bounds every loop by the length of its route. |
| `ForgottenIsClean` | a removal that reached its end has swept every marked position, and by `Accounted` no other profile is left (`Forgotten`); what runs has a profile. |
| `OperativeIsDeployed` | `Built`: positions before the loop of `create_path` are deployed, and remain so until somebody asks to delete the path; `Fresh`: at most the positions before the loop have a profile, so that a refused one is not the trace of an earlier attempt. |
| `FailedCreateIsUndone` | `Undoable`: no rollback without a fault, and after the first one the rollback of a UDP path over different hosts finds every node it asks for, so it does not fail itself. |
| `WhatRunsIsKnown` | inductive with `Placed`: what runs is a position of a route. |

`NodeLifeProofs`, for any number of nodes of a host, any protocols and a buffer
of any size:

| theorem | argument |
|---|---|
| `KeptServe` | `Building`: until its creation is answered a node is bound and nobody stops it; `Serves`: only `terminate` clears the flag and closes the socket, so that the loop of a kept node is going, wherever it is, unless an error ended it; a loop that met one is dead, and the thread of a node is started once. |
| `ListedHaveProfiles` | `Listed`, with the node that is being started as the exception while a change is handled. |
| `SamplersAreStoppable` | `Stoppable`: which steps of `handle_packet` a generator that goes on can meet; `destroy_node` and the creation that is given up tell it to stop before they forget it. |

`DataPlaneProofs`, for any number of packets, copies and nodes, counters and
reports of any width:

| theorem | argument |
|---|---|
| `OverflowsAreRaces` | `Alone`: a copy that is not in `overlapped` numbers alone, so the counter it tested is the one it returns. |
| `ReportsHaveNoHoles` | `Ahead` and `Behind`: a copy, or the one it was made of, has passed every node before under its number; `Told` ties reports to the threads that made them and refused ones to their width. |
| `NumbersDiffer` | `Counted`: since an undisturbed copy got its number the counter, and every racing thread's idea of it, has moved on by at most one for each copy that stored after it (`Drift`; a set of copies is the witness, since races make the counter repeat). Reaching that number again takes a turn of the whole counter. |

`NumbersDiffer` assumes `Few`: there are not more copies of packets than
numbers. With more, numbers have to repeat; the other two theorems do not need
it.

`TransitProofs`, for paths of any length, any primes, points and secrets, and
any errors and alterations:

| theorem | argument |
|---|---|
| `WayIsRight` | `IInv`: the parameters of a path that is used are right (`Parameters`), what a packet carries is what was reported and drawn, up to alterations (`Carried`), and each report is the share or the error of its node (`Told`). |
| `UnalteredHolds` | `HonestNode`, from node to node, shows that the reports are the values of honest nodes, and `HonestAddUp` that these end, modulo the prime, in the secret. |
| `SingleErrorHolds` | `OneErrorMoves`: one error moves the last value by the coefficient of its node and one. |
| `RejectedHolds` | if nothing is found wrong the last report is the honest value, which verifies. |
| `BlameHolds` | `FirstDeviating`: the reports before the one that is blamed are right, so its node was given the right value. |

They rest on the coefficients adding up to 1 modulo the prime, `LpcsAddUp`. The
provers cannot apply induction over operators, but they can apply it to sets:
`LeastNumber`, every non-empty set of numbers has a least one, gives `Upwards`
(from position to position) and `SmallerFirst` (from sets of positions to larger
ones), by which sums and products over the nodes exist and are what the folds of
the model compute (`FoldIsProduct`). `InverseExists` is Bezout's argument: the
least positive combination of a number and a prime divides both, so
`ModInverse` is an inverse whenever the code does not draw again. This is where
`PrimesAssumption` is needed: what `getPrime(16)` returns is prime.
`Neville` relates the coefficients of a set of positions to those of the
set without one and without another of them, from which `BasesAddUp` follows by
`SmallerFirst`. The points differ because the denominators are invertible
(`PointsApart`), not by assumption.

Only model-checked: liveness (`HandlersEnd`, `SuccessIsReported`,
`OldKeysAreReplaced`, `PathsAreDeleted`, `StoppedNodesEnd`, `LogServerComesUp`),
since fairness and ENABLED are outside the prover. Every other property of the
passing runs is the subject of a theorem.

## 5. Not modelled, and the plan

Not modelled for good: parameters and ini files, the logging set-up, generated
gRPC code, the command line, samples, images; XML and answer bodies; code that
nothing calls (`update_status` of a path, `create_node_command`, both
`update_masks`, four functions of `lagrange.py`, the `terminate` of the
controller, of the mask manager and of the node controller). Packet threads of a
TCP node are not modelled: they forward by connecting the socket the node
listens on, which raises, so no packet crosses one.

That points are drawn until all differ makes the draw of a path with more than a
hundred nodes endless; the draws are random, not fair, so no liveness property
can say that a shorter one ends. `Transit` checks that repeated draws leave
right parameters.

Next: an abstract specification of a path's life (asked for, deployed, gone)
that `PathDeployment` implements.

## 6. Running

    tlc -config FlowConcurrent.cfg MCFlowTracking   # FlowPackets, FlowDestroy, FlowFailRace
    tlc -config ResultFile.cfg MCResultFile
    tlc -config MaskConcurrent.cfg MCMaskPool
    tlc -config PathSetup.cfg MCPathSetup
    tlc -config DeployFaults.cfg MCPathDeployment
    tlc -config NodeLife.cfg MCNodeLife
    tlc -config DataPlane.cfg MCDataPlane
    tlc -config Transit.cfg MCTransit
    tlc -config ControllerStart.cfg MCControllerStart
    tlapm FlowTrackingProofs.tla   # MaskPoolProofs, PathDeploymentProofs, ...
