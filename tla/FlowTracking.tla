---------------------------- MODULE FlowTracking ----------------------------
(***************************************************************************)
(* How the controller turns the reports of the nodes into one verdict per  *)
(* packet: LogListener.handleLog, OPoTPath.update_flow_status,             *)
(* FlowInfo.update_status and OPoTPath.send_to_kafka, run by the worker    *)
(* threads of the gRPC server, and the end of OPoTController.destroy_path, *)
(* which closes the result files and forgets the path under them.          *)
(*                                                                         *)
(* A call <<p, n>> is the report node n sends about packet p; a report     *)
(* that is lost is a call that is never dispatched.  Nothing locks a       *)
(* FlowInfo, so a handler is split at every read and every write of shared *)
(* state: the interpreter may switch threads there.                        *)
(***************************************************************************)
EXTENDS Naturals, FiniteSets

CONSTANTS Packets,      \* packets that cross the path
          Nodes,        \* nodes of the path, all of which report
          Ingress,      \* the node whose report carries the secret
          Egress,       \* the node whose report carries the verification
          Seqs,         \* sequence numbers
          MaxWorkers,   \* size of the gRPC thread pool
          Prometheus,   \* the path was created with the metrics on
          CanDestroy,   \* the path may be destroyed during the run
          None

ASSUME NodesAssumption == /\ Ingress \in Nodes
                          /\ Egress \in Nodes
                          /\ Ingress # Egress
                          /\ IsFiniteSet(Nodes)
ASSUME WorkersAssumption == MaxWorkers \in Nat \ {0}
ASSUME SwitchAssumption == Prometheus \in BOOLEAN /\ CanDestroy \in BOOLEAN
ASSUME NoneAssumption == None \notin Packets /\ None \notin Packets \X Nodes

Calls == Packets \X Nodes
Verdicts == {"valid", "invalid"}

\* The values a flow's status takes; the code never assigns ERROR.
FlowStatus == {"Not Finished", "Successful", "Fail"}

(***************************************************************************)
(* entries is status_information, by node; secret says whether a secret is *)
(* known; stamped that timestamps is not empty; timed that duration is no   *)
(* longer None.                                                            *)
(***************************************************************************)
FlowInfo == [entries : [Nodes -> Packets \cup {None}],
             secret  : BOOLEAN,
             valid   : Verdicts \cup {"none"},
             status  : FlowStatus,
             stamped : BOOLEAN,
             timed   : BOOLEAN]

\* Faulty variant: a new flow starts in FlowStatus.ERROR.
NewFlowInError == [entries |-> [n \in Nodes |-> None],
                   secret  |-> FALSE,
                   valid   |-> "none",
                   status  |-> "Error",
                   stamped |-> FALSE,
                   timed   |-> FALSE]

NewFlow == [entries |-> [n \in Nodes |-> None],
            secret  |-> FALSE,
            valid   |-> "none",
            status  |-> "Not Finished",
            stamped |-> FALSE,
            timed   |-> FALSE]

VARIABLES
    seqOf,        \* the sequence number the ingress node gave each packet
    verdict,      \* what the egress node found for each packet
    pc,           \* the next step of each handler
    ref,          \* its local flow_status: the FlowInfo it works on
    branch,       \* the branch of update_flow_status it took
    paths,        \* the path is still in OPoTController.paths
    openFiles,    \* the result files that are still open
    flow_status,  \* OPoTPath.flow_status, by sequence number
    info,         \* the FlowInfo objects, named by the call that creates them
    lock,         \* locker_v and locker_i
    kafka,        \* the record each handler sent to Kafka
    overlapped    \* history: numbers whose handlers ever ran side by side

world == <<seqOf, verdict>>
local == <<ref, branch>>
destroying == <<paths, openFiles>>
vars == <<world, pc, local, destroying, flow_status, info, lock, kafka,
          overlapped>>

Labels == {"queued", "lookup", "check", "create", "fetch", "guard",
           "nodeCheck", "store", "secretCheck", "secretSet", "validCheck",
           "validSet", "stamp", "settle", "evaluate", "succeed", "fail",
           "duration", "branchOk", "branchFail", "acquire", "write", "metric", "locate",
           "publish", "done", "failed"}
Ended == {"done", "failed"}

SeqOf(c) == seqOf[c[1]]
Flow(c) == info[ref[c]]
Active == {c \in Calls : pc[c] \notin Ended \cup {"queued"}}
Complete(flow) == \A n \in Nodes : flow.entries[n] # None

(***************************************************************************)
(* What a report carries: OPoTLog has a secret only from the ingress node  *)
(* and a valid only from the egress node; the other reports hold None.     *)
(***************************************************************************)
SecretOf(c) == c[2] = Ingress
\* Faulty variant: a report without a verification counts as verified.
ValidByDefault(c) == IF c[2] # Egress \/ verdict[c[1]] THEN "valid"
                     ELSE "invalid"

ValidOf(c) == IF c[2] # Egress THEN "none"
              ELSE IF verdict[c[1]] THEN "valid" ELSE "invalid"

Init == /\ seqOf \in [Packets -> Seqs]
        /\ verdict \in [Packets -> BOOLEAN]
        /\ pc = [c \in Calls |-> "queued"]
        /\ ref = [c \in Calls |-> None]
        /\ branch = [c \in Calls |-> "valid"]
        /\ paths = TRUE
        /\ openFiles = Verdicts
        /\ flow_status = [s \in Seqs |-> None]
        /\ info = [c \in Calls |-> NewFlow]
        /\ lock = [k \in Verdicts |-> None]
        /\ kafka = [c \in Calls |-> "none"]
        /\ overlapped = {}

-----------------------------------------------------------------------------
(* Control flow of a handler *)

Goto(c, from, to) == pc[c] = from /\ pc' = [pc EXCEPT ![c] = to]

\* A step that only tests shared state and decides where to go.
Branch(c, from, test, yes, no) ==
    /\ Goto(c, from, IF test THEN yes ELSE no)
    /\ UNCHANGED <<world, local, destroying, flow_status, info, lock, kafka,
                   overlapped>>

\* A step that writes the FlowInfo the handler holds.
Update(c, from, flow, to) ==
    /\ Goto(c, from, to)
    /\ info' = [info EXCEPT ![ref[c]] = flow]
    /\ UNCHANGED <<world, local, destroying, flow_status, lock, kafka,
                   overlapped>>

(***************************************************************************)
(* A free worker of the thread pool takes the call.                        *)
(***************************************************************************)
Dispatch(c) ==
    /\ Cardinality(Active) < MaxWorkers
    /\ Goto(c, "queued", "lookup")
    /\ overlapped' = IF \E d \in Active : SeqOf(d) = SeqOf(c)
                     THEN overlapped \cup {SeqOf(c)} ELSE overlapped
    /\ UNCHANGED <<world, local, destroying, flow_status, info, lock, kafka>>

\* handleLog: self.paths[path_id], a KeyError once the path was popped.
HandleLog(c) == Branch(c, "lookup", paths, "check", "failed")

(***************************************************************************)
(* update_flow_status: find or create the FlowInfo of the number.          *)
(***************************************************************************)
Known(c) == flow_status[SeqOf(c)] # None

CheckFlow(c) == Branch(c, "check", Known(c), "fetch", "create")

CreateFlow(c) ==
    /\ Goto(c, "create", "fetch")
    /\ flow_status' = [flow_status EXCEPT ![SeqOf(c)] = c]
    /\ UNCHANGED <<world, local, destroying, info, lock, kafka, overlapped>>

FetchFlow(c) ==
    /\ Goto(c, "fetch", "guard")
    /\ ref' = [ref EXCEPT ![c] = flow_status[SeqOf(c)]]
    /\ UNCHANGED <<world, branch, destroying, flow_status, info, lock,
                   kafka, overlapped>>

(***************************************************************************)
(* FlowInfo.update_status: store the report unless the flow is complete or *)
(* the node has reported, keep the first secret and the first valid seen.  *)
(***************************************************************************)
Guard(c) == Branch(c, "guard", ~Complete(Flow(c)), "nodeCheck", "settle")

NodeCheck(c) ==
    Branch(c, "nodeCheck", Flow(c).entries[c[2]] = None, "store", "settle")

Store(c) ==
    Update(c, "store", [Flow(c) EXCEPT !.entries[c[2]] = c[1]], "secretCheck")

SecretCheck(c) ==
    Branch(c, "secretCheck", ~Flow(c).secret, "secretSet", "validCheck")

SecretSet(c) ==
    Update(c, "secretSet", [Flow(c) EXCEPT !.secret = SecretOf(c)],
           "validCheck")

\* Faulty variant: the last valid seen is kept, not the first.
ValidAlwaysSet(c) == Branch(c, "validCheck", TRUE, "validSet", "stamp")

ValidCheck(c) ==
    Branch(c, "validCheck", Flow(c).valid = "none", "validSet", "stamp")

ValidSet(c) ==
    Update(c, "validSet", [Flow(c) EXCEPT !.valid = ValidOf(c)], "stamp")

\* Faulty variant: a stored report reopens the flow.
StampReopens(c) ==
    Update(c, "stamp", [Flow(c) EXCEPT !.stamped = TRUE,
                                       !.status = "Not Finished"], "settle")

Stamp(c) ==
    Update(c, "stamp", [Flow(c) EXCEPT !.stamped = TRUE], "settle")

\* Faulty variant: one report too few is enough.
SettleOneShort(c) ==
    Branch(c, "settle",
           \E m \in Nodes : \A n \in Nodes \ {m} : Flow(c).entries[n] # None,
           "evaluate", "branchOk")

(***************************************************************************)
(* FlowInfo.update_status, second half: once every node has reported the   *)
(* status is valid's truth value; None counts as false.                    *)
(***************************************************************************)
Settle(c) == Branch(c, "settle", Complete(Flow(c)), "evaluate", "branchOk")

\* Faulty variant: any valid that is not None counts as true.
EvaluateNotNone(c) ==
    Branch(c, "evaluate", Flow(c).valid # "none", "succeed", "fail")

\* The truth value is read here and stored by the next step.
Evaluate(c) ==
    Branch(c, "evaluate", Flow(c).valid = "valid", "succeed", "fail")

SetStatus(c, from, status) ==
    Update(c, from, [Flow(c) EXCEPT !.status = status], "duration")

Assign(c) == \/ SetStatus(c, "succeed", "Successful")
             \/ SetStatus(c, "fail", "Fail")

\* min and max of an empty list raise a ValueError.
Duration(c) ==
    /\ pc[c] = "duration"
    /\ \/ /\ Flow(c).stamped
          /\ Update(c, "duration", [Flow(c) EXCEPT !.timed = TRUE],
                    "branchOk")
       \/ /\ ~Flow(c).stamped
          /\ Branch(c, "duration", FALSE, "branchOk", "failed")

(***************************************************************************)
(* update_flow_status: the status is read again, once for each branch.     *)
(***************************************************************************)
Enter(c, from, status, kind, otherwise) ==
    /\ pc[c] = from
    /\ \/ /\ Flow(c).status = status
          /\ Goto(c, from, "acquire")
          /\ branch' = [branch EXCEPT ![c] = kind]
          /\ UNCHANGED <<world, ref, destroying, flow_status, info,
                         lock, kafka, overlapped>>
       \/ /\ Flow(c).status # status
          /\ Branch(c, from, FALSE, "acquire", otherwise)

BranchOk(c) == Enter(c, "branchOk", "Successful", "valid", "branchFail")
BranchFail(c) == Enter(c, "branchFail", "Fail", "invalid", "done")

SetLock(c, holder) ==
    /\ lock' = [lock EXCEPT ![branch[c]] = holder]
    /\ UNCHANGED <<world, local, destroying, flow_status, info, kafka,
                   overlapped>>

Acquire(c) ==
    /\ Goto(c, "acquire", "write")
    /\ lock[branch[c]] = None
    /\ SetLock(c, c)

\* Faulty variant: the lock is not released.
WriteWithoutRelease(c) ==
    Branch(c, "write", branch[c] \in openFiles, "metric", "failed")

(***************************************************************************)
(* The line is written and the lock released; write on a closed file       *)
(* raises a ValueError between acquire and release, and the lock stays.    *)
(***************************************************************************)
Write(c) ==
    \/ /\ branch[c] \in openFiles
       /\ Goto(c, "write", "metric")
       /\ SetLock(c, None)
    \/ /\ branch[c] \notin openFiles
       /\ Branch(c, "write", FALSE, "metric", "failed")

\* Faulty variant: the error is located for every settled flow.
MetricThenLocate(c) ==
    Branch(c, "metric", Prometheus => Flow(c).timed, "locate", "failed")

\* A Prometheus gauge refuses a duration that is still None.
Metric(c) ==
    Branch(c, "metric", Prometheus => Flow(c).timed,
           IF branch[c] = "valid" THEN "publish" ELSE "locate", "failed")

\* locate_error multiplies with the secret: a TypeError when it is None.
LocateError(c) == Branch(c, "locate", Flow(c).secret, "publish", "failed")

\* send_to_kafka reads the status once more to fill in valid.
Reported(flow) == IF flow.status = "Successful" THEN "valid" ELSE "invalid"

\* Faulty variant: the record follows the branch, not the status.
SendByBranch(c) ==
    /\ Goto(c, "publish", "done")
    /\ kafka' = [kafka EXCEPT ![c] = branch[c]]
    /\ UNCHANGED <<world, local, destroying, flow_status, info, lock,
                   overlapped>>

SendToKafka(c) ==
    /\ Goto(c, "publish", "done")
    /\ kafka' = [kafka EXCEPT ![c] = Reported(Flow(c))]
    /\ UNCHANGED <<world, local, destroying, flow_status, info, lock,
                   overlapped>>

Handle(c) == \/ HandleLog(c)   \/ CheckFlow(c)  \/ CreateFlow(c)
             \/ FetchFlow(c)   \/ Guard(c)      \/ NodeCheck(c)
             \/ Store(c)       \/ SecretCheck(c) \/ SecretSet(c)
             \/ ValidCheck(c)  \/ ValidSet(c)   \/ Stamp(c)
             \/ Settle(c)      \/ Evaluate(c)   \/ Assign(c)
             \/ Duration(c)    \/ BranchOk(c)   \/ BranchFail(c)
             \/ Acquire(c)     \/ Write(c)      \/ Metric(c)
             \/ LocateError(c) \/ SendToKafka(c)

-----------------------------------------------------------------------------
(* The end of destroy_path, once the nodes are removed *)

CloseFile(kind, before) ==
    /\ CanDestroy
    /\ openFiles = before
    /\ openFiles' = openFiles \ {kind}
    /\ UNCHANGED <<world, pc, local, paths, flow_status, info, lock, kafka,
                   overlapped>>

CloseInvalid == CloseFile("invalid", Verdicts)
CloseValid == CloseFile("valid", {"valid"})

PopPath ==
    /\ paths /\ openFiles = {}
    /\ paths' = FALSE
    /\ UNCHANGED <<world, pc, local, openFiles, flow_status, info, lock,
                   kafka, overlapped>>

\* Every report handled and nothing left to do: not a deadlock.
Finished == /\ \A c \in Calls : pc[c] \in Ended
            /\ CanDestroy => ~paths
            /\ UNCHANGED vars

Next == \/ \E c \in Calls : Dispatch(c) \/ Handle(c)
        \/ CloseInvalid \/ CloseValid \/ PopPath
        \/ Finished

Spec == Init /\ [][Next]_vars

(***************************************************************************)
(* A worker that has taken a call runs it: the interpreter starves none of *)
(* its threads.  Nothing obliges a report to arrive.                       *)
(***************************************************************************)
FairSpec == Spec /\ \A c \in Calls : WF_vars(Handle(c))
-----------------------------------------------------------------------------
(* Properties *)

TypeOK == /\ seqOf \in [Packets -> Seqs]
          /\ verdict \in [Packets -> BOOLEAN]
          /\ pc \in [Calls -> Labels]
          /\ ref \in [Calls -> Calls \cup {None}]
          /\ branch \in [Calls -> Verdicts]
          /\ paths \in BOOLEAN
          /\ openFiles \in SUBSET Verdicts
          /\ flow_status \in [Seqs -> Calls \cup {None}]
          /\ info \in [Calls -> FlowInfo]
          /\ lock \in [Verdicts -> Calls \cup {None}]
          /\ kafka \in [Calls -> Verdicts \cup {"none"}]
          /\ overlapped \in SUBSET Seqs

\* The calls of a packet, and the packets whose number no other packet has.
CallsOf(p) == {p} \X Nodes
Unique(p) == \A q \in Packets \ {p} : seqOf[q] # seqOf[p]

\* A packet with number s for which the egress node found v, and whose egress
\* report was worked into flow object o.
Witness(o, s, v) ==
    \E p \in Packets :
        seqOf[p] = s /\ verdict[p] = v /\ ref[<<p, Egress>>] = o

(***************************************************************************)
(* No flow is settled, and nothing about it is sent to Kafka, before every *)
(* node of the path has reported, in whatever order and however many       *)
(* handlers run at once (update_status compares number_of_nodes with the   *)
(* reports it holds, update_flow_status acts on the status alone).         *)
(***************************************************************************)
NoEarlyVerdict ==
    \A c \in Calls :
        /\ info[c].status # "Not Finished" => Complete(info[c])
        /\ kafka[c] # "none" => ref[c] \in Calls /\ Complete(Flow(c))

(***************************************************************************)
(* A flow is called successful, in its status or in Kafka, only when the   *)
(* egress node verified a packet of its number and reported that to this   *)
(* very flow, whatever the races on secret, valid and status do.           *)
(***************************************************************************)
SuccessIsSound ==
    \A c \in Calls :
        /\ info[c].status = "Successful" => Witness(c, SeqOf(c), TRUE)
        /\ kafka[c] = "valid" => Witness(ref[c], SeqOf(c), TRUE)

(***************************************************************************)
(* Handlers that run one after the other get it right in every order of    *)
(* arrival: when all reports of a packet with a number of its own were     *)
(* handled, with the path still there and its handlers never side by side, *)
(* exactly one record was sent, it carries the egress node's verdict, and  *)
(* the flow's status agrees with it.  Handlers of other numbers may        *)
(* interleave freely.                                                      *)
(***************************************************************************)
SequentialVerdictIsExact ==
    \A p \in Packets :
        (/\ Unique(p) /\ seqOf[p] \notin overlapped
         /\ openFiles = Verdicts
         /\ \A c \in CallsOf(p) : pc[c] \in Ended) =>
            LET sent == {c \in CallsOf(p) : kafka[c] # "none"}
                v == IF verdict[p] THEN "valid" ELSE "invalid"
            IN  /\ Cardinality(sent) = 1
                /\ \A c \in sent : kafka[c] = v
                /\ Reported(info[flow_status[seqOf[p]]]) = v

(***************************************************************************)
(* locker_v and locker_i: a handler between acquire and release holds the  *)
(* lock alone, and a lock is left behind by a handler that ended only when *)
(* the file it protects was closed under it.                               *)
(***************************************************************************)
LockDiscipline ==
    \A k \in Verdicts :
        /\ \A c \in Calls : pc[c] = "write" /\ branch[c] = k => lock[k] = c
        /\ \A c \in Calls : lock[k] = c /\ pc[c] # "write" =>
                              pc[c] = "failed" /\ k \notin openFiles

(***************************************************************************)
(* A settled flow stays settled, with its duration, and a report that was  *)
(* stored is never dropped: no handler, however late, takes a flow object  *)
(* back to an earlier stage.                                               *)
(***************************************************************************)
FlowsOnlyAdvance ==
    [][\A c \in Calls :
        /\ info[c].status # "Not Finished" => info'[c].status # "Not Finished"
        /\ info[c].timed => info'[c].timed
        /\ \A n \in Nodes : info[c].entries[n] # None =>
                             info'[c].entries[n] # None]_vars

(***************************************************************************)
(* Every call a worker takes ends, so the pool gets the worker back,       *)
(* unless the result files are closed while the call runs.                 *)
(***************************************************************************)
HandlersEnd ==
    \A c \in Calls : pc[c] = "lookup" ~> (pc[c] \in Ended \/ openFiles # Verdicts)

(***************************************************************************)
(* A flow that became successful is reported: some handler sends a record  *)
(* for it, or its status was overwritten with a failure first, or a file   *)
(* was closed under the handlers.                                          *)
(***************************************************************************)
SuccessIsReported ==
    \A o \in Calls :
        info[o].status = "Successful" ~>
            \/ \E c \in Calls : ref[c] = o /\ kafka[c] # "none"
            \/ info[o].status = "Fail"
            \/ openFiles # Verdicts

-----------------------------------------------------------------------------
(* The abstract specification *)

Promise == INSTANCE FlowVerdict WITH
    Flows     <- Calls,
    collected <- [o \in Calls |-> {n \in Nodes : info[o].entries[n] # None}],
    vouched   <- {o \in Calls : Witness(o, SeqOf(o), TRUE)},
    status    <- [o \in Calls |-> info[o].status],
    published <- [o \in Calls |->
                    {kafka[c] : c \in {d \in Calls : ref[d] = o}} \ {"none"}]

(***************************************************************************)
(* The handlers implement FlowVerdict: every step of theirs is a step of   *)
(* the promise for some flow object, or invisible to it, however many run  *)
(* at once and whatever they overwrite.                                    *)
(***************************************************************************)
KeepsThePromise == Promise!Spec

-----------------------------------------------------------------------------
(* What a comment of the source says, and the races make false *)

(***************************************************************************)
(* FlowStatus.FAIL: "There was an error between the nodes and the          *)
(* verification of the master_secret has failed."                          *)
(***************************************************************************)
FailMeansVerificationFailed ==
    \A o \in Calls : info[o].status = "Fail" => Witness(o, SeqOf(o), FALSE)
=============================================================================
