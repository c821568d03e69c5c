----------------------------- MODULE DataPlane -----------------------------
(***************************************************************************)
(* Packets on their way through the nodes of a UDP path: GenericNode.run   *)
(* starts a thread for every datagram, which runs the node_functionality   *)
(* of IngressNode, MiddleNode or EgressNode: number it (ingress), forward  *)
(* it, report it.  Datagrams get lost, doubled and out of order.           *)
(*                                                                         *)
(* <<p, c>> is copy c of packet p; the sender sends copy 1, the network    *)
(* makes the others of it.  The counter self.seq has no lock, so each of   *)
(* its reads and writes is a step.  What the cumulative value does is the  *)
(* subject of Transit, how a node stops the subject of NodeLife.           *)
(***************************************************************************)
EXTENDS Naturals, FiniteSets

CONSTANTS Packets,
          MaxCopies,   \* bound on the copies of each packet
          N,           \* nodes of the path
          SeqMax,      \* the largest number the packet holds: 2^32 - 1
          ReportMax,   \* the largest number a report holds: 2^31 - 1
          Starts,      \* values the counter may have reached before
          CanStop      \* the nodes may be terminated during the run

ASSUME NodesAssumption == N \in Nat /\ N >= 2
ASSUME CopiesAssumption == MaxCopies \in [Packets -> Nat \ {0}]
ASSUME WidthAssumption == /\ SeqMax \in Nat /\ ReportMax \in Nat
                          /\ ReportMax <= SeqMax /\ Starts \subseteq 0..SeqMax
ASSUME SwitchAssumption == CanStop \in BOOLEAN

Nodes == 1..N
Copies == UNION {{p} \X (1..MaxCopies[p]) : p \in Packets}

VARIABLES
    step,      \* step of the thread of each copy at each node
    num,       \* the number a copy carries; at the ingress, local values
    seq,       \* IngressNode.seq
    socket,    \* open or closed, by node
    reports,   \* the reports that reached the controller
    overlapped \* history: copies whose numbering overlapped another one

vars == <<step, num, seq, socket, reports, overlapped>>

Numbering == {"load", "store", "test", "wrap", "return"}
Ended == {"reported", "unreported", "lost", "broken", "overflow", "refused"}

Init == /\ step = [t \in Copies |-> [k \in Nodes |->
                     IF t[2] = 1 /\ k = 1 THEN "wire" ELSE "none"]]
        /\ num = [t \in Copies |-> 0]
        /\ seq \in Starts
        /\ socket = [k \in Nodes |-> "open"]
        /\ reports = {}
        /\ overlapped = {}

Goto(t, k, from, to) == /\ step[t][k] = from
                        /\ step' = [step EXCEPT ![t][k] = to]

-----------------------------------------------------------------------------
(* The network *)

Lose(t, k) ==
    /\ Goto(t, k, "wire", "lost")
    /\ UNCHANGED <<num, seq, socket, reports, overlapped>>

Unused(t) == \A k \in Nodes : step[t][k] = "none"

Duplicate(p, c, k) ==
    LET t == <<p, 1>>   u == <<p, c>>
    IN  /\ step[t][k] = "wire"
        /\ Unused(u) /\ \A b \in 1..(c - 1) : ~Unused(<<p, b>>)
        /\ step' = [step EXCEPT ![u][k] = "wire"]
        /\ num' = [num EXCEPT ![u] = num[t]]
        /\ UNCHANGED <<seq, socket, reports, overlapped>>

-----------------------------------------------------------------------------
(* A thread at a node *)

Busy == {t \in Copies : step[t][1] \in Numbering}

\* run: the loop receives the datagram and starts a thread for it.
Receive(t, k) ==
    /\ socket[k] = "open"
    /\ Goto(t, k, "wire", IF k = 1 THEN "load" ELSE "forward")
    /\ overlapped' = IF k = 1 /\ Busy # {} THEN overlapped \cup Busy \cup {t}
                     ELSE overlapped
    /\ UNCHANGED <<num, seq, socket, reports>>

\* increase_sequence_number: self.seq = self.seq + 1 ...
LoadSeq(t) ==
    /\ Goto(t, 1, "load", "store")
    /\ num' = [num EXCEPT ![t] = seq]
    /\ UNCHANGED <<seq, socket, reports, overlapped>>

StoreSeq(t) ==
    /\ Goto(t, 1, "store", "test")
    /\ seq' = num[t] + 1
    /\ UNCHANGED <<num, socket, reports, overlapped>>

\* Faulty variant: the test lets one number too many through.
TestSeqOffByOne(t) ==
    /\ Goto(t, 1, "test", IF seq > SeqMax + 1 THEN "wrap" ELSE "return")
    /\ UNCHANGED <<num, seq, socket, reports, overlapped>>

\* ... if self.seq > 2 ** 32 - 1 ...
TestSeq(t) ==
    /\ Goto(t, 1, "test", IF seq > SeqMax THEN "wrap" ELSE "return")
    /\ UNCHANGED <<num, seq, socket, reports, overlapped>>

\* Faulty variant: the counter stays at its largest value.
WrapSaturates(t) ==
    /\ Goto(t, 1, "wrap", "return")
    /\ seq' = SeqMax
    /\ UNCHANGED <<num, socket, reports, overlapped>>

\* ... self.seq = 0 ...
WrapSeq(t) ==
    /\ Goto(t, 1, "wrap", "return")
    /\ seq' = 0
    /\ UNCHANGED <<num, socket, reports, overlapped>>

\* ... and return self.seq, which build_packet puts into four bytes.
ReturnSeq(t) ==
    /\ Goto(t, 1, "return", IF seq > SeqMax THEN "overflow" ELSE "forward")
    /\ num' = [num EXCEPT ![t] = seq]
    /\ UNCHANGED <<seq, socket, reports, overlapped>>

\* The datagram goes to the next node.  A closed socket raises, and nothing is
\* reported; only the egress node catches that, which sends to the receiver.
Forward(t, k) ==
    /\ step[t][k] = "forward"
    /\ step' = [step EXCEPT ![t] = [j \in Nodes |->
                   CASE j = k -> IF socket[k] = "closed" /\ k < N THEN "broken"
                                 ELSE "report"
                     [] j = k + 1 /\ socket[k] = "open" -> "wire"
                     [] OTHER -> step[t][j]]]
    /\ UNCHANGED <<num, seq, socket, reports, overlapped>>

\* Faulty variant: the ingress node reports self.seq, not the number it used.
ReportShared(t, k) ==
    /\ Goto(t, k, "report", "reported")
    /\ reports' = reports \cup
                  {[node |-> k, copy |-> t, seq |-> IF k = 1 THEN seq ELSE num[t]]}
    /\ UNCHANGED <<num, seq, socket, overlapped>>

\* send_opot_log: the call reaches the controller ...
Report(t, k) ==
    /\ num[t] <= ReportMax
    /\ Goto(t, k, "report", "reported")
    /\ reports' = reports \cup {[node |-> k, copy |-> t, seq |-> num[t]]}
    /\ UNCHANGED <<num, seq, socket, overlapped>>

\* ... or fails, or cannot be made: the number does not fit into an int32.
ReportFails(t, k) ==
    /\ Goto(t, k, "report", IF num[t] <= ReportMax THEN "unreported"
                            ELSE "refused")
    /\ UNCHANGED <<num, seq, socket, reports, overlapped>>

Thread(t, k) == \/ Forward(t, k) \/ Report(t, k) \/ ReportFails(t, k)
                \/ k = 1 /\ (\/ LoadSeq(t) \/ StoreSeq(t) \/ TestSeq(t)
                             \/ WrapSeq(t) \/ ReturnSeq(t))

-----------------------------------------------------------------------------
(* terminate, of any node *)

Close(k) ==
    /\ CanStop /\ socket[k] = "open"
    /\ socket' = [socket EXCEPT ![k] = "closed"]
    /\ UNCHANGED <<step, num, seq, reports, overlapped>>

\* Every thread has ended and nothing is under way: not a deadlock.
Finished == /\ \A t \in Copies, k \in Nodes : step[t][k] \in Ended \cup {"none"}
            /\ UNCHANGED vars

Next == \/ \E t \in Copies, k \in Nodes : Receive(t, k) \/ Thread(t, k) \/ Lose(t, k)
        \/ \E p \in Packets, k \in Nodes : \E c \in 2..MaxCopies[p] : Duplicate(p, c, k)
        \/ \E k \in Nodes : Close(k)
        \/ Finished

Spec == Init /\ [][Next]_vars

-----------------------------------------------------------------------------
(* Properties *)

\* The copy that crossed node k for t: itself, or the one it was made of.
Origin(t, k) == IF step[t][k] # "none" THEN t ELSE <<t[1], 1>>

Numbered(t) == step[t][1] \in {"forward", "report", "reported", "unreported",
                               "broken", "refused"}

(***************************************************************************)
(* Packets the ingress node numbers while no other thread is numbering     *)
(* get different numbers, whatever the threads that overlap do to the      *)
(* counter in between, also around its wrap (there are fewer packets than  *)
(* numbers): a race repeats numbers of the racing packets only.            *)
(***************************************************************************)
UndisturbedNumbersDiffer ==
    \A t, u \in Copies \ overlapped :
        t # u /\ Numbered(t) /\ Numbered(u) => num[t] # num[u]

(***************************************************************************)
(* A number that does not fit into the packet ("to avoid the overflow of   *)
(* the sequence field") is seen only by a thread that raced another one    *)
(* past the test; a packet that is numbered alone is never lost that way.  *)
(***************************************************************************)
OverflowIsARace ==
    \A t \in Copies : step[t][1] = "overflow" => t \in overlapped

(***************************************************************************)
(* A report tells of the whole way: every node before has reported the     *)
(* same packet under the same number, is about to, or its call failed.     *)
(* Neither the width of the report, nor closed sockets, nor duplicates     *)
(* leave a hole before a later report.                                     *)
(***************************************************************************)
ReportsTellTheWay ==
    \A r \in reports : \A j \in 1..(r.node - 1) :
        LET t == Origin(r.copy, j)
        IN  \/ [node |-> j, copy |-> t, seq |-> r.seq] \in reports
            \/ step[t][j] = "report" /\ num[t] = r.seq
            \/ step[t][j] = "unreported"
=============================================================================
