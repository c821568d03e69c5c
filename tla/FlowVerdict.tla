---------------------------- MODULE FlowVerdict ----------------------------
(***************************************************************************)
(* What flow tracking promises, whatever its handlers do to each other:    *)
(* the reports of a flow are collected in any order, the egress node may   *)
(* vouch for it, and only when the reports of all nodes are there is the   *)
(* flow judged, a success only if it was vouched for; what is published is *)
(* the judgement of the moment.  Races may judge a flow more than once.    *)
(* FlowTracking implements this.                                           *)
(***************************************************************************)
CONSTANTS Flows, Nodes

VARIABLES collected,   \* the nodes that reported, by flow
          vouched,     \* flows of which the egress node verified a packet
          status,      \* Not Finished, Successful or Fail
          published    \* the verdicts sent out, by flow

vars == <<collected, vouched, status, published>>

Init == /\ collected = [f \in Flows |-> {}]
        /\ vouched = {}
        /\ status = [f \in Flows |-> "Not Finished"]
        /\ published = [f \in Flows |-> {}]

Collect(f, n) ==
    /\ n \notin collected[f]
    /\ collected' = [collected EXCEPT ![f] = @ \cup {n}]
    /\ UNCHANGED <<vouched, status, published>>

Vouch(f) ==
    /\ vouched' = vouched \cup {f}
    /\ UNCHANGED <<collected, status, published>>

Judge(f, s) ==
    /\ collected[f] = Nodes
    /\ s = "Successful" => f \in vouched
    /\ status' = [status EXCEPT ![f] = s]
    /\ UNCHANGED <<collected, vouched, published>>

Publish(f) ==
    /\ status[f] # "Not Finished"
    /\ published' = [published EXCEPT ![f] = @ \cup
                        {IF status[f] = "Successful" THEN "valid" ELSE "invalid"}]
    /\ UNCHANGED <<collected, vouched, status>>

Next == \E f \in Flows :
            \/ \E n \in Nodes : Collect(f, n)
            \/ Vouch(f)
            \/ \E s \in {"Successful", "Fail"} : Judge(f, s)
            \/ Publish(f)

Spec == Init /\ [][Next]_vars
=============================================================================
