------------------------ MODULE FlowTrackingProofs ------------------------
(***************************************************************************)
(* Proofs about FlowTracking, for every number of packets, nodes, sequence *)
(* numbers and workers.                                                    *)
(***************************************************************************)
EXTENDS FlowTracking, TLAPS, FiniteSetTheorems

-----------------------------------------------------------------------------
(* Types *)

LEMMA NewFlowType == NewFlow \in FlowInfo
  BY DEF NewFlow, FlowInfo, FlowStatus

LEMMA InitType == Init => TypeOK
  BY NewFlowType DEF Init, TypeOK, Labels, Verdicts

\* Storing a FlowInfo in the object a handler holds keeps the types.
LEMMA UpdateType ==
    ASSUME TypeOK, NEW c \in Calls, NEW from, NEW to \in Labels,
           NEW flow \in FlowInfo, ref[c] \in Calls, Update(c, from, flow, to)
    PROVE  TypeOK'
  BY DEF Update, Goto, TypeOK, world, local, destroying

LEMMA BranchType ==
    ASSUME TypeOK, NEW c \in Calls, NEW from, NEW test,
           NEW yes \in Labels, NEW no \in Labels,
           Branch(c, from, test, yes, no)
    PROVE  TypeOK'
  BY DEF Branch, Goto, TypeOK, world, local, destroying

-----------------------------------------------------------------------------
(* A handler has its FlowInfo from the step after FetchFlow to its end *)

Before == {"queued", "lookup", "check", "create", "fetch"}
Holding == Labels \ (Before \cup {"failed"})

RefInv ==
    \A c \in Calls :
        /\ pc[c] \in Before => ref[c] = None
        /\ pc[c] \in Holding => ref[c] \in Calls
        /\ pc[c] = "fetch" => flow_status[SeqOf(c)] \in Calls

LEMMA RefStep ==
    ASSUME TypeOK, RefInv, [Next]_vars
    PROVE  RefInv'
  <1> USE NoneAssumption DEF TypeOK, RefInv, Before, Holding, Labels, SeqOf,
          Calls, Goto, world, local, destroying
  <1>1. ASSUME NEW c \in Calls, Dispatch(c) PROVE RefInv'
    BY <1>1 DEF Dispatch
  <1>2. ASSUME NEW c \in Calls, HandleLog(c) PROVE RefInv'
    BY <1>2 DEF HandleLog, Branch
  <1>3. ASSUME NEW c \in Calls, CheckFlow(c) PROVE RefInv'
    BY <1>3 DEF CheckFlow, Branch, Known
  <1>4. ASSUME NEW c \in Calls, CreateFlow(c) PROVE RefInv'
    BY <1>4 DEF CreateFlow
  <1>5. ASSUME NEW c \in Calls, FetchFlow(c) PROVE RefInv'
    BY <1>5 DEF FetchFlow
  <1>6. ASSUME NEW c \in Calls, Guard(c) PROVE RefInv'
    BY <1>6 DEF Guard, Branch
  <1>7. ASSUME NEW c \in Calls, NodeCheck(c) PROVE RefInv'
    BY <1>7 DEF NodeCheck, Branch
  <1>8. ASSUME NEW c \in Calls, Store(c) PROVE RefInv'
    BY <1>8 DEF Store, Update
  <1>9. ASSUME NEW c \in Calls, SecretCheck(c) PROVE RefInv'
    BY <1>9 DEF SecretCheck, Branch
  <1>10. ASSUME NEW c \in Calls, SecretSet(c) PROVE RefInv'
    BY <1>10 DEF SecretSet, Update
  <1>11. ASSUME NEW c \in Calls, ValidCheck(c) PROVE RefInv'
    BY <1>11 DEF ValidCheck, Branch
  <1>12. ASSUME NEW c \in Calls, ValidSet(c) PROVE RefInv'
    BY <1>12 DEF ValidSet, Update
  <1>13. ASSUME NEW c \in Calls, Stamp(c) PROVE RefInv'
    BY <1>13 DEF Stamp, Update
  <1>14. ASSUME NEW c \in Calls, Settle(c) PROVE RefInv'
    BY <1>14 DEF Settle, Branch
  <1>15. ASSUME NEW c \in Calls, Evaluate(c) PROVE RefInv'
    BY <1>15 DEF Evaluate, Branch
  <1>16. ASSUME NEW c \in Calls, Assign(c) PROVE RefInv'
    BY <1>16 DEF Assign, SetStatus, Update
  <1>17. ASSUME NEW c \in Calls, Duration(c) PROVE RefInv'
    BY <1>17 DEF Duration, Update, Branch
  <1>18. ASSUME NEW c \in Calls, BranchOk(c) PROVE RefInv'
    BY <1>18, SMTT(30) DEF BranchOk, Enter, Branch
  <1>19. ASSUME NEW c \in Calls, BranchFail(c) PROVE RefInv'
    BY <1>19, SMTT(30) DEF BranchFail, Enter, Branch
  <1>20. ASSUME NEW c \in Calls, Acquire(c) PROVE RefInv'
    BY <1>20 DEF Acquire, SetLock
  <1>21. ASSUME NEW c \in Calls, Write(c) PROVE RefInv'
    BY <1>21 DEF Write, SetLock, Branch
  <1>22. ASSUME NEW c \in Calls, Metric(c) PROVE RefInv'
    BY <1>22 DEF Metric, Branch
  <1>23. ASSUME NEW c \in Calls, LocateError(c) PROVE RefInv'
    BY <1>23 DEF LocateError, Branch
  <1>24. ASSUME NEW c \in Calls, SendToKafka(c) PROVE RefInv'
    BY <1>24 DEF SendToKafka
  <1>25. ASSUME CloseInvalid \/ CloseValid \/ PopPath \/ UNCHANGED vars
          PROVE  RefInv'
    BY <1>25 DEF CloseInvalid, CloseValid, CloseFile, PopPath, vars
  <1> HIDE DEF TypeOK, RefInv, Before, Holding, Labels, SeqOf, Calls, Goto
  <1> QED
    BY <1>1, <1>2, <1>3, <1>4, <1>5, <1>6, <1>7, <1>8, <1>9, <1>10, <1>11,
       <1>12, <1>13, <1>14, <1>15, <1>16, <1>17, <1>18, <1>19, <1>20, <1>21,
       <1>22, <1>23, <1>24, <1>25
    DEF Next, Handle, Finished

-----------------------------------------------------------------------------
(* Every step keeps the types *)

LEMMA FlowType ==
    ASSUME TypeOK, RefInv, NEW c \in Calls, pc[c] \in Holding
    PROVE  /\ Flow(c) \in FlowInfo
           /\ ref[c] \in Calls
  BY DEF TypeOK, RefInv, Flow

LEMMA TypeStep ==
    ASSUME TypeOK, RefInv, [Next]_vars
    PROVE  TypeOK'
  <1>1. ASSUME NEW c \in Calls, Dispatch(c) PROVE TypeOK'
    BY <1>1
    DEF Dispatch, Goto, TypeOK, Labels, world, local, destroying, SeqOf, Calls
  <1>2. ASSUME NEW c \in Calls, HandleLog(c) PROVE TypeOK'
    BY <1>2, BranchType DEF HandleLog, Labels
  <1>3. ASSUME NEW c \in Calls, CheckFlow(c) PROVE TypeOK'
    BY <1>3, BranchType DEF CheckFlow, Labels
  <1>4. ASSUME NEW c \in Calls, CreateFlow(c) PROVE TypeOK'
    BY <1>4
    DEF CreateFlow, Goto, TypeOK, Labels, world, local, destroying, SeqOf
  <1>5. ASSUME NEW c \in Calls, FetchFlow(c) PROVE TypeOK'
    BY <1>5
    DEF FetchFlow, Goto, TypeOK, Labels, world, local, destroying, SeqOf, Calls
  <1>6. ASSUME NEW c \in Calls, Guard(c) PROVE TypeOK'
    BY <1>6, BranchType DEF Guard, Labels
  <1>7. ASSUME NEW c \in Calls, NodeCheck(c) PROVE TypeOK'
    BY <1>7, BranchType DEF NodeCheck, Labels
  <1>8. ASSUME NEW c \in Calls, Store(c) PROVE TypeOK'
    <2>1. Flow(c) \in FlowInfo /\ ref[c] \in Calls
      BY <1>8, FlowType DEF Store, Update, Goto, Holding, Before, Labels
    <2>2. [Flow(c) EXCEPT !.entries[c[2]] = c[1]] \in FlowInfo
      BY <2>1 DEF FlowInfo, FlowStatus, Calls
    <2> QED
      BY <1>8, <2>1, <2>2, UpdateType DEF Store, Labels
  <1>9. ASSUME NEW c \in Calls, SecretCheck(c) PROVE TypeOK'
    BY <1>9, BranchType DEF SecretCheck, Labels
  <1>10. ASSUME NEW c \in Calls, SecretSet(c) PROVE TypeOK'
    <2>1. Flow(c) \in FlowInfo /\ ref[c] \in Calls
      BY <1>10, FlowType DEF SecretSet, Update, Goto, Holding, Before, Labels
    <2>2. [Flow(c) EXCEPT !.secret = SecretOf(c)] \in FlowInfo
      BY <2>1 DEF FlowInfo, FlowStatus, SecretOf
    <2> QED
      BY <1>10, <2>1, <2>2, UpdateType DEF SecretSet, Labels
  <1>11. ASSUME NEW c \in Calls, ValidCheck(c) PROVE TypeOK'
    BY <1>11, BranchType DEF ValidCheck, Labels
  <1>12. ASSUME NEW c \in Calls, ValidSet(c) PROVE TypeOK'
    <2>1. Flow(c) \in FlowInfo /\ ref[c] \in Calls
      BY <1>12, FlowType DEF ValidSet, Update, Goto, Holding, Before, Labels
    <2>2. [Flow(c) EXCEPT !.valid = ValidOf(c)] \in FlowInfo
      BY <2>1 DEF FlowInfo, FlowStatus, ValidOf, Verdicts
    <2> QED
      BY <1>12, <2>1, <2>2, UpdateType DEF ValidSet, Labels
  <1>13. ASSUME NEW c \in Calls, Stamp(c) PROVE TypeOK'
    <2>1. Flow(c) \in FlowInfo /\ ref[c] \in Calls
      BY <1>13, FlowType DEF Stamp, Update, Goto, Holding, Before, Labels
    <2>2. [Flow(c) EXCEPT !.stamped = TRUE] \in FlowInfo
      BY <2>1 DEF FlowInfo, FlowStatus
    <2> QED
      BY <1>13, <2>1, <2>2, UpdateType DEF Stamp, Labels
  <1>14. ASSUME NEW c \in Calls, Settle(c) PROVE TypeOK'
    BY <1>14, BranchType DEF Settle, Labels
  <1>15. ASSUME NEW c \in Calls, Evaluate(c) PROVE TypeOK'
    BY <1>15, BranchType DEF Evaluate, Labels
  <1>16. ASSUME NEW c \in Calls, Assign(c) PROVE TypeOK'
    <2>1. Flow(c) \in FlowInfo /\ ref[c] \in Calls
      BY <1>16, FlowType
      DEF Assign, SetStatus, Update, Goto, Holding, Before, Labels
    <2>2. \A status \in {"Successful", "Fail"} :
              [Flow(c) EXCEPT !.status = status] \in FlowInfo
      BY <2>1 DEF FlowInfo, FlowStatus
    <2>3. CASE SetStatus(c, "succeed", "Successful")
      BY <2>1, <2>2, <2>3, UpdateType DEF SetStatus, Labels
    <2>4. CASE SetStatus(c, "fail", "Fail")
      BY <2>1, <2>2, <2>4, UpdateType DEF SetStatus, Labels
    <2> QED
      BY <1>16, <2>3, <2>4 DEF Assign
  <1>17. ASSUME NEW c \in Calls, Duration(c) PROVE TypeOK'
    <2>1. Flow(c) \in FlowInfo /\ ref[c] \in Calls
      BY <1>17, FlowType DEF Duration, Holding, Before, Labels
    <2>2. [Flow(c) EXCEPT !.timed = TRUE] \in FlowInfo
      BY <2>1 DEF FlowInfo, FlowStatus
    <2> QED
      BY <1>17, <2>1, <2>2, UpdateType, BranchType DEF Duration, Labels
  <1>18. ASSUME NEW c \in Calls, BranchOk(c) PROVE TypeOK'
    <2>1. CASE Flow(c).status = "Successful"
      BY <1>18, <2>1
      DEF BranchOk, Enter, Goto, TypeOK, Labels, Verdicts, world,
          destroying
    <2>2. CASE Flow(c).status # "Successful"
      BY <1>18, <2>2, BranchType DEF BranchOk, Enter, Labels
    <2> QED
      BY <2>1, <2>2
  <1>19. ASSUME NEW c \in Calls, BranchFail(c) PROVE TypeOK'
    <2>1. CASE Flow(c).status = "Fail"
      BY <1>19, <2>1
      DEF BranchFail, Enter, Goto, TypeOK, Labels, Verdicts, world,
          destroying
    <2>2. CASE Flow(c).status # "Fail"
      BY <1>19, <2>2, BranchType DEF BranchFail, Enter, Labels
    <2> QED
      BY <2>1, <2>2
  <1>20. ASSUME NEW c \in Calls, Acquire(c) PROVE TypeOK'
    BY <1>20
    DEF Acquire, Goto, TypeOK, Labels, world, local, destroying, SetLock
  <1>21. ASSUME NEW c \in Calls, Write(c) PROVE TypeOK'
    <2>1. CASE branch[c] \in openFiles
      BY <1>21, <2>1
      DEF Write, SetLock, Goto, TypeOK, Labels, world, local,
          destroying
    <2>2. CASE branch[c] \notin openFiles
      BY <1>21, <2>2, BranchType DEF Write, Labels
    <2> QED
      BY <2>1, <2>2
  <1>22. ASSUME NEW c \in Calls, Metric(c) PROVE TypeOK'
    BY <1>22, BranchType DEF Metric, Labels
  <1>23. ASSUME NEW c \in Calls, LocateError(c) PROVE TypeOK'
    BY <1>23, BranchType DEF LocateError, Labels
  <1>24. ASSUME NEW c \in Calls, SendToKafka(c) PROVE TypeOK'
    BY <1>24
    DEF SendToKafka, Goto, TypeOK, Labels, world, local, destroying, Reported, Verdicts
  <1>25. ASSUME CloseInvalid \/ CloseValid \/ PopPath \/ UNCHANGED vars
          PROVE  TypeOK'
    BY <1>25
    DEF CloseInvalid, CloseValid, CloseFile, PopPath, TypeOK, Verdicts, vars,
        world, local, destroying
  <1> QED
    BY <1>1, <1>2, <1>3, <1>4, <1>5, <1>6, <1>7, <1>8, <1>9, <1>10, <1>11,
       <1>12, <1>13, <1>14, <1>15, <1>16, <1>17, <1>18, <1>19, <1>20, <1>21,
       <1>22, <1>23, <1>24, <1>25
    DEF Next, Handle, Finished

(***************************************************************************)
(* The variables keep their types, and a handler its FlowInfo.             *)
(***************************************************************************)
THEOREM TypeCorrect == Spec => [](TypeOK /\ RefInv)
  <1>1. Init => TypeOK /\ RefInv
    BY InitType DEF Init, RefInv, Before, Holding, Labels
  <1>2. TypeOK /\ RefInv /\ [Next]_vars => (TypeOK /\ RefInv)'
    BY TypeStep, RefStep
  <1> QED
    BY <1>1, <1>2, PTL DEF Spec

-----------------------------------------------------------------------------
(* Flows only advance *)

\* The steps that write a FlowInfo.
WritesInfo(c) == \/ Store(c) \/ SecretSet(c) \/ ValidSet(c)
                 \/ Stamp(c) \/ Assign(c) \/ Duration(c)

LEMMA InfoWriters ==
    ASSUME [Next]_vars, NEW c \in Calls
    PROVE  info' = info \/ \E d \in Calls : WritesInfo(d)
  <1>1. ASSUME NEW d \in Calls, Handle(d)
        PROVE  info' = info \/ WritesInfo(d)
    BY <1>1
    DEF Handle, WritesInfo, HandleLog, CheckFlow, CreateFlow, FetchFlow, Guard,
        NodeCheck, SecretCheck, ValidCheck, Settle, Evaluate, BranchOk,
        BranchFail, Enter, Acquire, Write, SetLock, Metric, LocateError,
        SendToKafka, Branch
  <1>2. ASSUME NEW d \in Calls, Dispatch(d) PROVE info' = info
    BY <1>2 DEF Dispatch
  <1>3. ASSUME CloseInvalid \/ CloseValid \/ PopPath \/ UNCHANGED vars
        PROVE  info' = info
    BY <1>3 DEF CloseInvalid, CloseValid, CloseFile, PopPath, vars
  <1> QED
    BY <1>1, <1>2, <1>3 DEF Next, Finished

\* What a step may do to one flow object.
Advances(old, new) ==
    /\ old.status # "Not Finished" => new.status # "Not Finished"
    /\ old.timed => new.timed
    /\ \A n \in Nodes : old.entries[n] # None => new.entries[n] # None

LEMMA UpdateAdvances ==
    ASSUME TypeOK, NEW c \in Calls, ref[c] \in Calls, NEW from, NEW to,
           NEW flow, Update(c, from, flow, to), Advances(Flow(c), flow),
           NEW o \in Calls
    PROVE  Advances(info[o], info'[o])
  <1>1. info'[o] = IF o = ref[c] THEN flow ELSE info[o]
    BY DEF Update, TypeOK
  <1> QED
    BY <1>1 DEF Flow, Advances

LEMMA AdvanceStep ==
    ASSUME TypeOK, RefInv, [Next]_vars, NEW o \in Calls
    PROVE  Advances(info[o], info'[o])
  <1>1. CASE info' = info
    BY <1>1 DEF Advances
  <1>2. ASSUME NEW c \in Calls, WritesInfo(c)
        PROVE  Advances(info[o], info'[o])
    <2>1. Flow(c) \in FlowInfo /\ ref[c] \in Calls
      BY <1>2, FlowType
      DEF WritesInfo, Store, SecretSet, ValidSet, Stamp, Assign, SetStatus,
          Duration, Update, Goto, Holding, Before, Labels
    <2>2. CASE Store(c)
      <3>1. c[1] # None /\ c[2] \in Nodes
        BY NoneAssumption DEF Calls
      <3>2. Advances(Flow(c), [Flow(c) EXCEPT !.entries[c[2]] = c[1]])
        BY <2>1, <3>1 DEF FlowInfo, FlowStatus, Advances
      <3> QED
        BY <2>1, <2>2, <3>2, UpdateAdvances DEF Store
    <2>3. CASE SecretSet(c)
      <3>1. Advances(Flow(c), [Flow(c) EXCEPT !.secret = SecretOf(c)])
        BY <2>1 DEF FlowInfo, FlowStatus, Advances
      <3> QED
        BY <2>1, <2>3, <3>1, UpdateAdvances DEF SecretSet
    <2>4. CASE ValidSet(c)
      <3>1. Advances(Flow(c), [Flow(c) EXCEPT !.valid = ValidOf(c)])
        BY <2>1 DEF FlowInfo, FlowStatus, Advances
      <3> QED
        BY <2>1, <2>4, <3>1, UpdateAdvances DEF ValidSet
    <2>5. CASE Stamp(c)
      <3>1. Advances(Flow(c), [Flow(c) EXCEPT !.stamped = TRUE])
        BY <2>1 DEF FlowInfo, FlowStatus, Advances
      <3> QED
        BY <2>1, <2>5, <3>1, UpdateAdvances DEF Stamp
    <2>6. CASE Assign(c)
      <3>1. \A status \in {"Successful", "Fail"} :
                Advances(Flow(c), [Flow(c) EXCEPT !.status = status])
        BY <2>1 DEF FlowInfo, FlowStatus, Advances
      <3>2. CASE SetStatus(c, "succeed", "Successful")
        BY <2>1, <3>1, <3>2, UpdateAdvances DEF SetStatus
      <3>3. CASE SetStatus(c, "fail", "Fail")
        BY <2>1, <3>1, <3>3, UpdateAdvances DEF SetStatus
      <3> QED
        BY <2>6, <3>2, <3>3 DEF Assign
    <2>7. CASE Duration(c)
      <3>1. Advances(Flow(c), [Flow(c) EXCEPT !.timed = TRUE])
        BY <2>1 DEF FlowInfo, FlowStatus, Advances
      <3>2. CASE ~Flow(c).stamped
        <4>1. info' = info
          BY <2>7, <3>2 DEF Duration, Branch
        <4> QED
          BY <4>1 DEF Advances
      <3>3. CASE Flow(c).stamped
        BY <2>1, <2>7, <3>1, <3>3, UpdateAdvances DEF Duration
      <3> QED
        BY <3>2, <3>3
    <2> QED
      BY <1>2, <2>2, <2>3, <2>4, <2>5, <2>6, <2>7 DEF WritesInfo
  <1> QED
    BY <1>1, <1>2, InfoWriters

(***************************************************************************)
(* No handler takes a flow object back to an earlier stage.                *)
(***************************************************************************)
THEOREM FlowsAdvance == Spec => FlowsOnlyAdvance
  <1>1. ASSUME TypeOK /\ RefInv, [Next]_vars
        PROVE  [\A c \in Calls :
                  /\ info[c].status # "Not Finished" =>
                        info'[c].status # "Not Finished"
                  /\ info[c].timed => info'[c].timed
                  /\ \A n \in Nodes : info[c].entries[n] # None =>
                                       info'[c].entries[n] # None]_vars
    BY <1>1, AdvanceStep DEF Advances
  <1> QED
    BY <1>1, TypeCorrect, PTL DEF Spec, FlowsOnlyAdvance

-----------------------------------------------------------------------------
(* No verdict before every node has reported *)

\* Steps a handler reaches only with a complete flow.
Settling == {"evaluate", "succeed", "fail", "duration", "acquire", "write",
             "metric", "locate", "publish"}

EarlyInv ==
    \A c \in Calls :
        /\ info[c].status # "Not Finished" => Complete(info[c])
        /\ pc[c] \in Settling => Complete(Flow(c))
        /\ kafka[c] # "none" => pc[c] = "done" /\ Complete(Flow(c))

\* What never changes, and what changes only once.
LEMMA Stable ==
    ASSUME TypeOK, RefInv, [Next]_vars
    PROVE  /\ seqOf' = seqOf /\ verdict' = verdict
           /\ \A c \in Calls : ref[c] \in Calls => ref'[c] = ref[c]
  <1>1. ASSUME NEW d \in Calls, FetchFlow(d)
        PROVE  /\ seqOf' = seqOf /\ verdict' = verdict
               /\ \A c \in Calls : ref[c] \in Calls => ref'[c] = ref[c]
    BY <1>1, NoneAssumption
    DEF FetchFlow, Goto, TypeOK, RefInv, Before, Calls, world
  <1>2. ASSUME NEW d \in Calls, Dispatch(d) \/ Handle(d), ~FetchFlow(d)
        PROVE  seqOf' = seqOf /\ verdict' = verdict /\ ref' = ref
    BY <1>2
    DEF Dispatch, Handle, HandleLog, CheckFlow, CreateFlow, Guard, NodeCheck,
        Store, SecretCheck, SecretSet, ValidCheck, ValidSet, Stamp, Settle,
        Evaluate, Assign, SetStatus, Duration, BranchOk, BranchFail, Enter,
        Acquire, Write, SetLock, Metric, LocateError, SendToKafka, Branch, Update,
        world, local
  <1>3. ASSUME CloseInvalid \/ CloseValid \/ PopPath \/ UNCHANGED vars
        PROVE  seqOf' = seqOf /\ verdict' = verdict /\ ref' = ref
    BY <1>3 DEF CloseInvalid, CloseValid, CloseFile, PopPath, vars, world, local
  <1> QED
    BY <1>1, <1>2, <1>3 DEF Next, Finished

LEMMA CompleteStable ==
    ASSUME TypeOK, RefInv, [Next]_vars, NEW o \in Calls, Complete(info[o])
    PROVE  Complete(info'[o])
  BY AdvanceStep DEF Advances, Complete

\* A handler that holds a complete flow goes on holding one.
LEMMA HeldStable ==
    ASSUME TypeOK, RefInv, [Next]_vars, NEW c \in Calls, pc[c] \in Holding,
           Complete(Flow(c))
    PROVE  Complete(Flow(c))'
  BY Stable, CompleteStable DEF RefInv, Flow, Complete

LEMMA EarlyStep ==
    ASSUME TypeOK, RefInv, EarlyInv, [Next]_vars
    PROVE  EarlyInv'
  <1>1. \A o \in Calls : Complete(info[o]) => Complete(info'[o])
    BY CompleteStable
  <1>2. \A c \in Calls :
            pc[c] \in Settling \cup {"done"} /\ Complete(Flow(c)) =>
                Complete(Flow(c))'
    BY HeldStable DEF Settling, Holding, Before, Labels
  <1>3. ASSUME NEW o \in Calls, info'[o].status # "Not Finished"
        PROVE  Complete(info'[o])
    <2>1. CASE info[o].status # "Not Finished"
      BY <1>1, <2>1 DEF EarlyInv
    <2>2. ASSUME info[o].status = "Not Finished", NEW c \in Calls,
                 WritesInfo(c)
          PROVE  Complete(info'[o])
      <3>1. Flow(c) \in FlowInfo /\ ref[c] \in Calls
        BY <2>2, FlowType
        DEF WritesInfo, Store, SecretSet, ValidSet, Stamp, Assign, SetStatus,
            Duration, Update, Goto, Holding, Before, Labels
      <3>2. CASE Assign(c)
        <4>1. Complete(Flow(c))
          BY <3>2
          DEF Assign, SetStatus, Update, Goto, EarlyInv, Settling
        <4>2. CASE ref[c] = o
          BY <1>1, <4>1, <4>2 DEF Flow
        <4>3. CASE ref[c] # o
          BY <1>3, <2>2, <3>2, <4>3 DEF Assign, SetStatus, Update, TypeOK
        <4> QED
          BY <4>2, <4>3
      <3>3. CASE ~Assign(c)
        <4>1. ASSUME NEW flow, info' = [info EXCEPT ![ref[c]] = flow],
                     flow.status = Flow(c).status
              PROVE  info'[o].status = info[o].status
          BY <3>1, <4>1 DEF TypeOK, Flow
        <4>2. info'[o].status = info[o].status
          <5>1. CASE Store(c)
            BY <3>1, <4>1, <5>1 DEF Store, Update, FlowInfo, FlowStatus
          <5>2. CASE SecretSet(c)
            BY <3>1, <4>1, <5>2 DEF SecretSet, Update, FlowInfo, FlowStatus
          <5>3. CASE ValidSet(c)
            BY <3>1, <4>1, <5>3 DEF ValidSet, Update, FlowInfo, FlowStatus
          <5>4. CASE Stamp(c)
            BY <3>1, <4>1, <5>4 DEF Stamp, Update, FlowInfo, FlowStatus
          <5>5. CASE Duration(c)
            BY <3>1, <4>1, <5>5 DEF Duration, Update, Branch, FlowInfo, FlowStatus
          <5> QED
            BY <2>2, <3>3, <5>1, <5>2, <5>3, <5>4, <5>5 DEF WritesInfo
        <4> QED
          BY <1>3, <2>2, <4>2
      <3> QED
        BY <3>2, <3>3
    <2> QED
      BY <1>3, <2>1, <2>2, InfoWriters
  <1>4. ASSUME NEW c \in Calls, pc'[c] \in Settling
        PROVE  (Complete(Flow(c)) /\ pc[c] \in Settling \cup {"settle"})
               \/ /\ pc[c] \in {"branchOk", "branchFail"}
                  /\ Flow(c).status # "Not Finished"
    <2>1. ASSUME NEW d \in Calls, Handle(d) \/ Dispatch(d)
          PROVE  pc'[c] = pc[c] \/ d = c
      BY <2>1
      DEF Dispatch, Handle, HandleLog, CheckFlow, CreateFlow, FetchFlow, Guard,
          NodeCheck, Store, SecretCheck, SecretSet, ValidCheck, ValidSet,
          Stamp, Settle, Evaluate, Assign, SetStatus, Duration, BranchOk, BranchFail,
          Enter, Acquire, Write, SetLock, Metric, LocateError, SendToKafka,
          Branch, Update, Goto, TypeOK
    <2>2. CASE Settle(c) \/ BranchOk(c) \/ BranchFail(c)
      BY <1>4, <2>2
      DEF Settle, BranchOk, BranchFail, Enter, Branch, Goto, TypeOK, Settling
    <2>3. CASE /\ Handle(c) \/ Dispatch(c)
               /\ ~(Settle(c) \/ BranchOk(c) \/ BranchFail(c))
      <3>1. pc[c] \in Settling
        BY <1>4, <2>3
        DEF Dispatch, Handle, HandleLog, CheckFlow, CreateFlow, FetchFlow,
            Guard, NodeCheck, Store, SecretCheck, SecretSet, ValidCheck,
            ValidSet, Stamp, Evaluate, Assign, SetStatus, Duration, Acquire, Write,
            SetLock, Metric, LocateError, SendToKafka, Branch, Update, Goto,
            TypeOK, Settling
      <3> QED
        BY <3>1 DEF EarlyInv
    <2>4. CASE pc'[c] = pc[c]
      BY <1>4, <2>4 DEF EarlyInv
    <2>5. CASE CloseInvalid \/ CloseValid \/ PopPath \/ UNCHANGED vars
      BY <2>4, <2>5 DEF CloseInvalid, CloseValid, CloseFile, PopPath, vars
    <2> QED
      BY <2>1, <2>2, <2>3, <2>4, <2>5 DEF Next, Finished
  <1>5. ASSUME NEW c \in Calls, pc'[c] \in Settling
        PROVE  Complete(Flow(c))'
    <2>1. Complete(Flow(c)) /\ pc[c] \in Holding
      BY <1>4, <1>5, FlowType
      DEF EarlyInv, Flow, RefInv, Settling, Holding, Before, Labels
    <2> QED
      BY <2>1, HeldStable
  <1>6. ASSUME NEW c \in Calls, kafka'[c] # "none"
        PROVE  pc'[c] = "done" /\ Complete(Flow(c))'
    <2>1. \/ kafka'[c] = kafka[c] /\ (pc[c] = "done" => pc'[c] = "done")
          \/ SendToKafka(c)
      <3>1. ASSUME NEW d \in Calls, Handle(d) \/ Dispatch(d), ~SendToKafka(d)
            PROVE  kafka' = kafka /\ (pc[c] = "done" => pc'[c] = "done")
        BY <3>1
        DEF Dispatch, Handle, HandleLog, CheckFlow, CreateFlow, FetchFlow,
            Guard, NodeCheck, Store, SecretCheck, SecretSet, ValidCheck,
            ValidSet, Stamp, Settle, Evaluate, Assign, SetStatus, Duration, BranchOk,
            BranchFail, Enter, Acquire, Write, SetLock, Metric, LocateError,
            Branch, Update, Goto, TypeOK
      <3>2. ASSUME NEW d \in Calls, SendToKafka(d), d # c
            PROVE  kafka'[c] = kafka[c] /\ pc'[c] = pc[c]
        BY <3>2 DEF SendToKafka, Goto, TypeOK
      <3>3. ASSUME CloseInvalid \/ CloseValid \/ PopPath \/ UNCHANGED vars
            PROVE  kafka' = kafka /\ pc' = pc
        BY <3>3 DEF CloseInvalid, CloseValid, CloseFile, PopPath, vars
      <3> QED
        BY <3>1, <3>2, <3>3 DEF Next, Finished, Handle
    <2>2. CASE SendToKafka(c)
      <3>1. pc[c] = "publish" /\ pc'[c] = "done"
        BY <2>2 DEF SendToKafka, Goto, TypeOK
      <3> QED
        BY <1>2, <3>1 DEF EarlyInv, Settling
    <2>3. CASE kafka'[c] = kafka[c] /\ (pc[c] = "done" => pc'[c] = "done")
      BY <1>2, <1>6, <2>3 DEF EarlyInv
    <2> QED
      BY <2>1, <2>2, <2>3
  <1> QED
    BY <1>3, <1>5, <1>6 DEF EarlyInv, Complete

LEMMA EarlyInvariant == Spec => []EarlyInv
  <1>1. Init => EarlyInv
    <2>1. NewFlow.status = "Not Finished"
      BY DEF NewFlow
    <2> QED
      BY <2>1 DEF Init, EarlyInv, Settling
  <1>2. TypeOK /\ RefInv /\ EarlyInv /\ [Next]_vars => EarlyInv'
    BY EarlyStep
  <1> QED
    BY <1>1, <1>2, TypeCorrect, PTL DEF Spec

(***************************************************************************)
(* No status is settled and nothing is sent to Kafka before every node of  *)
(* the path has reported.                                                  *)
(***************************************************************************)
THEOREM VerdictsAreNotEarly == Spec => []NoEarlyVerdict
  <1>1. TypeOK /\ RefInv /\ EarlyInv => NoEarlyVerdict
    BY DEF EarlyInv, RefInv, NoEarlyVerdict, Holding, Before, Labels
  <1> QED
    BY <1>1, TypeCorrect, EarlyInvariant, PTL

-----------------------------------------------------------------------------
(* No success without a verification *)

SoundInv ==
    /\ \A s \in Seqs : flow_status[s] \in Calls => SeqOf(flow_status[s]) = s
    /\ \A c \in Calls : ref[c] \in Calls => SeqOf(ref[c]) = SeqOf(c)
    /\ \A o \in Calls :
          info[o].valid = "valid" \/ info[o].status = "Successful" =>
              Witness(o, SeqOf(o), TRUE)
    /\ \A c \in Calls :
          pc[c] = "succeed" => Witness(ref[c], SeqOf(c), TRUE)
    /\ \A c \in Calls :
          kafka[c] = "valid" => /\ ref[c] \in Calls
                                /\ Witness(ref[c], SeqOf(c), TRUE)

\* Which step writes what.
LEMMA Writers ==
    ASSUME TypeOK, [Next]_vars
    PROVE  /\ \/ flow_status' = flow_status
              \/ \E c \in Calls : CreateFlow(c)
           /\ \/ ref' = ref
              \/ \E c \in Calls : FetchFlow(c)
           /\ \/ kafka' = kafka
              \/ \E c \in Calls : SendToKafka(c)
           /\ \A c \in Calls : pc'[c] = "succeed" =>
                \/ pc[c] = "succeed"
                \/ Evaluate(c) /\ Flow(c).valid = "valid"
  <1>1. ASSUME NEW d \in Calls, Dispatch(d) \/ Handle(d),
               ~CreateFlow(d), ~FetchFlow(d), ~SendToKafka(d), ~Evaluate(d)
        PROVE  /\ UNCHANGED <<flow_status, ref, kafka>>
               /\ \A c \in Calls : pc'[c] = "succeed" => pc[c] = "succeed"
    BY <1>1
    DEF Dispatch, Handle, HandleLog, CheckFlow, Guard, NodeCheck, Store,
        SecretCheck, SecretSet, ValidCheck, ValidSet, Stamp, Settle, Assign,
        SetStatus, Duration, BranchOk, BranchFail, Enter, Acquire, Write, SetLock, Metric,
        LocateError, Branch, Update, Goto, local, TypeOK
  <1>2. ASSUME NEW d \in Calls, CreateFlow(d)
        PROVE  /\ UNCHANGED <<ref, kafka>>
               /\ \A c \in Calls : pc'[c] = "succeed" => pc[c] = "succeed"
    BY <1>2 DEF CreateFlow, Goto, local, TypeOK
  <1>3. ASSUME NEW d \in Calls, FetchFlow(d)
        PROVE  /\ UNCHANGED <<flow_status, kafka>>
               /\ \A c \in Calls : pc'[c] = "succeed" => pc[c] = "succeed"
    BY <1>3 DEF FetchFlow, Goto, TypeOK
  <1>4. ASSUME NEW d \in Calls, SendToKafka(d)
        PROVE  /\ UNCHANGED <<flow_status, ref>>
               /\ \A c \in Calls : pc'[c] = "succeed" => pc[c] = "succeed"
    BY <1>4 DEF SendToKafka, Goto, local, TypeOK
  <1>5. ASSUME NEW d \in Calls, Evaluate(d)
        PROVE  /\ UNCHANGED <<flow_status, ref, kafka>>
               /\ \A c \in Calls : pc'[c] = "succeed" =>
                    \/ pc[c] = "succeed"
                    \/ c = d /\ Flow(c).valid = "valid"
    BY <1>5 DEF Evaluate, Branch, Goto, local, TypeOK
  <1>6. ASSUME CloseInvalid \/ CloseValid \/ PopPath \/ UNCHANGED vars
        PROVE  UNCHANGED <<flow_status, ref, kafka, pc>>
    BY <1>6 DEF CloseInvalid, CloseValid, CloseFile, PopPath, vars, local
  <1> QED
    BY <1>1, <1>2, <1>3, <1>4, <1>5, <1>6 DEF Next, Finished, Handle

\* Only the egress node's report can make a flow valid.
LEMMA ValidWriters ==
    ASSUME TypeOK, RefInv, [Next]_vars, NEW o \in Calls
    PROVE  /\ info'[o].valid = "valid" =>
                \/ info[o].valid = "valid"
                \/ \E c \in Calls : /\ ValidSet(c) /\ ref[c] = o
                                    /\ ValidOf(c) = "valid"
           /\ info'[o].status = "Successful" =>
                \/ info[o].status = "Successful"
                \/ \E c \in Calls : /\ Assign(c) /\ ref[c] = o
                                    /\ pc[c] = "succeed"
  <1>1. CASE info' = info
    BY <1>1
  <1>2. ASSUME NEW c \in Calls, WritesInfo(c)
        PROVE  /\ info'[o].valid = "valid" =>
                    \/ info[o].valid = "valid"
                    \/ ValidSet(c) /\ ref[c] = o /\ ValidOf(c) = "valid"
               /\ info'[o].status = "Successful" =>
                    \/ info[o].status = "Successful"
                    \/ Assign(c) /\ ref[c] = o /\ pc[c] = "succeed"
    <2>1. Flow(c) \in FlowInfo /\ ref[c] \in Calls
      BY <1>2, FlowType
      DEF WritesInfo, Store, SecretSet, ValidSet, Stamp, Assign, SetStatus,
          Duration, Update, Goto, Holding, Before, Labels
    <2>2. ASSUME NEW flow, info' = [info EXCEPT ![ref[c]] = flow]
          PROVE  \/ info'[o] = info[o]
                 \/ info'[o] = flow /\ ref[c] = o /\ info[o] = Flow(c)
      BY <2>1, <2>2 DEF TypeOK, Flow
    <2>3. CASE Store(c)
      <3>1. LET flow == [Flow(c) EXCEPT !.entries[c[2]] = c[1]]
            IN  flow.valid = Flow(c).valid /\ flow.status = Flow(c).status
        BY <2>1 DEF FlowInfo, FlowStatus
      <3> QED
        BY <2>2, <2>3, <3>1 DEF Store, Update
    <2>4. CASE SecretSet(c)
      <3>1. LET flow == [Flow(c) EXCEPT !.secret = SecretOf(c)]
            IN  flow.valid = Flow(c).valid /\ flow.status = Flow(c).status
        BY <2>1 DEF FlowInfo, FlowStatus
      <3> QED
        BY <2>2, <2>4, <3>1 DEF SecretSet, Update
    <2>5. CASE ValidSet(c)
      <3>1. LET flow == [Flow(c) EXCEPT !.valid = ValidOf(c)]
            IN  flow.valid = ValidOf(c) /\ flow.status = Flow(c).status
        BY <2>1 DEF FlowInfo, FlowStatus
      <3> QED
        BY <2>2, <2>5, <3>1 DEF ValidSet, Update
    <2>6. CASE Stamp(c)
      <3>1. LET flow == [Flow(c) EXCEPT !.stamped = TRUE]
            IN  flow.valid = Flow(c).valid /\ flow.status = Flow(c).status
        BY <2>1 DEF FlowInfo, FlowStatus
      <3> QED
        BY <2>2, <2>6, <3>1 DEF Stamp, Update
    <2>7. CASE Assign(c)
      <3>1. ASSUME NEW from, NEW status \in {"Successful", "Fail"},
                   SetStatus(c, from, status)
            PROVE  \/ info'[o] = info[o]
                   \/ /\ info'[o].valid = info[o].valid
                      /\ info'[o].status = status
                      /\ ref[c] = o /\ pc[c] = from
        <4>1. LET flow == [Flow(c) EXCEPT !.status = status]
              IN  flow.valid = Flow(c).valid /\ flow.status = status
          BY <2>1 DEF FlowInfo, FlowStatus
        <4> QED
          BY <2>2, <3>1, <4>1 DEF SetStatus, Update, Goto
      <3>2. CASE SetStatus(c, "succeed", "Successful")
        BY <2>7, <3>1, <3>2
      <3>3. CASE SetStatus(c, "fail", "Fail")
        BY <2>7, <3>1, <3>3
      <3> QED
        BY <2>7, <3>2, <3>3 DEF Assign
    <2>8. CASE Duration(c)
      <3>1. LET flow == [Flow(c) EXCEPT !.timed = TRUE]
            IN  flow.valid = Flow(c).valid /\ flow.status = Flow(c).status
        BY <2>1 DEF FlowInfo, FlowStatus
      <3> QED
        BY <2>2, <2>8, <3>1 DEF Duration, Update, Branch
    <2> QED
      BY <1>2, <2>3, <2>4, <2>5, <2>6, <2>7, <2>8 DEF WritesInfo
  <1> QED
    BY <1>1, <1>2, InfoWriters

LEMMA SoundStep ==
    ASSUME TypeOK, RefInv, SoundInv, [Next]_vars
    PROVE  SoundInv'
  <1>1. ASSUME NEW o \in Calls, NEW s, Witness(o, s, TRUE)
        PROVE  Witness(o, s, TRUE)'
    BY <1>1, Stable, NodesAssumption DEF Witness, Calls
  <1>2. \A c \in Calls : SeqOf(c)' = SeqOf(c)
    BY Stable DEF SeqOf
  <1>3. ASSUME NEW s \in Seqs, flow_status'[s] \in Calls
        PROVE  SeqOf(flow_status[s])' = s
    BY <1>2, <1>3, Writers DEF SoundInv, CreateFlow, TypeOK
  <1>4. ASSUME NEW c \in Calls, ref'[c] \in Calls
        PROVE  SeqOf(ref[c])' = SeqOf(c)'
    <2>1. SeqOf(c) \in Seqs
      BY DEF SeqOf, TypeOK, Calls
    <2> QED
      BY <1>2, <1>4, <2>1, Writers DEF SoundInv, FetchFlow, TypeOK
  <1>5. ASSUME NEW o \in Calls,
               info'[o].valid = "valid" \/ info'[o].status = "Successful"
        PROVE  Witness(o, SeqOf(o), TRUE)'
    <2>1. ASSUME NEW c \in Calls, ref[c] = o, ValidOf(c) = "valid"
          PROVE  Witness(o, SeqOf(o), TRUE)
      <3>1. c[1] \in Packets /\ c = <<c[1], Egress>> /\ verdict[c[1]] = TRUE
        BY <2>1 DEF ValidOf, Calls, TypeOK
      <3>2. seqOf[c[1]] = SeqOf(o)
        BY <2>1 DEF SoundInv, SeqOf
      <3> QED
        BY <2>1, <3>1, <3>2 DEF Witness
    <2>2. ASSUME NEW c \in Calls, ref[c] = o, pc[c] = "succeed"
          PROVE  Witness(o, SeqOf(o), TRUE)
      BY <2>2 DEF SoundInv
    <2>3. Witness(o, SeqOf(o), TRUE)
      BY <1>5, <2>1, <2>2, ValidWriters DEF SoundInv
    <2> QED
      BY <1>1, <1>2, <2>3
  <1>6. ASSUME NEW c \in Calls, pc'[c] = "succeed"
        PROVE  Witness(ref[c], SeqOf(c), TRUE)'
    <2>1. ref[c] \in Calls
      BY <1>6, Writers
      DEF RefInv, Evaluate, Branch, Goto, Holding, Before, Labels
    <2>2. CASE pc[c] = "succeed"
      BY <1>1, <1>2, <1>6, <2>1, <2>2, Stable DEF SoundInv
    <2>3. CASE Flow(c).valid = "valid"
      BY <1>1, <1>2, <2>1, <2>3, Stable DEF SoundInv, Flow
    <2> QED
      BY <1>6, <2>2, <2>3, Writers
  <1>7. ASSUME NEW c \in Calls, kafka'[c] = "valid"
        PROVE  (ref[c] \in Calls /\ Witness(ref[c], SeqOf(c), TRUE))'
    <2>1. CASE kafka[c] = "valid"
      BY <1>1, <1>2, <2>1, Stable DEF SoundInv
    <2>2. CASE SendToKafka(c)
      <3>1. ref[c] \in Calls
        BY <2>2 DEF SendToKafka, Goto, RefInv, Holding, Before, Labels
      <3>2. Flow(c).status = "Successful"
        BY <1>7, <2>2 DEF SendToKafka, Reported, TypeOK
      <3> QED
        BY <1>1, <1>2, <3>1, <3>2, Stable DEF SoundInv, Flow
    <2> QED
      BY <1>7, <2>1, <2>2, Writers DEF SendToKafka, TypeOK
  <1> QED
    BY <1>3, <1>4, <1>5, <1>6, <1>7 DEF SoundInv

LEMMA SoundInvariant == Spec => []SoundInv
  <1>1. Init => SoundInv
    <2>1. NewFlow.status = "Not Finished" /\ NewFlow.valid = "none"
      BY DEF NewFlow
    <2>2. None \notin Calls
      BY NoneAssumption DEF Calls
    <2>3. SUFFICES ASSUME Init PROVE SoundInv
      OBVIOUS
    <2>4. \A s \in Seqs : flow_status[s] = None
      BY <2>3 DEF Init
    <2>5. \A c \in Calls : /\ ref[c] = None /\ info[c] = NewFlow
                            /\ pc[c] = "queued" /\ kafka[c] = "none"
      BY <2>3 DEF Init
    <2> QED
      BY <2>1, <2>2, <2>4, <2>5 DEF SoundInv
  <1>2. TypeOK /\ RefInv /\ SoundInv /\ [Next]_vars => SoundInv'
    BY SoundStep
  <1> QED
    BY <1>1, <1>2, TypeCorrect, PTL DEF Spec

(***************************************************************************)
(* A flow is called successful only when the egress node verified a packet *)
(* of its number, in every interleaving of the handlers.                   *)
(***************************************************************************)
THEOREM SuccessesAreSound == Spec => []SuccessIsSound
  <1>1. SoundInv => SuccessIsSound
    BY DEF SoundInv, SuccessIsSound
  <1> QED
    BY <1>1, SoundInvariant, PTL

-----------------------------------------------------------------------------
(* The locks of the result files *)

LockInv ==
    \A c \in Calls :
        /\ pc[c] = "write" => lock[branch[c]] = c
        /\ \A k \in Verdicts : lock[k] = c =>
              \/ pc[c] = "write" /\ branch[c] = k
              \/ pc[c] = "failed" /\ k \notin openFiles

\* A step that leaves the locks alone.
LEMMA OtherSteps ==
    ASSUME LockInv, UNCHANGED lock, openFiles' \subseteq openFiles,
           \A c \in Calls :
                \/ pc[c] \in {"write", "failed"} /\ pc'[c] = pc[c]
                   /\ branch'[c] = branch[c]
                \/ pc[c] \notin {"write", "failed"} /\ pc'[c] # "write"
    PROVE  LockInv'
  BY DEF LockInv

LEMMA LockStep ==
    ASSUME TypeOK, LockInv, [Next]_vars
    PROVE  LockInv'
  <1>1. ASSUME NEW d \in Calls, Handle(d) \/ Dispatch(d),
               ~Acquire(d), ~Write(d), NEW c \in Calls
        PROVE  /\ UNCHANGED <<lock, openFiles>>
               /\ \/ pc[c] \in {"write", "failed"} /\ pc'[c] = pc[c]
                     /\ branch'[c] = branch[c]
                  \/ pc[c] \notin {"write", "failed"} /\ pc'[c] # "write"
    <2>1. CASE BranchOk(d) \/ BranchFail(d)
      BY <1>1, <2>1
      DEF BranchOk, BranchFail, Enter, Branch, Goto, TypeOK, destroying, local
    <2>2. CASE ~(BranchOk(d) \/ BranchFail(d))
      BY <1>1, <2>2
      DEF Dispatch, Handle, HandleLog, CheckFlow, CreateFlow, FetchFlow, Guard,
          NodeCheck, Store, SecretCheck, SecretSet, ValidCheck, ValidSet,
          Stamp, Settle, Evaluate, Assign, SetStatus, Duration, Metric, LocateError,
          SendToKafka, Branch, Update, Goto, TypeOK, destroying, local
    <2> QED
      BY <2>1, <2>2
  <1>2. ASSUME NEW d \in Calls, Acquire(d) PROVE LockInv'
    <2>1. \A c \in Calls : c # None
      BY NoneAssumption DEF Calls
    <2>2. /\ lock[branch[d]] = None /\ branch[d] \in Verdicts
          /\ \A k \in Verdicts :
                lock'[k] = IF k = branch[d] THEN d ELSE lock[k]
          /\ pc[d] = "acquire"
          /\ \A c \in Calls : pc'[c] = IF c = d THEN "write" ELSE pc[c]
          /\ branch' = branch /\ openFiles' = openFiles
      BY <1>2 DEF Acquire, SetLock, Goto, TypeOK, destroying, local
    <2>3. \A c \in Calls : branch[c] \in Verdicts
      BY DEF TypeOK
    <2> QED
      BY <2>1, <2>2, <2>3 DEF LockInv
  <1>3. ASSUME NEW d \in Calls, Write(d) PROVE LockInv'
    <2>1. \A c \in Calls : c # None
      BY NoneAssumption DEF Calls
    <2>2. pc[d] = "write" /\ lock[branch[d]] = d /\ branch[d] \in Verdicts
      BY <1>3 DEF Write, Branch, Goto, TypeOK, LockInv
    <2>3. CASE branch[d] \in openFiles
      <3>1. /\ \A k \in Verdicts :
                  lock'[k] = IF k = branch[d] THEN None ELSE lock[k]
            /\ \A c \in Calls : pc'[c] = IF c = d THEN "metric" ELSE pc[c]
            /\ branch' = branch /\ openFiles' = openFiles
        BY <1>3, <2>3
        DEF Write, SetLock, Goto, TypeOK, destroying, local
      <3>2. \A c \in Calls : branch[c] \in Verdicts
        BY DEF TypeOK
      <3> QED
        BY <2>1, <2>2, <3>1, <3>2 DEF LockInv
    <2>4. CASE branch[d] \notin openFiles
      BY <1>3, <2>1, <2>2, <2>4
      DEF Write, Branch, Goto, TypeOK, LockInv, destroying, local
    <2> QED
      BY <2>3, <2>4
  <1>4. CASE CloseInvalid \/ CloseValid \/ PopPath \/ UNCHANGED vars
    BY <1>4
    DEF CloseInvalid, CloseValid, CloseFile, PopPath, vars, local, destroying,
        LockInv
  <1>5. ASSUME NEW d \in Calls, Handle(d) \/ Dispatch(d),
               ~Acquire(d), ~Write(d)
        PROVE  LockInv'
    BY <1>1, <1>5, OtherSteps
  <1> QED
    BY <1>2, <1>3, <1>4, <1>5 DEF Next, Finished

(***************************************************************************)
(* A handler between acquire and release holds its lock alone, and only a  *)
(* file that was closed leaves a lock behind.                              *)
(***************************************************************************)
THEOREM LocksAreReleased == Spec => []LockDiscipline
  <1>1. Init => LockInv
    <2>1. \A c \in Calls : c # None
      BY NoneAssumption DEF Calls
    <2> QED
      BY <2>1 DEF Init, LockInv
  <1>2. TypeOK /\ LockInv /\ [Next]_vars => LockInv'
    BY LockStep
  <1>3. TypeOK /\ LockInv => LockDiscipline
    BY DEF TypeOK, LockInv, LockDiscipline
  <1> QED
    BY <1>1, <1>2, <1>3, TypeCorrect, PTL DEF Spec

-----------------------------------------------------------------------------
(* The handlers of a packet whose number is its own, one at a time *)

\* The calls of a number that was never handled by two workers at once.
OneAtATime ==
    \A c, d \in Active : SeqOf(c) = SeqOf(d) /\ SeqOf(c) \notin overlapped => c = d

\* The path is forgotten only with its files closed.
PathInv == paths \/ openFiles = {}

\* What a handler has done once it is there.
Stored == Labels \ (Before \cup {"failed", "guard", "nodeCheck", "store"})
Secreted == Stored \ {"secretCheck", "secretSet"}
Validated == Secreted \ {"validCheck", "validSet"}
Stamped == Validated \ {"stamp"}
Final == Stamped \ {"settle", "evaluate", "succeed", "fail"}
Reporting == {"acquire", "write", "metric", "locate", "publish"}

Regular(p) == Unique(p) /\ seqOf[p] \notin overlapped /\ openFiles = Verdicts
FlowOf(p) == flow_status[seqOf[p]]
Settled(p) == \A c \in CallsOf(p) : pc[c] \in Final
Answer(p) == IF verdict[p] THEN "valid" ELSE "invalid"

\* No call of p fails, and its flow object is made by the first.
Started(p) ==
    \A c \in CallsOf(p) :
        /\ pc[c] # "failed"
        /\ pc[c] = "create" => FlowOf(p) = None
        /\ FlowOf(p) = None => /\ pc[c] \in {"queued", "lookup", "check", "create"}
                               /\ info[c] = NewFlow
        /\ ref[c] # None => ref[c] = FlowOf(p)

\* What the flow object f holds is what the handlers have done to it.
Collects(p, f) ==
    /\ \A n \in Nodes : f.entries[n] = IF pc[<<p, n>>] \in Stored THEN p ELSE None
    /\ f.secret = (pc[<<p, Ingress>>] \in Secreted)
    /\ f.valid = IF pc[<<p, Egress>>] \in Validated THEN Answer(p) ELSE "none"
    /\ f.status = IF Settled(p) THEN IF verdict[p] THEN "Successful" ELSE "Fail"
                  ELSE "Not Finished"
    /\ \A c \in CallsOf(p) :
          /\ pc[c] = "secretSet" => ~f.secret
          /\ pc[c] = "validSet" => f.valid = "none"
          /\ pc[c] \in Stamped => f.stamped
          /\ pc[c] = "succeed" => verdict[p]
          /\ pc[c] = "fail" => ~verdict[p]
          /\ pc[c] = "branchFail" => f.status # "Successful"
    /\ Settled(p) => f.timed \/ \E c \in CallsOf(p) : pc[c] = "duration"

\* The last handler, and no other, reports the answer.
Sends(p) ==
    /\ \A c \in CallsOf(p) :
          /\ pc[c] \in Reporting => Settled(p) /\ branch[c] = Answer(p)
          /\ kafka[c] # "none" => /\ kafka[c] = Answer(p)
                                  /\ \A d \in CallsOf(p) : /\ pc[d] = "done"
                                                           /\ kafka[d] # "none" => d = c
    /\ (\A c \in CallsOf(p) : pc[c] = "done") => \E c \in CallsOf(p) : kafka[c] # "none"

Exact(p) == /\ Started(p)
            /\ FlowOf(p) # None => Collects(p, info[FlowOf(p)])
            /\ Sends(p)

ExactInv == OneAtATime /\ PathInv /\ \A p \in Packets : Regular(p) => Exact(p)

\* The calls of a packet, and the others.
LEMMA CallsOfPacket ==
    ASSUME NEW p \in Packets
    PROVE  /\ \A c \in CallsOf(p) : /\ c \in Calls /\ c[1] = p /\ c[2] \in Nodes
                                    /\ c = <<p, c[2]>> /\ SeqOf(c) = seqOf[p] /\ c # None
           /\ \A n \in Nodes : <<p, n>> \in CallsOf(p)
           /\ <<p, Ingress>> \in CallsOf(p) /\ <<p, Egress>> \in CallsOf(p)
           /\ \A c \in Calls : c \notin CallsOf(p) => c[1] \in Packets \ {p}
  BY NodesAssumption, NoneAssumption DEF CallsOf, Calls, SeqOf

\* While a call of a regular packet runs, the others wait or are done.
LEMMA SoleRunner ==
    ASSUME OneAtATime, NEW p \in Packets, Regular(p), Started(p),
           NEW c \in CallsOf(p), pc[c] \notin {"queued", "done"}
    PROVE  \A d \in CallsOf(p) : d # c => pc[d] \in {"queued", "done"}
  <1>1. \A d \in CallsOf(p) : d \in Calls /\ SeqOf(d) = seqOf[p] /\ pc[d] # "failed"
    BY CallsOfPacket DEF Started
  <1> QED
    BY <1>1 DEF OneAtATime, Regular, Active, Ended

\* Nothing is sent while a call runs.
LEMMA NothingSent ==
    ASSUME NEW p \in Packets, Sends(p), NEW c \in CallsOf(p), pc[c] # "done"
    PROVE  \A d \in CallsOf(p) : kafka[d] = "none"
  BY DEF Sends

\* A packet is settled or not as before when c stays on its side.
LEMMA SameSettled ==
    ASSUME TypeOK, NEW p \in Packets, NEW c \in CallsOf(p), NEW b, pc' = [pc EXCEPT ![c] = b],
           pc[c] \in Final <=> b \in Final
    PROVE  Settled(p)' <=> Settled(p)
  BY CallsOfPacket DEF Settled, TypeOK, CallsOf

\* A step that moves the handler c, and no other.
LEMMA MovedOne ==
    ASSUME TypeOK, NEW p \in Packets, NEW c \in CallsOf(p), NEW b, pc' = [pc EXCEPT ![c] = b]
    PROVE  /\ \A d \in CallsOf(p) : d \in Calls /\ pc'[d] = IF d = c THEN b ELSE pc[d]
           /\ \A n \in Nodes : <<p, n>> \in CallsOf(p) /\ (<<p, n>> = c => c[2] = n)
           /\ Ingress \in Nodes /\ Egress \in Nodes
  <1>1. \A d \in CallsOf(p) : d \in Calls
    BY CallsOfPacket
  <1>2. \A d \in Calls : pc'[d] = IF d = c THEN b ELSE pc[d]
    BY DEF TypeOK
  <1>3. \A n \in Nodes : <<p, n>> \in CallsOf(p)
    BY CallsOfPacket
  <1>4. \A n \in Nodes : <<p, n>>[2] = n
    OBVIOUS
  <1> QED
    BY <1>1, <1>2, <1>3, <1>4, NodesAssumption

\* The step b suits the handler c as pc[c] did, for a flow object f.
Suits(p, c, f, b) ==
    /\ pc[c] \in Stored <=> b \in Stored
    /\ c[2] = Ingress => (pc[c] \in Secreted <=> b \in Secreted)
    /\ c[2] = Egress => (pc[c] \in Validated <=> b \in Validated)
    /\ b = "secretSet" => ~f.secret
    /\ b = "validSet" => f.valid = "none"
    /\ b \in Stamped => pc[c] \in Stamped
    /\ b = "succeed" => verdict[p]
    /\ b = "fail" => ~verdict[p]
    /\ b = "branchFail" => f.status # "Successful"
    /\ pc[c] # "duration"

\* The handler c goes to b, sending nothing.
MovesTo(p, c, b) ==
    /\ pc' = [pc EXCEPT ![c] = b]
    /\ UNCHANGED <<seqOf, verdict, flow_status, kafka>>
    /\ \A d \in CallsOf(p) : ref'[d] # None => ref'[d] = FlowOf(p)
    /\ \A d \in Calls : d # c => branch'[d] = branch[d]
    /\ b \notin {"failed", "create"}

\* What a flow object holds goes with where its handlers are.
LEMMA StillCollects ==
    ASSUME TypeOK, NEW p \in Packets, NEW c \in CallsOf(p), NEW f, Collects(p, f), NEW b,
           pc' = [pc EXCEPT ![c] = b], UNCHANGED verdict, f' = f,
           Settled(p)' <=> Settled(p), Suits(p, c, f, b)
    PROVE  Collects(p, f)'
  <1> USE DEF Suits
  <1>c. /\ \A d \in CallsOf(p) : d \in Calls /\ pc'[d] = IF d = c THEN b ELSE pc[d]
        /\ \A n \in Nodes : <<p, n>> \in CallsOf(p) /\ (<<p, n>> = c => c[2] = n)
        /\ Ingress \in Nodes /\ Egress \in Nodes
    BY MovedOne
  <1>1. \A n \in Nodes : (pc'[<<p, n>>] \in Stored) = (pc[<<p, n>>] \in Stored)
    BY <1>c
  <1>2. /\ (pc'[<<p, Ingress>>] \in Secreted) = (pc[<<p, Ingress>>] \in Secreted)
        /\ (pc'[<<p, Egress>>] \in Validated) = (pc[<<p, Egress>>] \in Validated)
    BY <1>c
  <1>3. \A d \in CallsOf(p) :
           /\ pc'[d] = "secretSet" => ~f.secret
           /\ pc'[d] = "validSet" => f.valid = "none"
           /\ pc'[d] \in Stamped => f.stamped
           /\ pc'[d] = "succeed" => verdict[p]
           /\ pc'[d] = "fail" => ~verdict[p]
           /\ pc'[d] = "branchFail" => f.status # "Successful"
    <2>1. \A d \in CallsOf(p) :
             /\ pc[d] = "secretSet" => ~f.secret
             /\ pc[d] = "validSet" => f.valid = "none"
             /\ pc[d] \in Stamped => f.stamped
             /\ pc[d] = "succeed" => verdict[p]
             /\ pc[d] = "fail" => ~verdict[p]
             /\ pc[d] = "branchFail" => f.status # "Successful"
      BY DEF Collects
    <2>2. ASSUME NEW d \in CallsOf(p), d # c
          PROVE  pc'[d] = pc[d]
      BY <1>c, <2>2
    <2>3. pc'[c] = b
      BY <1>c
    <2>4. b \in Stamped => f.stamped
      BY <2>1
    <2> QED
      BY <2>1, <2>2, <2>3, <2>4
  <1>4. Settled(p) => f.timed \/ \E d \in CallsOf(p) : pc'[d] = "duration"
    BY <1>c DEF Collects
  <1>5. /\ \A n \in Nodes : f.entries[n] = IF pc'[<<p, n>>] \in Stored THEN p ELSE None
        /\ f.secret = (pc'[<<p, Ingress>>] \in Secreted)
        /\ f.valid = IF pc'[<<p, Egress>>] \in Validated THEN Answer(p) ELSE "none"
        /\ f.status = IF Settled(p)' THEN IF verdict[p] THEN "Successful" ELSE "Fail"
                      ELSE "Not Finished"
    BY <1>1, <1>2 DEF Collects
  <1>6. verdict' = verdict /\ Answer(p)' = Answer(p)
    BY DEF Answer
  <1> QED
    BY <1>3, <1>4, <1>5, <1>6 DEF Collects

\* The rest of the invariant, for a handler that sends nothing.
LEMMA Carries ==
    ASSUME TypeOK, NEW p \in Packets, Started(p), Sends(p), FlowOf(p) # None,
           NEW c \in CallsOf(p), pc[c] # "done", NEW b, MovesTo(p, c, b),
           Settled(p) => Settled(p)',
           b \in Reporting => Settled(p)' /\ branch'[c] = Answer(p),
           b = "done" => ~Settled(p)',
           Collects(p, info[FlowOf(p)])'
    PROVE  Exact(p)'
  <1> USE DEF MovesTo
  <1>c. /\ \A d \in CallsOf(p) : d \in Calls /\ pc'[d] = IF d = c THEN b ELSE pc[d]
        /\ \A n \in Nodes : <<p, n>> \in CallsOf(p) /\ (<<p, n>> = c => c[2] = n)
        /\ Ingress \in Nodes /\ Egress \in Nodes
    BY MovedOne
  <1>f. FlowOf(p)' = FlowOf(p) /\ Answer(p)' = Answer(p)
    BY DEF FlowOf, Answer
  <1>k. \A d \in CallsOf(p) : kafka'[d] = "none"
    BY NothingSent
  <1>1. Started(p)'
    BY <1>c, <1>f DEF Started
  <1>2. Sends(p)'
    <2>1. \A d \in CallsOf(p) : pc'[d] \in Reporting => Settled(p)' /\ branch'[d] = Answer(p)
      BY <1>c DEF Sends
    <2>2. ~ \A d \in CallsOf(p) : pc'[d] = "done"
      <3>1. CASE b = "done"
        <4>1. ~Settled(p)'
          BY <3>1
        <4>2. "done" \in Final
          BY DEF Final, Stamped, Validated, Secreted, Stored, Labels, Before
        <4> QED
          BY <4>1, <4>2 DEF Settled
      <3> QED
        BY <3>1, <1>c
    <2> QED
      BY <2>1, <2>2, <1>k, <1>f DEF Sends
  <1> QED
    BY <1>1, <1>2, <1>f DEF Exact

\* A handler that only moves on, and may.
LEMMA Moves ==
    ASSUME TypeOK, NEW p \in Packets, Started(p), Sends(p), FlowOf(p) # None,
           NEW c \in CallsOf(p), pc[c] # "done", Collects(p, info[FlowOf(p)]),
           NEW b, MovesTo(p, c, b), UNCHANGED info, Settled(p)' <=> Settled(p),
           Suits(p, c, info[FlowOf(p)], b),
           b \in Reporting => Settled(p) /\ branch'[c] = Answer(p),
           b = "done" => ~Settled(p)
    PROVE  Exact(p)'
  <1>1. info[FlowOf(p)]' = info[FlowOf(p)]
    BY DEF FlowOf, MovesTo
  <1>2. Collects(p, info[FlowOf(p)])'
    BY <1>1, StillCollects DEF MovesTo
  <1> QED
    BY <1>2, Carries

-----------------------------------------------------------------------------
(* The steps of a handler of a regular packet *)

AllInv == TypeOK /\ RefInv /\ EarlyInv /\ SoundInv /\ OneAtATime /\ PathInv

\* A handler that holds a flow object holds that of the packet, alone.
Holder(p, c) ==
    /\ c \in Calls /\ c[2] \in Nodes /\ c = <<p, c[2]>>
    /\ Started(p) /\ Sends(p) /\ FlowOf(p) # None
    /\ ref[c] = FlowOf(p) /\ ref[c] \in Calls /\ Flow(c) = info[FlowOf(p)]
    /\ Flow(c) \in FlowInfo /\ Collects(p, Flow(c))
    /\ \A d \in CallsOf(p) : d # c => pc[d] \in {"queued", "done"}
    /\ \A d \in CallsOf(p) : ref[d] # None => ref[d] = FlowOf(p)

LEMMA Holds ==
    ASSUME AllInv, NEW p \in Packets, Regular(p), Exact(p), NEW c \in CallsOf(p),
           pc[c] \in Holding \ {"done"}
    PROVE  TypeOK /\ Holder(p, c)
  <1>1. Started(p) /\ Sends(p) /\ (FlowOf(p) # None => Collects(p, info[FlowOf(p)]))
    BY DEF Exact
  <1>2. /\ c \in Calls /\ c[2] \in Nodes /\ c = <<p, c[2]>>
        /\ TypeOK /\ RefInv /\ OneAtATime
    BY CallsOfPacket DEF AllInv
  <1>3. ref[c] \in Calls /\ Flow(c) \in FlowInfo
    BY <1>2, FlowType
  <1>4. ref[c] = FlowOf(p) /\ FlowOf(p) # None
    BY <1>1, <1>3, NoneAssumption DEF Started, Calls
  <1>5. Flow(c) = info[FlowOf(p)]
    BY <1>4 DEF Flow
  <1>6. \A d \in CallsOf(p) : d # c => pc[d] \in {"queued", "done"}
    <2>1. pc[c] \notin {"queued", "done"}
      BY DEF Holding, Before
    <2> QED
      BY <1>1, <1>2, <2>1, SoleRunner
  <1>7. \A d \in CallsOf(p) : ref[d] # None => ref[d] = FlowOf(p)
    BY <1>1 DEF Started
  <1> QED
    BY <1>1, <1>2, <1>3, <1>4, <1>5, <1>6, <1>7 DEF Holder

\* The flow is not complete for a handler before it stored its report.
LEMMA NotYetComplete ==
    ASSUME NEW p \in Packets, NEW f, Collects(p, f), NEW n \in Nodes,
           pc[<<p, n>>] \notin Stored
    PROVE  f.entries[n] = None /\ ~Complete(f) /\ ~Settled(p)
  <1>1. f.entries[n] = None
    BY DEF Collects
  <1>2. ~Settled(p)
    <2>1. <<p, n>> \in CallsOf(p)
      BY CallsOfPacket
    <2> QED
      BY <2>1 DEF Settled, Final, Stamped, Validated, Secreted
  <1> QED
    BY <1>1, <1>2 DEF Complete

\* Such a handler that moves on keeps the packet exact.
LEMMA HolderMoves ==
    ASSUME TypeOK, NEW p \in Packets, NEW c \in CallsOf(p), Holder(p, c), NEW b,
           pc[c] # "done", MovesTo(p, c, b), UNCHANGED info, Suits(p, c, Flow(c), b),
           pc[c] \in Final <=> b \in Final,
           b \in Reporting => Settled(p) /\ branch'[c] = Answer(p),
           b = "done" => ~Settled(p)
    PROVE  Exact(p)'
  <1>1. Settled(p)' <=> Settled(p)
    BY SameSettled DEF MovesTo
  <1> QED
    BY <1>1, Moves DEF Holder

\* A report that was not stored yet is stored.
LEMMA GuardExact ==
    ASSUME AllInv, NEW p \in Packets, Regular(p), Exact(p), NEW c \in CallsOf(p), Guard(c)
    PROVE  Exact(p)'
  <1>1. pc[c] = "guard"
    BY DEF Guard, Branch, Goto
  <1>2. TypeOK /\ Holder(p, c)
    BY <1>1, Holds DEF Holding, Before, Labels
  <1>3. ~Complete(Flow(c))
    BY <1>1, <1>2, NotYetComplete DEF Stored, Holder
  <1>m. MovesTo(p, c, "nodeCheck") /\ UNCHANGED <<info, branch>>
    BY <1>2, <1>3 DEF Guard, Branch, Goto, MovesTo, Holder, world, local
  <1>s. /\ Suits(p, c, Flow(c), "nodeCheck") /\ "nodeCheck" \notin Reporting
        /\ pc[c] \in Final <=> "nodeCheck" \in Final
    BY <1>1
    DEF Suits, Labels, Before, Stored, Secreted, Validated, Stamped, Final,
        Reporting
  <1> QED
    BY <1>1, <1>2, <1>m, <1>s, HolderMoves

\* Its place in the flow object is free.
LEMMA NodeCheckExact ==
    ASSUME AllInv, NEW p \in Packets, Regular(p), Exact(p), NEW c \in CallsOf(p), NodeCheck(c)
    PROVE  Exact(p)'
  <1>1. pc[c] = "nodeCheck"
    BY DEF NodeCheck, Branch, Goto
  <1>2. TypeOK /\ Holder(p, c)
    BY <1>1, Holds DEF Holding, Before, Labels
  <1>3. Flow(c).entries[c[2]] = None
    BY <1>1, <1>2, NotYetComplete DEF Stored, Holder
  <1>m. MovesTo(p, c, "store") /\ UNCHANGED <<info, branch>>
    BY <1>2, <1>3 DEF NodeCheck, Branch, Goto, MovesTo, Holder, world, local
  <1>s. /\ Suits(p, c, Flow(c), "store") /\ "store" \notin Reporting
        /\ pc[c] \in Final <=> "store" \in Final
    BY <1>1
    DEF Suits, Labels, Before, Stored, Secreted, Validated, Stamped, Final,
        Reporting
  <1> QED
    BY <1>1, <1>2, <1>m, <1>s, HolderMoves

\* The secret is stored by the report of the ingress node, at the latest.
LEMMA SecretCheckExact ==
    ASSUME AllInv, NEW p \in Packets, Regular(p), Exact(p), NEW c \in CallsOf(p),
           SecretCheck(c)
    PROVE  Exact(p)'
  <1>1. pc[c] = "secretCheck"
    BY DEF SecretCheck, Branch, Goto
  <1>2. TypeOK /\ Holder(p, c)
    BY <1>1, Holds DEF Holding, Before, Labels
  <1>3. CASE ~Flow(c).secret
    <2>m. MovesTo(p, c, "secretSet") /\ UNCHANGED <<info, branch>>
      BY <1>2, <1>3 DEF SecretCheck, Branch, Goto, MovesTo, Holder, world, local
    <2>s. /\ Suits(p, c, Flow(c), "secretSet") /\ "secretSet" \notin Reporting
          /\ pc[c] \in Final <=> "secretSet" \in Final
      BY <1>1, <1>3
      DEF Suits, Labels, Before, Stored, Secreted, Validated, Stamped, Final,
          Reporting
    <2> QED
      BY <1>1, <1>2, <2>m, <2>s, HolderMoves
  <1>4. CASE Flow(c).secret
    <2>1. c[2] # Ingress
      <3>1. pc[<<p, Ingress>>] # "secretCheck"
        BY <1>2, <1>4 DEF Holder, Collects, Secreted
      <3> QED
        BY <1>1, <1>2, <3>1 DEF Holder
    <2>m. MovesTo(p, c, "validCheck") /\ UNCHANGED <<info, branch>>
      BY <1>2, <1>4 DEF SecretCheck, Branch, Goto, MovesTo, Holder, world, local
    <2>s. /\ Suits(p, c, Flow(c), "validCheck") /\ "validCheck" \notin Reporting
          /\ pc[c] \in Final <=> "validCheck" \in Final
      BY <1>1, <2>1
      DEF Suits, Labels, Before, Stored, Secreted, Validated, Stamped, Final,
          Reporting
    <2> QED
      BY <1>1, <1>2, <2>m, <2>s, HolderMoves
  <1> QED
    BY <1>3, <1>4

\* And the verification by the report of the egress node.
LEMMA ValidCheckExact ==
    ASSUME AllInv, NEW p \in Packets, Regular(p), Exact(p), NEW c \in CallsOf(p), ValidCheck(c)
    PROVE  Exact(p)'
  <1>1. pc[c] = "validCheck"
    BY DEF ValidCheck, Branch, Goto
  <1>2. TypeOK /\ Holder(p, c)
    BY <1>1, Holds DEF Holding, Before, Labels
  <1>3. CASE Flow(c).valid = "none"
    <2>m. MovesTo(p, c, "validSet") /\ UNCHANGED <<info, branch>>
      BY <1>2, <1>3 DEF ValidCheck, Branch, Goto, MovesTo, Holder, world, local
    <2>s. /\ Suits(p, c, Flow(c), "validSet") /\ "validSet" \notin Reporting
          /\ pc[c] \in Final <=> "validSet" \in Final
      BY <1>1, <1>3
      DEF Suits, Labels, Before, Stored, Secreted, Validated, Stamped, Final,
          Reporting
    <2> QED
      BY <1>1, <1>2, <2>m, <2>s, HolderMoves
  <1>4. CASE Flow(c).valid # "none"
    <2>1. c[2] # Egress
      <3>1. pc[<<p, Egress>>] # "validCheck"
        BY <1>2, <1>4 DEF Holder, Collects, Validated
      <3> QED
        BY <1>1, <1>2, <3>1 DEF Holder
    <2>m. MovesTo(p, c, "stamp") /\ UNCHANGED <<info, branch>>
      BY <1>2, <1>4 DEF ValidCheck, Branch, Goto, MovesTo, Holder, world, local
    <2>s. /\ Suits(p, c, Flow(c), "stamp") /\ "stamp" \notin Reporting
          /\ pc[c] \in Final <=> "stamp" \in Final
      BY <1>1, <2>1
      DEF Suits, Labels, Before, Stored, Secreted, Validated, Stamped, Final,
          Reporting
    <2> QED
      BY <1>1, <1>2, <2>m, <2>s, HolderMoves
  <1> QED
    BY <1>3, <1>4

\* The last report completes the flow; another one leaves it open.
LEMMA SettleExact ==
    ASSUME AllInv, NEW p \in Packets, Regular(p), Exact(p), NEW c \in CallsOf(p), Settle(c)
    PROVE  Exact(p)'
  <1>1. pc[c] = "settle"
    BY DEF Settle, Branch, Goto
  <1>2. TypeOK /\ Holder(p, c)
    BY <1>1, Holds DEF Holding, Before, Labels
  <1>3. CASE Complete(Flow(c))
    <2>m. MovesTo(p, c, "evaluate") /\ UNCHANGED <<info, branch>>
      BY <1>2, <1>3 DEF Settle, Branch, Goto, MovesTo, Holder, world, local
    <2>s. /\ Suits(p, c, Flow(c), "evaluate") /\ "evaluate" \notin Reporting
          /\ pc[c] \in Final <=> "evaluate" \in Final
      BY <1>1
      DEF Suits, Labels, Before, Stored, Secreted, Validated, Stamped, Final,
          Reporting
    <2> QED
      BY <1>1, <1>2, <2>m, <2>s, HolderMoves
  <1>4. CASE ~Complete(Flow(c))
    <2>1. PICK n \in Nodes : Flow(c).entries[n] = None
      BY <1>4 DEF Complete
    <2>2. pc[<<p, n>>] \notin Stored /\ <<p, n>> # c /\ <<p, n>> \in CallsOf(p)
      <3>1. pc[<<p, n>>] \notin Stored
        BY <1>2, <2>1, NoneAssumption DEF Holder, Collects
      <3>2. pc[c] \in Stored
        BY <1>1 DEF Stored, Labels, Before
      <3> QED
        BY <3>1, <3>2, CallsOfPacket
    <2>m. MovesTo(p, c, "branchOk") /\ UNCHANGED <<info, branch>>
      BY <1>2, <1>4 DEF Settle, Branch, Goto, MovesTo, Holder, world, local
    <2>3. ~Settled(p) /\ ~Settled(p)'
      <3>1. pc'[<<p, n>>] = pc[<<p, n>>]
        BY <1>2, <2>2, <2>m DEF MovesTo, TypeOK
      <3>2. pc[<<p, n>>] \notin Final
        BY <2>2 DEF Final, Stamped, Validated, Secreted
      <3> QED
        BY <2>2, <3>1, <3>2 DEF Settled
    <2>s. Suits(p, c, Flow(c), "branchOk") /\ "branchOk" \notin Reporting
      BY <1>1
      DEF Suits, Labels, Before, Stored, Secreted, Validated, Stamped, Final,
          Reporting
    <2> QED
      BY <1>1, <1>2, <2>3, <2>m, <2>s, Moves DEF Holder
  <1> QED
    BY <1>3, <1>4

\* The verification found by then is that of the egress node.
LEMMA EvaluateExact ==
    ASSUME AllInv, NEW p \in Packets, Regular(p), Exact(p), NEW c \in CallsOf(p), Evaluate(c)
    PROVE  Exact(p)'
  <1>1. pc[c] = "evaluate"
    BY DEF Evaluate, Branch, Goto
  <1>2. TypeOK /\ Holder(p, c)
    BY <1>1, Holds DEF Holding, Before, Labels
  <1>3. Flow(c).valid = Answer(p)
    <2>1. Complete(Flow(c)) /\ Egress \in Nodes
      BY <1>1, <1>2, NodesAssumption DEF AllInv, EarlyInv, Settling, Holder
    <2>2. pc[<<p, Egress>>] \in Stored
      <3>1. Collects(p, Flow(c))
        BY <1>2 DEF Holder
      <3> QED
        BY <2>1, <3>1, NotYetComplete
    <2>3. <<p, Egress>> = c \/ pc[<<p, Egress>>] \in {"queued", "done"}
      BY <1>2, CallsOfPacket DEF Holder
    <2>4. pc[<<p, Egress>>] \in Validated
      BY <1>1, <2>2, <2>3 DEF Validated, Secreted, Stored, Labels, Before
    <2> QED
      BY <1>2, <2>4 DEF Holder, Collects
  <1>4. CASE verdict[p]
    <2>1. Flow(c).valid = "valid"
      BY <1>3, <1>4 DEF Answer
    <2>m. MovesTo(p, c, "succeed") /\ UNCHANGED <<info, branch>>
      BY <1>2, <2>1 DEF Evaluate, Branch, Goto, MovesTo, Holder, world, local
    <2>s. /\ Suits(p, c, Flow(c), "succeed") /\ "succeed" \notin Reporting
          /\ pc[c] \in Final <=> "succeed" \in Final
      BY <1>1, <1>4
      DEF Suits, Labels, Before, Stored, Secreted, Validated, Stamped, Final,
          Reporting
    <2> QED
      BY <1>1, <1>2, <2>m, <2>s, HolderMoves
  <1>5. CASE ~verdict[p]
    <2>1. Flow(c).valid # "valid"
      BY <1>3, <1>5 DEF Answer
    <2>m. MovesTo(p, c, "fail") /\ UNCHANGED <<info, branch>>
      BY <1>2, <2>1 DEF Evaluate, Branch, Goto, MovesTo, Holder, world, local
    <2>s. /\ Suits(p, c, Flow(c), "fail") /\ "fail" \notin Reporting
          /\ pc[c] \in Final <=> "fail" \in Final
      BY <1>1, <1>5
      DEF Suits, Labels, Before, Stored, Secreted, Validated, Stamped, Final,
          Reporting
    <2> QED
      BY <1>1, <1>2, <2>m, <2>s, HolderMoves
  <1> QED
    BY <1>4, <1>5

\* A handler reads the status the answer gave the flow, or an open one.
LEMMA StatusRead ==
    ASSUME NEW p \in Packets, NEW c \in CallsOf(p), Holder(p, c)
    PROVE  /\ Flow(c).status = "Successful" <=> Settled(p) /\ verdict[p]
           /\ Flow(c).status = "Fail" <=> Settled(p) /\ ~verdict[p]
  BY DEF Holder, Collects

\* The branch of a settled flow is that of the answer.
LEMMA BranchOkExact ==
    ASSUME AllInv, NEW p \in Packets, Regular(p), Exact(p), NEW c \in CallsOf(p), BranchOk(c)
    PROVE  Exact(p)'
  <1>1. pc[c] = "branchOk"
    BY DEF BranchOk, Enter
  <1>2. TypeOK /\ Holder(p, c)
    BY <1>1, Holds DEF Holding, Before, Labels
  <1>3. CASE Flow(c).status = "Successful"
    <2>1. Settled(p) /\ Answer(p) = "valid"
      BY <1>2, <1>3, StatusRead DEF Answer
    <2>m. MovesTo(p, c, "acquire") /\ UNCHANGED info /\ branch'[c] = "valid"
      BY <1>2, <1>3, SMTT(30)
      DEF BranchOk, Enter, Branch, Goto, MovesTo, Holder, TypeOK, world, local
    <2>s. /\ Suits(p, c, Flow(c), "acquire")
          /\ pc[c] \in Final <=> "acquire" \in Final
      BY <1>1
      DEF Suits, Labels, Before, Stored, Secreted, Validated, Stamped, Final,
          Reporting
    <2> QED
      BY <1>1, <1>2, <2>1, <2>m, <2>s, HolderMoves
  <1>4. CASE Flow(c).status # "Successful"
    <2>m. MovesTo(p, c, "branchFail") /\ UNCHANGED <<info, branch>>
      BY <1>2, <1>4 DEF BranchOk, Enter, Branch, Goto, MovesTo, Holder, world, local
    <2>s. /\ Suits(p, c, Flow(c), "branchFail") /\ "branchFail" \notin Reporting
          /\ pc[c] \in Final <=> "branchFail" \in Final
      BY <1>1, <1>4
      DEF Suits, Labels, Before, Stored, Secreted, Validated, Stamped, Final,
          Reporting
    <2> QED
      BY <1>1, <1>2, <2>m, <2>s, HolderMoves
  <1> QED
    BY <1>3, <1>4

\* So the last handler takes one, and another one ends.
LEMMA BranchFailExact ==
    ASSUME AllInv, NEW p \in Packets, Regular(p), Exact(p), NEW c \in CallsOf(p), BranchFail(c)
    PROVE  Exact(p)'
  <1>1. pc[c] = "branchFail"
    BY DEF BranchFail, Enter
  <1>2. TypeOK /\ Holder(p, c)
    BY <1>1, Holds DEF Holding, Before, Labels
  <1>3. CASE Flow(c).status = "Fail"
    <2>1. Settled(p) /\ Answer(p) = "invalid"
      BY <1>2, <1>3, StatusRead DEF Answer
    <2>m. MovesTo(p, c, "acquire") /\ UNCHANGED info /\ branch'[c] = "invalid"
      BY <1>2, <1>3, SMTT(30)
      DEF BranchFail, Enter, Branch, Goto, MovesTo, Holder, TypeOK, world, local
    <2>s. /\ Suits(p, c, Flow(c), "acquire")
          /\ pc[c] \in Final <=> "acquire" \in Final
      BY <1>1
      DEF Suits, Labels, Before, Stored, Secreted, Validated, Stamped, Final,
          Reporting
    <2> QED
      BY <1>1, <1>2, <2>1, <2>m, <2>s, HolderMoves
  <1>4. CASE Flow(c).status # "Fail"
    <2>1. ~Settled(p)
      <3>1. Flow(c).status # "Successful"
        BY <1>1, <1>2 DEF Holder, Collects
      <3> QED
        BY <1>2, <1>4, <3>1, StatusRead
    <2>m. MovesTo(p, c, "done") /\ UNCHANGED <<info, branch>>
      BY <1>2, <1>4 DEF BranchFail, Enter, Branch, Goto, MovesTo, Holder, world, local
    <2>s. /\ Suits(p, c, Flow(c), "done") /\ "done" \notin Reporting
          /\ pc[c] \in Final <=> "done" \in Final
      BY <1>1
      DEF Suits, Labels, Before, Stored, Secreted, Validated, Stamped, Final,
          Reporting
    <2> QED
      BY <1>1, <1>2, <2>1, <2>m, <2>s, HolderMoves
  <1> QED
    BY <1>3, <1>4

\* The lock does not matter to what is sent.
LEMMA AcquireExact ==
    ASSUME AllInv, NEW p \in Packets, Regular(p), Exact(p), NEW c \in CallsOf(p), Acquire(c)
    PROVE  Exact(p)'
  <1>1. pc[c] = "acquire"
    BY DEF Acquire, Branch, Goto
  <1>2. TypeOK /\ Holder(p, c)
    BY <1>1, Holds DEF Holding, Before, Labels
  <1>3. Settled(p) /\ branch[c] = Answer(p)
    BY <1>1, <1>2 DEF Holder, Sends, Reporting
  <1>m. MovesTo(p, c, "write") /\ UNCHANGED <<info, branch>>
    BY <1>2 DEF Acquire, Branch, Goto, MovesTo, Holder, world, local, SetLock
  <1>s. /\ Suits(p, c, Flow(c), "write")
        /\ pc[c] \in Final <=> "write" \in Final
    BY <1>1
    DEF Suits, Labels, Before, Stored, Secreted, Validated, Stamped, Final,
        Reporting
  <1>r. "write" \in Reporting => Settled(p) /\ branch'[c] = Answer(p)
    BY <1>3, <1>m DEF Reporting
  <1> QED
    BY <1>1, <1>2, <1>m, <1>s, <1>r, HolderMoves

\* The file is open, so the write succeeds.
LEMMA WriteExact ==
    ASSUME AllInv, NEW p \in Packets, Regular(p), Exact(p), NEW c \in CallsOf(p), Write(c)
    PROVE  Exact(p)'
  <1>1. pc[c] = "write"
    BY DEF Write, Branch, Goto
  <1>2. TypeOK /\ Holder(p, c)
    BY <1>1, Holds DEF Holding, Before, Labels
  <1>3. Settled(p) /\ branch[c] = Answer(p)
    BY <1>1, <1>2 DEF Holder, Sends, Reporting
  <1>4. branch[c] \in openFiles
    BY <1>3 DEF Regular, Answer, Verdicts
  <1>m. MovesTo(p, c, "metric") /\ UNCHANGED <<info, branch>>
    BY <1>2, <1>4 DEF Write, Branch, Goto, MovesTo, Holder, world, local, SetLock
  <1>s. /\ Suits(p, c, Flow(c), "metric")
        /\ pc[c] \in Final <=> "metric" \in Final
    BY <1>1
    DEF Suits, Labels, Before, Stored, Secreted, Validated, Stamped, Final,
        Reporting
  <1>r. "metric" \in Reporting => Settled(p) /\ branch'[c] = Answer(p)
    BY <1>3, <1>m DEF Reporting
  <1> QED
    BY <1>1, <1>2, <1>m, <1>s, <1>r, HolderMoves

\* The duration is known, so the metric accepts it.
LEMMA MetricExact ==
    ASSUME AllInv, NEW p \in Packets, Regular(p), Exact(p), NEW c \in CallsOf(p), Metric(c)
    PROVE  Exact(p)'
  <1>1. pc[c] = "metric"
    BY DEF Metric, Branch, Goto
  <1>2. TypeOK /\ Holder(p, c)
    BY <1>1, Holds DEF Holding, Before, Labels
  <1>3. Settled(p) /\ branch[c] = Answer(p)
    BY <1>1, <1>2 DEF Holder, Sends, Reporting
  <1>4. Flow(c).timed
    <2>1. \A d \in CallsOf(p) : pc[d] # "duration"
      BY <1>1, <1>2 DEF Holder
    <2> QED
      BY <1>2, <1>3, <2>1 DEF Holder, Collects
  <1>5. CASE branch[c] = "valid"
    <2>m. MovesTo(p, c, "publish") /\ UNCHANGED <<info, branch>>
      BY <1>2, <1>4, <1>5 DEF Metric, Branch, Goto, MovesTo, Holder, world, local
    <2>s. /\ Suits(p, c, Flow(c), "publish")
          /\ pc[c] \in Final <=> "publish" \in Final
      BY <1>1
      DEF Suits, Labels, Before, Stored, Secreted, Validated, Stamped, Final,
          Reporting
    <2>r. "publish" \in Reporting => Settled(p) /\ branch'[c] = Answer(p)
      BY <1>3, <2>m DEF Reporting
    <2> QED
      BY <1>1, <1>2, <2>m, <2>s, <2>r, HolderMoves
  <1>6. CASE branch[c] # "valid"
    <2>m. MovesTo(p, c, "locate") /\ UNCHANGED <<info, branch>>
      BY <1>2, <1>4, <1>6 DEF Metric, Branch, Goto, MovesTo, Holder, world, local
    <2>s. /\ Suits(p, c, Flow(c), "locate")
          /\ pc[c] \in Final <=> "locate" \in Final
      BY <1>1
      DEF Suits, Labels, Before, Stored, Secreted, Validated, Stamped, Final,
          Reporting
    <2>r. "locate" \in Reporting => Settled(p) /\ branch'[c] = Answer(p)
      BY <1>3, <2>m DEF Reporting
    <2> QED
      BY <1>1, <1>2, <2>m, <2>s, <2>r, HolderMoves
  <1> QED
    BY <1>5, <1>6

\* The secret is known, so the error can be located.
LEMMA LocateErrorExact ==
    ASSUME AllInv, NEW p \in Packets, Regular(p), Exact(p), NEW c \in CallsOf(p),
           LocateError(c)
    PROVE  Exact(p)'
  <1>1. pc[c] = "locate"
    BY DEF LocateError, Branch, Goto
  <1>2. TypeOK /\ Holder(p, c)
    BY <1>1, Holds DEF Holding, Before, Labels
  <1>3. Settled(p) /\ branch[c] = Answer(p)
    BY <1>1, <1>2 DEF Holder, Sends, Reporting
  <1>4. Flow(c).secret
    <2>1. pc[<<p, Ingress>>] \in Secreted
      BY <1>3, CallsOfPacket DEF Settled, Final, Stamped, Validated
    <2> QED
      BY <1>2, <2>1 DEF Holder, Collects
  <1>m. MovesTo(p, c, "publish") /\ UNCHANGED <<info, branch>>
    BY <1>2, <1>4 DEF LocateError, Branch, Goto, MovesTo, Holder, world, local
  <1>s. /\ Suits(p, c, Flow(c), "publish")
        /\ pc[c] \in Final <=> "publish" \in Final
    BY <1>1
    DEF Suits, Labels, Before, Stored, Secreted, Validated, Stamped, Final,
        Reporting
  <1>r. "publish" \in Reporting => Settled(p) /\ branch'[c] = Answer(p)
    BY <1>3, <1>m DEF Reporting
  <1> QED
    BY <1>1, <1>2, <1>m, <1>s, <1>r, HolderMoves

-----------------------------------------------------------------------------
(* The steps that write the flow object *)

\* The handler c goes to b and leaves its flow object at g.
Leaves(p, c, g, b) ==
    /\ \A n \in Nodes : n # c[2] => g.entries[n] = Flow(c).entries[n]
    /\ g.entries[c[2]] = p /\ b \in Stored
    /\ c[2] = Ingress => g.secret = (b \in Secreted)
    /\ c[2] # Ingress => g.secret = Flow(c).secret
    /\ c[2] = Egress => g.valid = IF b \in Validated THEN Answer(p) ELSE "none"
    /\ c[2] # Egress => g.valid = Flow(c).valid
    /\ g.status = IF Settled(p)' THEN IF verdict[p] THEN "Successful" ELSE "Fail"
                  ELSE "Not Finished"
    /\ b \notin {"secretSet", "validSet", "succeed", "fail", "branchFail"}
    /\ Flow(c).stamped \/ b \in Stamped => g.stamped
    /\ Settled(p)' => g.timed \/ b = "duration"

LEMMA NowCollects ==
    ASSUME TypeOK, NEW p \in Packets, NEW c \in CallsOf(p), Holder(p, c), NEW g, NEW b,
           pc' = [pc EXCEPT ![c] = b], UNCHANGED verdict, Leaves(p, c, g, b)
    PROVE  Collects(p, g)'
  <1> USE DEF Leaves
  <1>c. /\ \A d \in CallsOf(p) : d \in Calls /\ pc'[d] = IF d = c THEN b ELSE pc[d]
        /\ \A n \in Nodes : <<p, n>> \in CallsOf(p) /\ (<<p, n>> = c => c[2] = n)
        /\ Ingress \in Nodes /\ Egress \in Nodes
    BY MovedOne
  <1>h. /\ Collects(p, Flow(c)) /\ c \in CallsOf(p) /\ c = <<p, c[2]>> /\ c[2] \in Nodes
        /\ \A d \in CallsOf(p) : d # c => pc[d] \in {"queued", "done"}
    BY DEF Holder
  <1>1. \A n \in Nodes : g.entries[n] = IF pc'[<<p, n>>] \in Stored THEN p ELSE None
    <2>1. ASSUME NEW n \in Nodes, n # c[2]
          PROVE  g.entries[n] = IF pc'[<<p, n>>] \in Stored THEN p ELSE None
      <3>1. pc'[<<p, n>>] = pc[<<p, n>>]
        BY <1>c, <2>1
      <3>2. Flow(c).entries[n] = IF pc[<<p, n>>] \in Stored THEN p ELSE None
        BY <1>h DEF Collects
      <3> QED
        BY <2>1, <3>1, <3>2
    <2>2. pc'[<<p, c[2]>>] = b
      BY <1>c, <1>h
    <2> QED
      BY <2>1, <2>2
  <1>2. g.secret = (pc'[<<p, Ingress>>] \in Secreted)
    <2>1. Flow(c).secret = (pc[<<p, Ingress>>] \in Secreted)
      BY <1>h DEF Collects
    <2>2. CASE c[2] = Ingress
      <3>1. <<p, Ingress>> = c
        BY <1>h, <2>2
      <3>2. pc'[<<p, Ingress>>] = b
        BY <1>c, <1>h, <3>1
      <3> QED
        BY <2>2, <3>2
    <2>3. CASE c[2] # Ingress
      <3>1. pc'[<<p, Ingress>>] = pc[<<p, Ingress>>]
        BY <1>c, <2>3
      <3> QED
        BY <2>1, <2>3, <3>1
    <2> QED
      BY <2>2, <2>3
  <1>3. g.valid = IF pc'[<<p, Egress>>] \in Validated THEN Answer(p) ELSE "none"
    <2>1. Flow(c).valid = IF pc[<<p, Egress>>] \in Validated THEN Answer(p) ELSE "none"
      BY <1>h DEF Collects
    <2>2. CASE c[2] = Egress
      <3>1. <<p, Egress>> = c
        BY <1>h, <2>2
      <3>2. pc'[<<p, Egress>>] = b
        BY <1>c, <1>h, <3>1
      <3> QED
        BY <2>2, <3>2
    <2>3. CASE c[2] # Egress
      <3>1. pc'[<<p, Egress>>] = pc[<<p, Egress>>]
        BY <1>c, <2>3
      <3> QED
        BY <2>1, <2>3, <3>1
    <2> QED
      BY <2>2, <2>3
  <1>4. ASSUME NEW d \in CallsOf(p)
        PROVE  /\ pc'[d] = "secretSet" => ~g.secret
               /\ pc'[d] = "validSet" => g.valid = "none"
               /\ pc'[d] \in Stamped => g.stamped
               /\ pc'[d] = "succeed" => verdict[p]
               /\ pc'[d] = "fail" => ~verdict[p]
               /\ pc'[d] = "branchFail" => g.status # "Successful"
    <2>1. CASE d = c
      BY <1>c, <2>1
    <2>2. CASE d # c
      <3>1. pc'[d] = pc[d] /\ pc[d] \in {"queued", "done"}
        BY <1>c, <1>h, <2>2
      <3>2. pc[d] \in Stamped => Flow(c).stamped
        BY <1>h DEF Collects
      <3> QED
        BY <3>1, <3>2
    <2> QED
      BY <2>1, <2>2
  <1>5. Settled(p)' => g.timed \/ \E d \in CallsOf(p) : pc'[d] = "duration"
    BY <1>c
  <1>6. verdict' = verdict /\ Answer(p)' = Answer(p)
    BY DEF Answer
  <1> QED
    BY <1>1, <1>2, <1>3, <1>4, <1>5, <1>6 DEF Collects

\* A handler that leaves its flow object so keeps the packet exact.
LEMMA HolderWrites ==
    ASSUME TypeOK, NEW p \in Packets, NEW c \in CallsOf(p), Holder(p, c), NEW g,
           NEW from, from # "done", NEW b, Update(c, from, g, b),
           b \notin {"failed", "create", "done"}, b \notin Reporting,
           Settled(p) => Settled(p)', Collects(p, g)'
    PROVE  Exact(p)'
  <1>1. pc[c] = from /\ MovesTo(p, c, b) /\ info' = [info EXCEPT ![ref[c]] = g]
    BY DEF Update, Goto, MovesTo, Holder, world, local
  <1>2. info[FlowOf(p)]' = g
    BY <1>1 DEF MovesTo, Holder, TypeOK, FlowOf
  <1>3. Collects(p, info[FlowOf(p)])'
    BY <1>2
  <1> QED
    BY <1>1, <1>3, Carries DEF Holder

\* Before the last report is worked in, the flow is open.
LEMMA StaysOpen ==
    ASSUME TypeOK, NEW p \in Packets, NEW c \in CallsOf(p), Holder(p, c), NEW b,
           pc' = [pc EXCEPT ![c] = b], pc[c] \notin Final, b \notin Final
    PROVE  ~Settled(p) /\ ~Settled(p)' /\ Flow(c).status = "Not Finished"
  <1>1. Settled(p)' <=> Settled(p)
    BY SameSettled
  <1>2. ~Settled(p)
    BY DEF Settled
  <1> QED
    BY <1>1, <1>2 DEF Holder, Collects

\* The report takes its free place.
LEMMA StoreExact ==
    ASSUME AllInv, NEW p \in Packets, Regular(p), Exact(p), NEW c \in CallsOf(p), Store(c)
    PROVE  Exact(p)'
  <1>1. pc[c] = "store"
    BY DEF Store, Update, Goto
  <1>2. TypeOK /\ Holder(p, c)
    BY <1>1, Holds DEF Holding, Before, Labels
  <1>h. /\ Flow(c) \in FlowInfo /\ Collects(p, Flow(c)) /\ c = <<p, c[2]>> /\ c[2] \in Nodes
        /\ Flow(c).entries[c[2]] = IF pc[c] \in Stored THEN p ELSE None
    BY <1>2 DEF Holder, Collects
  <1>3. PICK g : g = [Flow(c) EXCEPT !.entries[c[2]] = c[1]]
    OBVIOUS
  <1>4. Update(c, "store", g, "secretCheck")
    BY <1>3 DEF Store
  <1>5. pc' = [pc EXCEPT ![c] = "secretCheck"] /\ UNCHANGED verdict
    BY <1>4 DEF Update, Goto, world
  <1>6. ~Settled(p) /\ ~Settled(p)' /\ Flow(c).status = "Not Finished"
    <2>1. pc[c] \notin Final /\ "secretCheck" \notin Final
      BY <1>1 DEF Labels, Before, Stored, Secreted, Validated, Stamped, Final, Reporting
    <2> QED
      BY <1>2, <1>5, <2>1, StaysOpen
  <1>7. /\ \A n \in Nodes : n # c[2] => g.entries[n] = Flow(c).entries[n]
        /\ g.entries[c[2]] = p /\ "secretCheck" \in Stored
        /\ g.status = IF Settled(p)' THEN IF verdict[p] THEN "Successful" ELSE "Fail"
                      ELSE "Not Finished"
        /\ "secretCheck" \notin {"secretSet", "validSet", "succeed", "fail", "branchFail"}
        /\ Flow(c).stamped \/ "secretCheck" \in Stamped => g.stamped
        /\ Settled(p)' => g.timed \/ "secretCheck" = "duration"
    <2>1. \A n \in Nodes : n # c[2] => g.entries[n] = Flow(c).entries[n]
      BY <1>3, <1>h DEF FlowInfo
    <2>2. g.entries[c[2]] = p
      BY <1>1, <1>3, <1>h
      DEF FlowInfo, Labels, Before, Stored, Secreted, Validated, Stamped,
          Final, Reporting
    <2>3. g.status = "Not Finished" /\ (Flow(c).stamped => g.stamped)
      BY <1>3, <1>6, <1>h DEF FlowInfo
    <2>4. "secretCheck" \in Stored /\ ("secretCheck" \in Stamped => g.stamped)
      BY <1>3, <1>h
      DEF FlowInfo, Labels, Before, Stored, Secreted, Validated, Stamped,
          Final, Reporting
    <2> QED
      BY <1>6, <2>1, <2>2, <2>3, <2>4
  <1>8. g.secret = IF c[2] = Ingress THEN "secretCheck" \in Secreted ELSE Flow(c).secret
    <2>1. g.secret = Flow(c).secret
      BY <1>3, <1>h DEF FlowInfo
    <2>2. c[2] = Ingress => Flow(c).secret = (pc[c] \in Secreted)
      BY <1>h DEF Collects
    <2>3. pc[c] \in Secreted <=> "secretCheck" \in Secreted
      BY <1>1 DEF Labels, Before, Stored, Secreted, Validated, Stamped, Final, Reporting
    <2> QED
      BY <2>1, <2>2, <2>3
  <1>9. g.valid = IF c[2] # Egress THEN Flow(c).valid
                  ELSE IF "secretCheck" \in Validated THEN Answer(p) ELSE "none"
    <2>1. g.valid = Flow(c).valid
      BY <1>3, <1>h DEF FlowInfo
    <2>2. c[2] = Egress => Flow(c).valid = IF pc[c] \in Validated THEN Answer(p) ELSE "none"
      BY <1>h DEF Collects
    <2>3. pc[c] \in Validated <=> "secretCheck" \in Validated
      BY <1>1 DEF Labels, Before, Stored, Secreted, Validated, Stamped, Final, Reporting
    <2> QED
      BY <2>1, <2>2, <2>3
  <1>10. Collects(p, g)'
    <2>1. Leaves(p, c, g, "secretCheck")
      BY <1>7, <1>8, <1>9 DEF Leaves
    <2> QED
      BY <1>2, <1>5, <2>1, NowCollects
  <1> QED
    BY <1>2, <1>4, <1>6, <1>10, HolderWrites DEF Reporting

\* Only the report of the ingress node brings a secret.
LEMMA SecretSetExact ==
    ASSUME AllInv, NEW p \in Packets, Regular(p), Exact(p), NEW c \in CallsOf(p), SecretSet(c)
    PROVE  Exact(p)'
  <1>1. pc[c] = "secretSet"
    BY DEF SecretSet, Update, Goto
  <1>2. TypeOK /\ Holder(p, c)
    BY <1>1, Holds DEF Holding, Before, Labels
  <1>h. /\ Flow(c) \in FlowInfo /\ Collects(p, Flow(c)) /\ c = <<p, c[2]>> /\ c[2] \in Nodes
        /\ Flow(c).entries[c[2]] = IF pc[c] \in Stored THEN p ELSE None
    BY <1>2 DEF Holder, Collects
  <1>3. PICK g : g = [Flow(c) EXCEPT !.secret = SecretOf(c)]
    OBVIOUS
  <1>4. Update(c, "secretSet", g, "validCheck")
    BY <1>3 DEF SecretSet
  <1>5. pc' = [pc EXCEPT ![c] = "validCheck"] /\ UNCHANGED verdict
    BY <1>4 DEF Update, Goto, world
  <1>6. ~Settled(p) /\ ~Settled(p)' /\ Flow(c).status = "Not Finished"
    <2>1. pc[c] \notin Final /\ "validCheck" \notin Final
      BY <1>1 DEF Labels, Before, Stored, Secreted, Validated, Stamped, Final, Reporting
    <2> QED
      BY <1>2, <1>5, <2>1, StaysOpen
  <1>7. /\ \A n \in Nodes : n # c[2] => g.entries[n] = Flow(c).entries[n]
        /\ g.entries[c[2]] = p /\ "validCheck" \in Stored
        /\ g.status = IF Settled(p)' THEN IF verdict[p] THEN "Successful" ELSE "Fail"
                      ELSE "Not Finished"
        /\ "validCheck" \notin {"secretSet", "validSet", "succeed", "fail", "branchFail"}
        /\ Flow(c).stamped \/ "validCheck" \in Stamped => g.stamped
        /\ Settled(p)' => g.timed \/ "validCheck" = "duration"
    <2>1. \A n \in Nodes : n # c[2] => g.entries[n] = Flow(c).entries[n]
      BY <1>3, <1>h DEF FlowInfo
    <2>2. g.entries[c[2]] = p
      BY <1>1, <1>3, <1>h
      DEF FlowInfo, Labels, Before, Stored, Secreted, Validated, Stamped,
          Final, Reporting
    <2>3. g.status = "Not Finished" /\ (Flow(c).stamped => g.stamped)
      BY <1>3, <1>6, <1>h DEF FlowInfo
    <2>4. "validCheck" \in Stored /\ ("validCheck" \in Stamped => g.stamped)
      BY <1>3, <1>h
      DEF FlowInfo, Labels, Before, Stored, Secreted, Validated, Stamped,
          Final, Reporting
    <2> QED
      BY <1>6, <2>1, <2>2, <2>3, <2>4
  <1>8. g.secret = IF c[2] = Ingress THEN "validCheck" \in Secreted ELSE Flow(c).secret
    <2>1. g.secret = (c[2] = Ingress)
      BY <1>3, <1>h DEF FlowInfo, SecretOf
    <2>2. ~Flow(c).secret
      BY <1>1, <1>h DEF Collects
    <2>3. "validCheck" \in Secreted
      BY DEF Labels, Before, Stored, Secreted, Validated, Stamped, Final, Reporting
    <2>4. Flow(c).secret \in BOOLEAN
      BY <1>h DEF FlowInfo
    <2>5. Flow(c).secret = FALSE
      BY <2>2, <2>4
    <2> QED
      BY <2>1, <2>3, <2>5
  <1>9. g.valid = IF c[2] # Egress THEN Flow(c).valid
                  ELSE IF "validCheck" \in Validated THEN Answer(p) ELSE "none"
    <2>1. g.valid = Flow(c).valid
      BY <1>3, <1>h DEF FlowInfo
    <2>2. c[2] = Egress => Flow(c).valid = IF pc[c] \in Validated THEN Answer(p) ELSE "none"
      BY <1>h DEF Collects
    <2>3. pc[c] \in Validated <=> "validCheck" \in Validated
      BY <1>1 DEF Labels, Before, Stored, Secreted, Validated, Stamped, Final, Reporting
    <2> QED
      BY <2>1, <2>2, <2>3
  <1>10. Collects(p, g)'
    <2>1. Leaves(p, c, g, "validCheck")
      BY <1>7, <1>8, <1>9 DEF Leaves
    <2> QED
      BY <1>2, <1>5, <2>1, NowCollects
  <1> QED
    BY <1>2, <1>4, <1>6, <1>10, HolderWrites DEF Reporting

\* Only the report of the egress node brings a verification.
LEMMA ValidSetExact ==
    ASSUME AllInv, NEW p \in Packets, Regular(p), Exact(p), NEW c \in CallsOf(p), ValidSet(c)
    PROVE  Exact(p)'
  <1>1. pc[c] = "validSet"
    BY DEF ValidSet, Update, Goto
  <1>2. TypeOK /\ Holder(p, c)
    BY <1>1, Holds DEF Holding, Before, Labels
  <1>h. /\ Flow(c) \in FlowInfo /\ Collects(p, Flow(c)) /\ c = <<p, c[2]>> /\ c[2] \in Nodes
        /\ Flow(c).entries[c[2]] = IF pc[c] \in Stored THEN p ELSE None
    BY <1>2 DEF Holder, Collects
  <1>3. PICK g : g = [Flow(c) EXCEPT !.valid = ValidOf(c)]
    OBVIOUS
  <1>4. Update(c, "validSet", g, "stamp")
    BY <1>3 DEF ValidSet
  <1>5. pc' = [pc EXCEPT ![c] = "stamp"] /\ UNCHANGED verdict
    BY <1>4 DEF Update, Goto, world
  <1>6. ~Settled(p) /\ ~Settled(p)' /\ Flow(c).status = "Not Finished"
    <2>1. pc[c] \notin Final /\ "stamp" \notin Final
      BY <1>1 DEF Labels, Before, Stored, Secreted, Validated, Stamped, Final, Reporting
    <2> QED
      BY <1>2, <1>5, <2>1, StaysOpen
  <1>7. /\ \A n \in Nodes : n # c[2] => g.entries[n] = Flow(c).entries[n]
        /\ g.entries[c[2]] = p /\ "stamp" \in Stored
        /\ g.status = IF Settled(p)' THEN IF verdict[p] THEN "Successful" ELSE "Fail"
                      ELSE "Not Finished"
        /\ "stamp" \notin {"secretSet", "validSet", "succeed", "fail", "branchFail"}
        /\ Flow(c).stamped \/ "stamp" \in Stamped => g.stamped
        /\ Settled(p)' => g.timed \/ "stamp" = "duration"
    <2>1. \A n \in Nodes : n # c[2] => g.entries[n] = Flow(c).entries[n]
      BY <1>3, <1>h DEF FlowInfo
    <2>2. g.entries[c[2]] = p
      BY <1>1, <1>3, <1>h
      DEF FlowInfo, Labels, Before, Stored, Secreted, Validated, Stamped,
          Final, Reporting
    <2>3. g.status = "Not Finished" /\ (Flow(c).stamped => g.stamped)
      BY <1>3, <1>6, <1>h DEF FlowInfo
    <2>4. "stamp" \in Stored /\ ("stamp" \in Stamped => g.stamped)
      BY <1>3, <1>h
      DEF FlowInfo, Labels, Before, Stored, Secreted, Validated, Stamped,
          Final, Reporting
    <2> QED
      BY <1>6, <2>1, <2>2, <2>3, <2>4
  <1>8. g.secret = IF c[2] = Ingress THEN "stamp" \in Secreted ELSE Flow(c).secret
    <2>1. g.secret = Flow(c).secret
      BY <1>3, <1>h DEF FlowInfo
    <2>2. c[2] = Ingress => Flow(c).secret = (pc[c] \in Secreted)
      BY <1>h DEF Collects
    <2>3. pc[c] \in Secreted <=> "stamp" \in Secreted
      BY <1>1 DEF Labels, Before, Stored, Secreted, Validated, Stamped, Final, Reporting
    <2> QED
      BY <2>1, <2>2, <2>3
  <1>9. g.valid = IF c[2] # Egress THEN Flow(c).valid
                  ELSE IF "stamp" \in Validated THEN Answer(p) ELSE "none"
    <2>1. g.valid = ValidOf(c) /\ c[1] = p
      BY <1>3, <1>h DEF FlowInfo
    <2>2. Flow(c).valid = "none"
      BY <1>1, <1>h DEF Collects
    <2>3. "stamp" \in Validated
      BY DEF Labels, Before, Stored, Secreted, Validated, Stamped, Final, Reporting
    <2> QED
      BY <2>1, <2>2, <2>3 DEF ValidOf, Answer
  <1>10. Collects(p, g)'
    <2>1. Leaves(p, c, g, "stamp")
      BY <1>7, <1>8, <1>9 DEF Leaves
    <2> QED
      BY <1>2, <1>5, <2>1, NowCollects
  <1> QED
    BY <1>2, <1>4, <1>6, <1>10, HolderWrites DEF Reporting

\* The report is stamped.
LEMMA StampExact ==
    ASSUME AllInv, NEW p \in Packets, Regular(p), Exact(p), NEW c \in CallsOf(p), Stamp(c)
    PROVE  Exact(p)'
  <1>1. pc[c] = "stamp"
    BY DEF Stamp, Update, Goto
  <1>2. TypeOK /\ Holder(p, c)
    BY <1>1, Holds DEF Holding, Before, Labels
  <1>h. /\ Flow(c) \in FlowInfo /\ Collects(p, Flow(c)) /\ c = <<p, c[2]>> /\ c[2] \in Nodes
        /\ Flow(c).entries[c[2]] = IF pc[c] \in Stored THEN p ELSE None
    BY <1>2 DEF Holder, Collects
  <1>3. PICK g : g = [Flow(c) EXCEPT !.stamped = TRUE]
    OBVIOUS
  <1>4. Update(c, "stamp", g, "settle")
    BY <1>3 DEF Stamp
  <1>5. pc' = [pc EXCEPT ![c] = "settle"] /\ UNCHANGED verdict
    BY <1>4 DEF Update, Goto, world
  <1>6. ~Settled(p) /\ ~Settled(p)' /\ Flow(c).status = "Not Finished"
    <2>1. pc[c] \notin Final /\ "settle" \notin Final
      BY <1>1 DEF Labels, Before, Stored, Secreted, Validated, Stamped, Final, Reporting
    <2> QED
      BY <1>2, <1>5, <2>1, StaysOpen
  <1>7. /\ \A n \in Nodes : n # c[2] => g.entries[n] = Flow(c).entries[n]
        /\ g.entries[c[2]] = p /\ "settle" \in Stored
        /\ g.status = IF Settled(p)' THEN IF verdict[p] THEN "Successful" ELSE "Fail"
                      ELSE "Not Finished"
        /\ "settle" \notin {"secretSet", "validSet", "succeed", "fail", "branchFail"}
        /\ Flow(c).stamped \/ "settle" \in Stamped => g.stamped
        /\ Settled(p)' => g.timed \/ "settle" = "duration"
    <2>1. \A n \in Nodes : n # c[2] => g.entries[n] = Flow(c).entries[n]
      BY <1>3, <1>h DEF FlowInfo
    <2>2. g.entries[c[2]] = p
      BY <1>1, <1>3, <1>h
      DEF FlowInfo, Labels, Before, Stored, Secreted, Validated, Stamped,
          Final, Reporting
    <2>3. g.status = "Not Finished" /\ (Flow(c).stamped => g.stamped)
      BY <1>3, <1>6, <1>h DEF FlowInfo
    <2>4. "settle" \in Stored /\ ("settle" \in Stamped => g.stamped)
      BY <1>3, <1>h
      DEF FlowInfo, Labels, Before, Stored, Secreted, Validated, Stamped,
          Final, Reporting
    <2> QED
      BY <1>6, <2>1, <2>2, <2>3, <2>4
  <1>8. g.secret = IF c[2] = Ingress THEN "settle" \in Secreted ELSE Flow(c).secret
    <2>1. g.secret = Flow(c).secret
      BY <1>3, <1>h DEF FlowInfo
    <2>2. c[2] = Ingress => Flow(c).secret = (pc[c] \in Secreted)
      BY <1>h DEF Collects
    <2>3. pc[c] \in Secreted <=> "settle" \in Secreted
      BY <1>1 DEF Labels, Before, Stored, Secreted, Validated, Stamped, Final, Reporting
    <2> QED
      BY <2>1, <2>2, <2>3
  <1>9. g.valid = IF c[2] # Egress THEN Flow(c).valid
                  ELSE IF "settle" \in Validated THEN Answer(p) ELSE "none"
    <2>1. g.valid = Flow(c).valid
      BY <1>3, <1>h DEF FlowInfo
    <2>2. c[2] = Egress => Flow(c).valid = IF pc[c] \in Validated THEN Answer(p) ELSE "none"
      BY <1>h DEF Collects
    <2>3. pc[c] \in Validated <=> "settle" \in Validated
      BY <1>1 DEF Labels, Before, Stored, Secreted, Validated, Stamped, Final, Reporting
    <2> QED
      BY <2>1, <2>2, <2>3
  <1>10. Collects(p, g)'
    <2>1. Leaves(p, c, g, "settle")
      BY <1>7, <1>8, <1>9 DEF Leaves
    <2> QED
      BY <1>2, <1>5, <2>1, NowCollects
  <1> QED
    BY <1>2, <1>4, <1>6, <1>10, HolderWrites DEF Reporting

\* The last handler of the flow gives it the status of the answer.
LEMMA AssignExact ==
    ASSUME AllInv, NEW p \in Packets, Regular(p), Exact(p), NEW c \in CallsOf(p), Assign(c)
    PROVE  Exact(p)'
  <1>1. pc[c] \in {"succeed", "fail"}
    BY DEF Assign, SetStatus, Update, Goto
  <1>2. TypeOK /\ Holder(p, c)
    BY <1>1, Holds DEF Holding, Before, Labels
  <1>h. /\ Flow(c) \in FlowInfo /\ Collects(p, Flow(c)) /\ c = <<p, c[2]>> /\ c[2] \in Nodes
        /\ Flow(c).entries[c[2]] = IF pc[c] \in Stored THEN p ELSE None
    BY <1>2 DEF Holder, Collects
  <1>v. PICK v : v = IF verdict[p] THEN "Successful" ELSE "Fail"
    OBVIOUS
  <1>3. PICK g : g = [Flow(c) EXCEPT !.status = v]
    OBVIOUS
  <1>4. Update(c, pc[c], g, "duration")
    <2>1. CASE SetStatus(c, "succeed", "Successful")
      <3>1. pc[c] = "succeed"
        BY <2>1 DEF SetStatus, Update, Goto
      <3>2. v = "Successful"
        BY <1>v, <1>h, <3>1 DEF Collects
      <3> QED
        BY <1>3, <2>1, <3>1, <3>2 DEF SetStatus
    <2>2. CASE SetStatus(c, "fail", "Fail")
      <3>1. pc[c] = "fail"
        BY <2>2 DEF SetStatus, Update, Goto
      <3>2. v = "Fail"
        BY <1>v, <1>h, <3>1 DEF Collects
      <3> QED
        BY <1>3, <2>2, <3>1, <3>2 DEF SetStatus
    <2> QED
      BY <2>1, <2>2 DEF Assign
  <1>5. pc' = [pc EXCEPT ![c] = "duration"] /\ UNCHANGED verdict
    BY <1>4 DEF Update, Goto, world
  <1>6. Settled(p)'
    <2>1. \A n \in Nodes : Flow(c).entries[n] # None
      BY <1>1, <1>2 DEF AllInv, EarlyInv, Settling, Complete, Holder
    <2>2. ASSUME NEW d \in CallsOf(p), d # c
          PROVE  pc'[d] \in Final
      <3>1. pc[d] \in Stored
        <4>1. d = <<p, d[2]>> /\ d[2] \in Nodes
          BY CallsOfPacket
        <4>2. Flow(c).entries[d[2]] = IF pc[<<p, d[2]>>] \in Stored THEN p ELSE None
          BY <1>h, <4>1 DEF Collects
        <4> QED
          BY <2>1, <4>1, <4>2
      <3>2. pc[d] = "done"
        BY <1>2, <2>2, <3>1 DEF Holder, Stored, Before
      <3>3. pc'[d] = pc[d]
        BY <1>2, <1>5, <2>2 DEF TypeOK
      <3> QED
        BY <3>2, <3>3
        DEF Labels, Before, Stored, Secreted, Validated, Stamped, Final,
            Reporting
    <2>3. pc'[c] = "duration"
      BY <1>2, <1>5 DEF TypeOK, Holder
    <2>4. "duration" \in Final
      BY DEF Labels, Before, Stored, Secreted, Validated, Stamped, Final, Reporting
    <2> QED
      BY <2>2, <2>3, <2>4 DEF Settled
  <1>7. /\ \A n \in Nodes : n # c[2] => g.entries[n] = Flow(c).entries[n]
        /\ g.entries[c[2]] = p /\ "duration" \in Stored
        /\ g.status = IF Settled(p)' THEN IF verdict[p] THEN "Successful" ELSE "Fail"
                      ELSE "Not Finished"
        /\ "duration" \notin {"secretSet", "validSet", "succeed", "fail", "branchFail"}
        /\ Flow(c).stamped \/ "duration" \in Stamped => g.stamped
        /\ Settled(p)' => g.timed \/ "duration" = "duration"
    <2>1. \A n \in Nodes : n # c[2] => g.entries[n] = Flow(c).entries[n]
      BY <1>3, <1>h DEF FlowInfo
    <2>2. g.entries[c[2]] = p
      BY <1>1, <1>3, <1>h
      DEF FlowInfo, Labels, Before, Stored, Secreted, Validated, Stamped,
          Final, Reporting
    <2>3. g.stamped
      <3>1. Flow(c).stamped
        BY <1>1, <1>2, <1>h
        DEF Collects, Labels, Before, Stored, Secreted, Validated, Stamped,
            Final, Reporting
      <3> QED
        BY <1>3, <1>h, <3>1 DEF FlowInfo
    <2>4. "duration" \in Stored
      BY DEF Labels, Before, Stored, Secreted, Validated, Stamped, Final, Reporting
    <2>5. g.status = IF verdict[p] THEN "Successful" ELSE "Fail"
      BY <1>v, <1>3, <1>h DEF FlowInfo
    <2> QED
      BY <1>6, <2>1, <2>2, <2>3, <2>4, <2>5
  <1>8. g.secret = IF c[2] = Ingress THEN "duration" \in Secreted ELSE Flow(c).secret
    <2>1. g.secret = Flow(c).secret
      BY <1>3, <1>h DEF FlowInfo
    <2>2. c[2] = Ingress => Flow(c).secret = (pc[c] \in Secreted)
      BY <1>h DEF Collects
    <2>3. pc[c] \in Secreted <=> "duration" \in Secreted
      BY <1>1 DEF Labels, Before, Stored, Secreted, Validated, Stamped, Final, Reporting
    <2> QED
      BY <2>1, <2>2, <2>3
  <1>9. g.valid = IF c[2] # Egress THEN Flow(c).valid
                  ELSE IF "duration" \in Validated THEN Answer(p) ELSE "none"
    <2>1. g.valid = Flow(c).valid
      BY <1>3, <1>h DEF FlowInfo
    <2>2. c[2] = Egress => Flow(c).valid = IF pc[c] \in Validated THEN Answer(p) ELSE "none"
      BY <1>h DEF Collects
    <2>3. pc[c] \in Validated <=> "duration" \in Validated
      BY <1>1 DEF Labels, Before, Stored, Secreted, Validated, Stamped, Final, Reporting
    <2> QED
      BY <2>1, <2>2, <2>3
  <1>10. Collects(p, g)'
    <2>1. Leaves(p, c, g, "duration")
      BY <1>7, <1>8, <1>9 DEF Leaves
    <2> QED
      BY <1>2, <1>5, <2>1, NowCollects
  <1>11. pc[c] # "done"
    BY <1>1
  <1> QED
    BY <1>2, <1>4, <1>6, <1>10, <1>11, HolderWrites DEF Reporting

\* A report was stamped before, so the duration can be told.
LEMMA DurationExact ==
    ASSUME AllInv, NEW p \in Packets, Regular(p), Exact(p), NEW c \in CallsOf(p), Duration(c)
    PROVE  Exact(p)'
  <1>1. pc[c] = "duration"
    BY DEF Duration
  <1>2. TypeOK /\ Holder(p, c)
    BY <1>1, Holds DEF Holding, Before, Labels
  <1>h. /\ Flow(c) \in FlowInfo /\ Collects(p, Flow(c)) /\ c = <<p, c[2]>> /\ c[2] \in Nodes
        /\ Flow(c).entries[c[2]] = IF pc[c] \in Stored THEN p ELSE None
    BY <1>2 DEF Holder, Collects
  <1>3. PICK g : g = [Flow(c) EXCEPT !.timed = TRUE]
    OBVIOUS
  <1>4. Update(c, "duration", g, "branchOk")
    <2>1. Flow(c).stamped
      BY <1>1, <1>h
      DEF Collects, Labels, Before, Stored, Secreted, Validated, Stamped,
          Final, Reporting
    <2> QED
      BY <1>3, <2>1 DEF Duration
  <1>5. pc' = [pc EXCEPT ![c] = "branchOk"] /\ UNCHANGED verdict
    BY <1>4 DEF Update, Goto, world
  <1>6. Settled(p)' <=> Settled(p)
    <2>1. pc[c] \in Final /\ "branchOk" \in Final
      BY <1>1 DEF Labels, Before, Stored, Secreted, Validated, Stamped, Final, Reporting
    <2> QED
      BY <1>2, <1>5, <2>1, SameSettled
  <1>7. /\ \A n \in Nodes : n # c[2] => g.entries[n] = Flow(c).entries[n]
        /\ g.entries[c[2]] = p /\ "branchOk" \in Stored
        /\ g.status = IF Settled(p)' THEN IF verdict[p] THEN "Successful" ELSE "Fail"
                      ELSE "Not Finished"
        /\ "branchOk" \notin {"secretSet", "validSet", "succeed", "fail", "branchFail"}
        /\ Flow(c).stamped \/ "branchOk" \in Stamped => g.stamped
        /\ Settled(p)' => g.timed \/ "branchOk" = "duration"
    <2>1. \A n \in Nodes : n # c[2] => g.entries[n] = Flow(c).entries[n]
      BY <1>3, <1>h DEF FlowInfo
    <2>2. g.entries[c[2]] = p
      BY <1>1, <1>3, <1>h
      DEF FlowInfo, Labels, Before, Stored, Secreted, Validated, Stamped,
          Final, Reporting
    <2>3. g.stamped
      <3>1. Flow(c).stamped
        BY <1>1, <1>2, <1>h
        DEF Collects, Labels, Before, Stored, Secreted, Validated, Stamped,
            Final, Reporting
      <3> QED
        BY <1>3, <1>h, <3>1 DEF FlowInfo
    <2>4. "branchOk" \in Stored
      BY DEF Labels, Before, Stored, Secreted, Validated, Stamped, Final, Reporting
    <2>5. g.status = Flow(c).status /\ g.timed
      BY <1>3, <1>h DEF FlowInfo
    <2>6. Flow(c).status = IF Settled(p) THEN IF verdict[p] THEN "Successful" ELSE "Fail"
                           ELSE "Not Finished"
      BY <1>h DEF Collects
    <2> QED
      BY <1>6, <2>1, <2>2, <2>3, <2>4, <2>5, <2>6
  <1>8. g.secret = IF c[2] = Ingress THEN "branchOk" \in Secreted ELSE Flow(c).secret
    <2>1. g.secret = Flow(c).secret
      BY <1>3, <1>h DEF FlowInfo
    <2>2. c[2] = Ingress => Flow(c).secret = (pc[c] \in Secreted)
      BY <1>h DEF Collects
    <2>3. pc[c] \in Secreted <=> "branchOk" \in Secreted
      BY <1>1 DEF Labels, Before, Stored, Secreted, Validated, Stamped, Final, Reporting
    <2> QED
      BY <2>1, <2>2, <2>3
  <1>9. g.valid = IF c[2] # Egress THEN Flow(c).valid
                  ELSE IF "branchOk" \in Validated THEN Answer(p) ELSE "none"
    <2>1. g.valid = Flow(c).valid
      BY <1>3, <1>h DEF FlowInfo
    <2>2. c[2] = Egress => Flow(c).valid = IF pc[c] \in Validated THEN Answer(p) ELSE "none"
      BY <1>h DEF Collects
    <2>3. pc[c] \in Validated <=> "branchOk" \in Validated
      BY <1>1 DEF Labels, Before, Stored, Secreted, Validated, Stamped, Final, Reporting
    <2> QED
      BY <2>1, <2>2, <2>3
  <1>10. Collects(p, g)'
    <2>1. Leaves(p, c, g, "branchOk")
      BY <1>7, <1>8, <1>9 DEF Leaves
    <2> QED
      BY <1>2, <1>5, <2>1, NowCollects
  <1> QED
    BY <1>2, <1>4, <1>6, <1>10, HolderWrites DEF Reporting

\* The last handler, and no other, sends the answer.
LEMMA SendExact ==
    ASSUME AllInv, NEW p \in Packets, Regular(p), Exact(p), NEW c \in CallsOf(p),
           SendToKafka(c)
    PROVE  Exact(p)'
  <1>1. pc[c] = "publish" /\ pc' = [pc EXCEPT ![c] = "done"]
    BY DEF SendToKafka, Goto
  <1>2. TypeOK /\ Holder(p, c)
    BY <1>1, Holds DEF Holding, Before, Labels
  <1>3. /\ UNCHANGED <<seqOf, verdict, ref, branch, flow_status, info>>
        /\ kafka' = [kafka EXCEPT ![c] = Reported(Flow(c))]
    BY DEF SendToKafka, world, local
  <1>4. Settled(p)
    BY <1>1, <1>2 DEF Holder, Sends, Reporting
  <1>5. Reported(Flow(c)) = Answer(p)
    BY <1>2, <1>4 DEF Holder, Collects, Reported, Answer
  <1>6. FlowOf(p)' = FlowOf(p) /\ Answer(p)' = Answer(p) /\ info[FlowOf(p)]' = info[FlowOf(p)]
    BY <1>3 DEF FlowOf, Answer
  <1>7. Settled(p)' <=> Settled(p)
    <2>1. pc[c] \in Final /\ "done" \in Final
      BY <1>1 DEF Labels, Before, Stored, Secreted, Validated, Stamped, Final, Reporting
    <2> QED
      BY <1>1, <1>2, <2>1, SameSettled
  <1>8. Collects(p, info[FlowOf(p)])'
    <2>1. Suits(p, c, info[FlowOf(p)], "done")
      BY <1>1
      DEF Suits, Labels, Before, Stored, Secreted, Validated, Stamped, Final,
          Reporting
    <2>2. Collects(p, info[FlowOf(p)])
      BY <1>2 DEF Holder
    <2> QED
      BY <1>1, <1>2, <1>3, <1>6, <1>7, <2>1, <2>2, StillCollects
  <1>9. \A d \in CallsOf(p) : pc'[d] = "done"
    <2>1. ASSUME NEW d \in CallsOf(p), d # c
          PROVE  pc'[d] = "done"
      <3>1. pc[d] = "done"
        BY <1>2, <1>4, <2>1
        DEF Holder, Settled, Labels, Before, Stored, Secreted, Validated,
            Stamped, Final, Reporting
      <3> QED
        BY <1>1, <1>2, <2>1, <3>1 DEF TypeOK
    <2>2. pc'[c] = "done"
      BY <1>1, <1>2 DEF TypeOK, Holder
    <2> QED
      BY <2>1, <2>2
  <1>10. Started(p)'
    BY <1>2, <1>3, <1>6, <1>9 DEF Holder, Started
  <1>11. Sends(p)'
    <2>1. \A d \in CallsOf(p) : kafka'[d] = IF d = c THEN Answer(p) ELSE "none"
      <3>1. \A d \in CallsOf(p) : kafka[d] = "none" /\ d \in Calls
        BY <1>1, <1>2, NothingSent, CallsOfPacket DEF Holder
      <3> QED
        BY <1>2, <1>3, <1>5, <3>1 DEF TypeOK
    <2>2. Answer(p) # "none"
      BY DEF Answer
    <2> QED
      BY <1>6, <1>9, <2>1, <2>2 DEF Sends, Reporting
  <1> QED
    BY <1>6, <1>8, <1>10, <1>11 DEF Exact

-----------------------------------------------------------------------------
(* The steps before a handler has its flow object *)

\* While the flow object is not there, the handlers of p are on their way to it.
LEMMA EarlyMoves ==
    ASSUME TypeOK, NEW p \in Packets, Exact(p), NEW c \in CallsOf(p), FlowOf(p) = None,
           NEW b \in {"lookup", "check", "create"}, pc' = [pc EXCEPT ![c] = b],
           UNCHANGED <<seqOf, verdict, ref, flow_status, info, kafka>>
    PROVE  Exact(p)'
  <1>1. \A d \in CallsOf(p) : pc'[d] = IF d = c THEN b ELSE pc[d]
    <2>1. \A d \in CallsOf(p) : d \in Calls
      BY CallsOfPacket
    <2> QED
      BY <2>1 DEF TypeOK
  <1>2. Started(p) /\ Sends(p)
    BY DEF Exact
  <1>3. FlowOf(p)' = FlowOf(p) /\ Answer(p)' = Answer(p)
    BY DEF FlowOf, Answer
  <1>4. \A d \in CallsOf(p) : pc'[d] \in {"queued", "lookup", "check", "create"}
    BY <1>1, <1>2 DEF Started
  <1>5. Started(p)'
    BY <1>2, <1>3, <1>4 DEF Started
  <1>6. Sends(p)'
    <2>1. pc[c] # "done"
      BY <1>2 DEF Started
    <2>2. \A d \in CallsOf(p) : kafka'[d] = "none"
      BY <1>2, <2>1, NothingSent
    <2> QED
      BY <1>4, <2>2 DEF Sends, Reporting
  <1> QED
    BY <1>3, <1>5, <1>6 DEF Exact

\* And once it is there, they go and fetch it.
LEMMA LaterMoves ==
    ASSUME TypeOK, NEW p \in Packets, Exact(p), NEW c \in CallsOf(p), FlowOf(p) # None,
           NEW b \in {"lookup", "check", "fetch", "guard"}, MovesTo(p, c, b),
           UNCHANGED info, pc[c] \in {"queued", "lookup", "check", "fetch"}
    PROVE  Exact(p)'
  <1>1. Started(p) /\ Sends(p) /\ Collects(p, info[FlowOf(p)])
    BY DEF Exact
  <1>2. /\ pc[c] \notin Stored /\ b \notin Stored
        /\ b \notin Reporting /\ b # "done" /\ pc[c] # "done"
    BY DEF Stored, Before, Reporting
  <1>3. Settled(p)' <=> Settled(p)
    BY <1>2, SameSettled DEF MovesTo, Final, Stamped, Validated, Secreted
  <1>4. Suits(p, c, info[FlowOf(p)], b)
    BY <1>2 DEF Suits, Stamped, Validated, Secreted
  <1> QED
    BY <1>1, <1>2, <1>3, <1>4, Moves

\* A handler is dispatched, looks the flow up and fetches it.
LEMMA EarlyExact ==
    ASSUME AllInv, NEW p \in Packets, Regular(p), Exact(p), NEW c \in CallsOf(p),
           Dispatch(c) \/ HandleLog(c) \/ CheckFlow(c) \/ FetchFlow(c)
    PROVE  Exact(p)'
  <1>t. TypeOK /\ c \in Calls /\ SeqOf(c) = seqOf[p]
    BY CallsOfPacket DEF AllInv
  <1>s. Started(p)
    BY DEF Exact
  <1>r. \A d \in CallsOf(p) : ref[d] # None => ref[d] = FlowOf(p)
    BY <1>s DEF Started
  <1>1. CASE Dispatch(c)
    <2>1. /\ pc[c] = "queued" /\ pc' = [pc EXCEPT ![c] = "lookup"]
          /\ UNCHANGED <<seqOf, verdict, ref, branch, flow_status, info, kafka>>
      BY <1>1 DEF Dispatch, Goto, world, local
    <2>2. MovesTo(p, c, "lookup")
      BY <1>r, <2>1 DEF MovesTo
    <2> QED
      BY <1>t, <2>1, <2>2, EarlyMoves, LaterMoves
  <1>2. CASE HandleLog(c)
    <2>1. paths
      BY DEF AllInv, PathInv, Regular, Verdicts
    <2>2. /\ pc[c] = "lookup" /\ pc' = [pc EXCEPT ![c] = "check"]
          /\ UNCHANGED <<seqOf, verdict, ref, branch, flow_status, info, kafka>>
      BY <1>2, <2>1 DEF HandleLog, Branch, Goto, world, local
    <2>3. MovesTo(p, c, "check")
      BY <1>r, <2>2 DEF MovesTo
    <2> QED
      BY <1>t, <2>2, <2>3, EarlyMoves, LaterMoves
  <1>3. CASE CheckFlow(c)
    <2>1. /\ pc[c] = "check"
          /\ pc' = [pc EXCEPT ![c] = IF FlowOf(p) # None THEN "fetch" ELSE "create"]
          /\ UNCHANGED <<seqOf, verdict, ref, branch, flow_status, info, kafka>>
      BY <1>3, <1>t DEF CheckFlow, Known, FlowOf, Branch, Goto, world, local
    <2>2. CASE FlowOf(p) # None
      <3>1. MovesTo(p, c, "fetch")
        BY <1>r, <2>1, <2>2 DEF MovesTo
      <3> QED
        BY <1>t, <2>1, <2>2, <3>1, LaterMoves
    <2>3. CASE FlowOf(p) = None
      BY <1>t, <2>1, <2>3, EarlyMoves
    <2> QED
      BY <2>2, <2>3
  <1>4. CASE FetchFlow(c)
    <2>1. /\ pc[c] = "fetch" /\ pc' = [pc EXCEPT ![c] = "guard"]
          /\ ref' = [ref EXCEPT ![c] = FlowOf(p)]
          /\ UNCHANGED <<seqOf, verdict, branch, flow_status, info, kafka>>
      BY <1>4, <1>t DEF FetchFlow, FlowOf, Goto, world
    <2>2. FlowOf(p) # None
      BY <1>s, <2>1 DEF Started
    <2>3. \A d \in CallsOf(p) : ref'[d] # None => ref'[d] = FlowOf(p)
      <3>1. \A d \in CallsOf(p) : d \in Calls
        BY CallsOfPacket
      <3> QED
        BY <1>t, <1>r, <2>1, <3>1 DEF TypeOK
    <2>4. MovesTo(p, c, "guard")
      BY <2>1, <2>3 DEF MovesTo
    <2> QED
      BY <1>t, <2>1, <2>2, <2>4, LaterMoves
  <1> QED
    BY <1>1, <1>2, <1>3, <1>4

\* The first handler makes the flow object, which is empty.
LEMMA CreateExact ==
    ASSUME AllInv, NEW p \in Packets, Regular(p), Exact(p), NEW c \in CallsOf(p),
           CreateFlow(c)
    PROVE  Exact(p)'
  <1>t. TypeOK /\ RefInv /\ c \in Calls /\ SeqOf(c) = seqOf[p] /\ c # None
    BY CallsOfPacket DEF AllInv
  <1>s. Started(p) /\ Sends(p)
    BY DEF Exact
  <1>1. /\ pc[c] = "create" /\ pc' = [pc EXCEPT ![c] = "fetch"]
        /\ flow_status' = [flow_status EXCEPT ![seqOf[p]] = c]
        /\ UNCHANGED <<seqOf, verdict, ref, branch, info, kafka>>
    BY <1>t DEF CreateFlow, Goto, world, local
  <1>2. FlowOf(p) = None
    BY <1>s, <1>1 DEF Started
  <1>3. FlowOf(p)' = c /\ Answer(p)' = Answer(p) /\ info[FlowOf(p)]' = NewFlow
    <2>1. info[c] = NewFlow
      BY <1>s, <1>2 DEF Started
    <2> QED
      BY <1>t, <1>1, <2>1 DEF FlowOf, Answer, TypeOK
  <1>4. \A d \in CallsOf(p) : /\ pc'[d] \in {"queued", "lookup", "check", "fetch"}
                              /\ ref'[d] = None
    <2>1. pc'[c] = "fetch" /\ ref'[c] = None
      BY <1>t, <1>1 DEF TypeOK, RefInv, Before
    <2>2. ASSUME NEW d \in CallsOf(p), d # c
          PROVE  pc'[d] = "queued" /\ ref'[d] = None
      <3>1. pc[d] \in {"queued", "done"}
        BY <1>s, <1>1, <2>2, SoleRunner DEF AllInv
      <3>2. pc[d] = "queued" /\ d \in Calls
        BY <1>s, <1>2, <3>1, CallsOfPacket DEF Started
      <3> QED
        BY <1>t, <1>1, <2>2, <3>2 DEF TypeOK, RefInv, Before
    <2> QED
      BY <2>1, <2>2
  <1>5. Started(p)'
    BY <1>t, <1>3, <1>4 DEF Started
  <1>6. Sends(p)'
    <2>1. \A d \in CallsOf(p) : kafka'[d] = "none"
      BY <1>s, <1>1, NothingSent
    <2> QED
      BY <1>4, <2>1 DEF Sends, Reporting
  <1>7. Collects(p, info[FlowOf(p)])'
    <2>1. \A n \in Nodes : <<p, n>> \in CallsOf(p)
      BY CallsOfPacket
    <2>2. \A d \in CallsOf(p) : /\ pc'[d] \notin Stored
                                /\ pc'[d] \in {"queued", "lookup", "check", "fetch"}
      BY <1>4 DEF Stored, Before
    <2>3. ~Settled(p)'
      BY <2>1, <2>2, NodesAssumption DEF Settled, Final, Stamped, Validated, Secreted
    <2>4. /\ \A n \in Nodes : NewFlow.entries[n] = None
          /\ NewFlow.secret = FALSE /\ NewFlow.valid = "none"
          /\ NewFlow.status = "Not Finished"
      BY DEF NewFlow
    <2>5. NewFlow' = NewFlow
      BY DEF NewFlow
    <2>6. Collects(p, NewFlow)'
      <3>1. \A n \in Nodes : NewFlow.entries[n] = IF pc'[<<p, n>>] \in Stored THEN p ELSE None
        BY <2>1, <2>2, <2>4
      <3>2. NewFlow.secret = (pc'[<<p, Ingress>>] \in Secreted)
        <4>1. pc'[<<p, Ingress>>] \notin Secreted
          BY <2>1, <2>2, NodesAssumption DEF Secreted
        <4>2. (pc'[<<p, Ingress>>] \in Secreted) = FALSE
          BY <4>1
        <4>3. NewFlow.secret = FALSE
          BY <2>4
        <4> QED
          BY <4>2, <4>3
      <3>3. NewFlow.valid = IF pc'[<<p, Egress>>] \in Validated THEN Answer(p)' ELSE "none"
        BY <2>1, <2>2, <2>4, NodesAssumption DEF Validated, Secreted
      <3>4. \A d \in CallsOf(p) : pc'[d] \notin Stamped
        BY <2>2 DEF Stamped, Validated, Secreted
      <3> QED
        BY <2>2, <2>3, <2>4, <2>5, <3>1, <3>2, <3>3, <3>4 DEF Collects
    <2> QED
      BY <1>3, <2>5, <2>6
  <1> QED
    BY <1>3, <1>5, <1>6, <1>7, <1>t DEF Exact

-----------------------------------------------------------------------------
(* The steps of the others *)

\* A step that leaves alone all that Exact(p) speaks of.
LEMMA NothingOfPacket ==
    ASSUME NEW p \in Packets, Exact(p), UNCHANGED <<seqOf, verdict>>,
           flow_status'[seqOf[p]] = flow_status[seqOf[p]],
           FlowOf(p) # None => info'[FlowOf(p)] = info[FlowOf(p)],
           \A c \in CallsOf(p) : /\ pc'[c] = pc[c] /\ ref'[c] = ref[c]
                                 /\ branch'[c] = branch[c] /\ kafka'[c] = kafka[c]
                                 /\ info'[c] = info[c]
    PROVE  Exact(p)'
  <1>1. FlowOf(p)' = FlowOf(p) /\ Answer(p)' = Answer(p)
    BY DEF FlowOf, Answer
  <1>2. Settled(p)' <=> Settled(p)
    BY DEF Settled
  <1>3. Started(p)'
    BY <1>1 DEF Exact, Started
  <1>4. Sends(p)'
    BY <1>1, <1>2 DEF Exact, Sends
  <1>5. ASSUME FlowOf(p) # None
        PROVE  Collects(p, info[FlowOf(p)])'
    <2>1. PICK f : f = info[FlowOf(p)]
      OBVIOUS
    <2>2. Collects(p, f) /\ info[FlowOf(p)]' = f
      BY <1>1, <1>5, <2>1 DEF Exact
    <2>3. /\ \A n \in Nodes : pc'[<<p, n>>] = pc[<<p, n>>]
          /\ pc'[<<p, Ingress>>] = pc[<<p, Ingress>>]
          /\ pc'[<<p, Egress>>] = pc[<<p, Egress>>]
      BY CallsOfPacket
    <2>4. Collects(p, f)'
      <3>1. /\ \A n \in Nodes : f.entries[n] = IF pc'[<<p, n>>] \in Stored THEN p ELSE None
            /\ f.secret = (pc'[<<p, Ingress>>] \in Secreted)
            /\ f.valid = IF pc'[<<p, Egress>>] \in Validated THEN Answer(p)' ELSE "none"
        BY <1>1, <2>2, <2>3 DEF Collects
      <3>2. f.status = IF Settled(p)' THEN IF verdict'[p] THEN "Successful" ELSE "Fail"
                       ELSE "Not Finished"
        BY <1>2, <2>2 DEF Collects
      <3>3. \A c \in CallsOf(p) :
               /\ pc'[c] = "secretSet" => ~f.secret
               /\ pc'[c] = "validSet" => f.valid = "none"
               /\ pc'[c] \in Stamped => f.stamped
               /\ pc'[c] = "succeed" => verdict'[p]
               /\ pc'[c] = "fail" => ~verdict'[p]
               /\ pc'[c] = "branchFail" => f.status # "Successful"
        <4>1. \A c \in CallsOf(p) :
                 /\ pc[c] = "secretSet" => ~f.secret
                 /\ pc[c] = "validSet" => f.valid = "none"
                 /\ pc[c] \in Stamped => f.stamped
                 /\ pc[c] = "succeed" => verdict[p]
                 /\ pc[c] = "fail" => ~verdict[p]
                 /\ pc[c] = "branchFail" => f.status # "Successful"
          BY <2>2 DEF Collects
        <4> QED
          BY <4>1
      <3>4. Settled(p)' => f.timed \/ \E c \in CallsOf(p) : pc'[c] = "duration"
        BY <1>2, <2>2 DEF Collects
      <3> QED
        BY <3>1, <3>2, <3>3, <3>4 DEF Collects
    <2> QED
      BY <2>2, <2>4
  <1> QED
    BY <1>1, <1>3, <1>4, <1>5 DEF Exact

\* A handler of another packet has another number, and another flow object.
LEMMA OthersExact ==
    ASSUME AllInv, NEW p \in Packets, Regular(p), Exact(p),
           NEW d \in Calls, d \notin CallsOf(p), Dispatch(d) \/ Handle(d)
    PROVE  Exact(p)'
  <1>t. TypeOK /\ RefInv /\ SoundInv
    BY DEF AllInv
  <1>d. /\ SeqOf(d) # seqOf[p]
        /\ \A c \in CallsOf(p) : c \in Calls /\ c # d /\ SeqOf(c) = seqOf[p]
    BY CallsOfPacket DEF Regular, Unique, SeqOf
  <1>r. /\ ref[d] \notin CallsOf(p)
        /\ FlowOf(p) # None => FlowOf(p) \in CallsOf(p)
    <2>1. ref[d] \in Calls => SeqOf(ref[d]) = SeqOf(d)
      BY <1>t DEF SoundInv
    <2>2. seqOf[p] \in Seqs /\ flow_status[seqOf[p]] \in Calls \cup {None}
      BY <1>t DEF TypeOK
    <2>3. FlowOf(p) # None => FlowOf(p) \in Calls /\ SeqOf(FlowOf(p)) = seqOf[p]
      BY <1>t, <2>2 DEF SoundInv, FlowOf
    <2>4. \A c \in Calls : SeqOf(c) = seqOf[p] => c \in CallsOf(p)
      BY CallsOfPacket DEF Regular, Unique, SeqOf
    <2> QED
      BY <1>d, <2>1, <2>3, <2>4
  <1>1. UNCHANGED <<seqOf, verdict>>
    BY DEF Dispatch, Handle, HandleLog, CheckFlow, CreateFlow, FetchFlow, Guard,
           NodeCheck, Store, SecretCheck, SecretSet, ValidCheck, ValidSet, Stamp,
           Settle, Evaluate, Assign, SetStatus, Duration, BranchOk, BranchFail, Enter,
           Acquire, Write, SetLock, Metric, LocateError, SendToKafka, Branch, Update,
           world, local
  <1>2. \A c \in CallsOf(p) : pc'[c] = pc[c]
    BY <1>t, <1>d
    DEF Dispatch, Handle, HandleLog, CheckFlow, CreateFlow, FetchFlow, Guard,
        NodeCheck, Store, SecretCheck, SecretSet, ValidCheck, ValidSet, Stamp, Settle,
        Evaluate, Assign, SetStatus, Duration, BranchOk, BranchFail, Enter, Acquire,
        Write, SetLock, Metric, LocateError, SendToKafka, Branch, Update, Goto, TypeOK
  <1>3. \A c \in CallsOf(p) : ref'[c] = ref[c]
    <2>1. CASE FetchFlow(d)
      BY <1>t, <1>d, <2>1 DEF FetchFlow, TypeOK
    <2>2. CASE ~FetchFlow(d)
      BY <2>2
      DEF Dispatch, Handle, HandleLog, CheckFlow, CreateFlow, Guard, NodeCheck, Store,
          SecretCheck, SecretSet, ValidCheck, ValidSet, Stamp, Settle, Evaluate, Assign,
          SetStatus, Duration, BranchOk, BranchFail, Enter, Acquire, Write, SetLock,
          Metric, LocateError, SendToKafka, Branch, Update, local
    <2> QED
      BY <2>1, <2>2
  <1>4. \A c \in CallsOf(p) : branch'[c] = branch[c]
    <2>1. CASE BranchOk(d) \/ BranchFail(d)
      BY <1>t, <1>d, <2>1 DEF BranchOk, BranchFail, Enter, Branch, local, TypeOK
    <2>2. CASE ~(BranchOk(d) \/ BranchFail(d))
      BY <2>2
      DEF Dispatch, Handle, HandleLog, CheckFlow, CreateFlow, FetchFlow, Guard, NodeCheck,
          Store, SecretCheck, SecretSet, ValidCheck, ValidSet, Stamp, Settle, Evaluate,
          Assign, SetStatus, Duration, Acquire, Write, SetLock, Metric, LocateError,
          SendToKafka, Branch, Update, local
    <2> QED
      BY <2>1, <2>2
  <1>5. \A c \in CallsOf(p) : kafka'[c] = kafka[c]
    <2>1. CASE SendToKafka(d)
      BY <1>t, <1>d, <2>1 DEF SendToKafka, TypeOK
    <2>2. CASE ~SendToKafka(d)
      BY <2>2
      DEF Dispatch, Handle, HandleLog, CheckFlow, CreateFlow, FetchFlow, Guard, NodeCheck,
          Store, SecretCheck, SecretSet, ValidCheck, ValidSet, Stamp, Settle, Evaluate,
          Assign, SetStatus, Duration, BranchOk, BranchFail, Enter, Acquire, Write,
          SetLock, Metric, LocateError, Branch, Update
    <2> QED
      BY <2>1, <2>2
  <1>6. flow_status'[seqOf[p]] = flow_status[seqOf[p]]
    <2>1. CASE CreateFlow(d)
      BY <1>t, <1>d, <2>1 DEF CreateFlow, TypeOK
    <2>2. CASE ~CreateFlow(d)
      BY <2>2
      DEF Dispatch, Handle, HandleLog, CheckFlow, FetchFlow, Guard, NodeCheck,
          Store, SecretCheck, SecretSet, ValidCheck, ValidSet, Stamp, Settle, Evaluate,
          Assign, SetStatus, Duration, BranchOk, BranchFail, Enter, Acquire, Write,
          SetLock, Metric, LocateError, SendToKafka, Branch, Update
    <2> QED
      BY <2>1, <2>2
  <1>7. \A c \in CallsOf(p) : info'[c] = info[c]
    <2>1. ASSUME NEW c \in CallsOf(p), NEW from, NEW flow, NEW to, Update(d, from, flow, to)
          PROVE  info'[c] = info[c]
      BY <1>t, <1>d, <1>r, <2>1 DEF Update, TypeOK
    <2>2. CASE WritesInfo(d)
      BY <2>1, <2>2
      DEF WritesInfo, Store, SecretSet, ValidSet, Stamp, Assign, SetStatus, Duration, Branch
    <2>3. CASE ~WritesInfo(d)
      BY <2>3
      DEF WritesInfo, Dispatch, Handle, HandleLog, CheckFlow, CreateFlow, FetchFlow, Guard,
          NodeCheck, SecretCheck, ValidCheck, Settle, Evaluate, BranchOk, BranchFail,
          Enter, Acquire, Write, SetLock, Metric, LocateError, SendToKafka, Branch
    <2> QED
      BY <2>2, <2>3
  <1> QED
    BY <1>r, <1>1, <1>2, <1>3, <1>4, <1>5, <1>6, <1>7, NothingOfPacket

-----------------------------------------------------------------------------
(* Every step keeps the invariant *)

\* Who joins a running handler of its number has the number recorded.
LEMMA OneAtATimeStep ==
    ASSUME TypeOK, RefInv, OneAtATime, [Next]_vars
    PROVE  OneAtATime' /\ overlapped \subseteq overlapped'
  <1>s. \A c \in Calls : SeqOf(c)' = SeqOf(c)
    BY Stable DEF SeqOf
  <1>1. ASSUME overlapped' = overlapped, \A c \in Calls : c \in Active' => c \in Active
        PROVE  OneAtATime' /\ overlapped \subseteq overlapped'
    <2>1. Active' \subseteq Active
      BY <1>1 DEF Active
    <2> QED
      BY <1>s, <1>1, <2>1 DEF OneAtATime, Active
  <1>2. ASSUME NEW d \in Calls, Handle(d)
        PROVE  OneAtATime' /\ overlapped \subseteq overlapped'
    <2>1. overlapped' = overlapped
      BY <1>2
      DEF Handle, HandleLog, CheckFlow, CreateFlow, FetchFlow, Guard, NodeCheck, Store,
          SecretCheck, SecretSet, ValidCheck, ValidSet, Stamp, Settle, Evaluate, Assign,
          SetStatus, Duration, BranchOk, BranchFail, Enter, Acquire, Write, SetLock,
          Metric, LocateError, SendToKafka, Branch, Update
    <2>2. pc[d] \notin Ended \cup {"queued"}
      BY <1>2, SMTT(30)
      DEF Handle, HandleLog, CheckFlow, CreateFlow, FetchFlow, Guard, NodeCheck, Store,
          SecretCheck, SecretSet, ValidCheck, ValidSet, Stamp, Settle, Evaluate, Assign,
          SetStatus, Duration, BranchOk, BranchFail, Enter, Acquire, Write,
          Metric, LocateError, SendToKafka, Branch, Update, Goto, Ended
    <2>3. \A c \in Calls : c # d => pc'[c] = pc[c]
      BY <1>2
      DEF Handle, HandleLog, CheckFlow, CreateFlow, FetchFlow, Guard, NodeCheck, Store,
          SecretCheck, SecretSet, ValidCheck, ValidSet, Stamp, Settle, Evaluate, Assign,
          SetStatus, Duration, BranchOk, BranchFail, Enter, Acquire, Write, SetLock,
          Metric, LocateError, SendToKafka, Branch, Update, Goto, TypeOK
    <2>4. \A c \in Calls : c \in Active' => c \in Active
      BY <2>2, <2>3 DEF Active
    <2> QED
      BY <1>1, <2>1, <2>4
  <1>3. ASSUME NEW d \in Calls, Dispatch(d)
        PROVE  OneAtATime' /\ overlapped \subseteq overlapped'
    <2>1. \A c \in Calls : c # d => pc'[c] = pc[c]
      BY <1>3 DEF Dispatch, Goto, TypeOK
    <2>2. \A c \in Calls : c \in Active' => c = d \/ c \in Active
      BY <2>1 DEF Active
    <2>3. /\ overlapped \subseteq overlapped'
          /\ (\E c \in Active : SeqOf(c) = SeqOf(d)) => SeqOf(d) \in overlapped'
      BY <1>3 DEF Dispatch
    <2>4. ASSUME NEW b \in Active', NEW c \in Active', SeqOf(b) = SeqOf(c),
                 SeqOf(b) \notin overlapped'
          PROVE  b = c
      <3>1. b \in Calls /\ c \in Calls
        BY DEF Active
      <3> QED
        BY <2>2, <2>3, <2>4, <3>1 DEF OneAtATime
    <2>5. \A c \in Active' : c \in Calls
      BY DEF Active
    <2> QED
      BY <1>s, <2>3, <2>4, <2>5 DEF OneAtATime
  <1>4. CASE CloseInvalid \/ CloseValid \/ PopPath \/ UNCHANGED vars
    BY <1>1, <1>4 DEF CloseInvalid, CloseValid, CloseFile, PopPath, vars, Active
  <1> QED
    BY <1>2, <1>3, <1>4 DEF Next, Finished

\* The path goes last, and no file opens again.
LEMMA PathStep ==
    ASSUME PathInv, [Next]_vars
    PROVE  PathInv' /\ openFiles' \subseteq openFiles
  <1>1. ASSUME NEW d \in Calls, Dispatch(d) \/ Handle(d)
        PROVE  UNCHANGED destroying
    BY <1>1
    DEF Dispatch, Handle, HandleLog, CheckFlow, CreateFlow, FetchFlow, Guard,
        NodeCheck, Store, SecretCheck, SecretSet, ValidCheck, ValidSet, Stamp,
        Settle, Evaluate, Assign, SetStatus, Duration, BranchOk, BranchFail, Enter,
        Acquire, Write, SetLock, Metric, LocateError, SendToKafka, Branch, Update
  <1>2. CASE UNCHANGED destroying
    BY <1>2 DEF PathInv, destroying
  <1>3. CASE CloseInvalid \/ CloseValid \/ PopPath \/ UNCHANGED vars
    BY <1>3 DEF CloseInvalid, CloseValid, CloseFile, PopPath, PathInv, vars, destroying
  <1> QED
    BY <1>1, <1>2, <1>3 DEF Next, Finished

\* Every step keeps a regular packet exact.
LEMMA ExactStep ==
    ASSUME AllInv, [Next]_vars, NEW p \in Packets, Regular(p) => Exact(p), Regular(p)'
    PROVE  Exact(p)'
  <1>t. TypeOK /\ RefInv /\ OneAtATime /\ PathInv
    BY DEF AllInv
  <1>r. Regular(p)
    <2>1. seqOf' = seqOf
      BY <1>t, Stable
    <2>2. overlapped \subseteq overlapped'
      BY <1>t, OneAtATimeStep
    <2>3. openFiles' \subseteq openFiles /\ openFiles \subseteq Verdicts
      BY <1>t, PathStep DEF TypeOK
    <2> QED
      BY <2>1, <2>2, <2>3 DEF Regular, Unique
  <1>1. ASSUME NEW c \in CallsOf(p), Dispatch(c) \/ Handle(c)
        PROVE  Exact(p)'
    BY <1>r, <1>1, EarlyExact, CreateExact, GuardExact, NodeCheckExact, StoreExact,
       SecretCheckExact, SecretSetExact, ValidCheckExact, ValidSetExact, StampExact,
       SettleExact, EvaluateExact, AssignExact, DurationExact, BranchOkExact,
       BranchFailExact, AcquireExact, WriteExact, MetricExact, LocateErrorExact, SendExact
    DEF Handle
  <1>2. ASSUME NEW d \in Calls, d \notin CallsOf(p), Dispatch(d) \/ Handle(d)
        PROVE  Exact(p)'
    BY <1>r, <1>2, OthersExact
  <1>3. CASE CloseInvalid \/ CloseValid \/ PopPath
    <2>1. openFiles' # Verdicts
      BY <1>t, <1>r, <1>3
      DEF CloseInvalid, CloseValid, CloseFile, PopPath, Regular, Verdicts
    <2> QED
      BY <2>1 DEF Regular
  <1>4. CASE UNCHANGED vars
    <2>1. UNCHANGED <<seqOf, verdict, pc, ref, branch, flow_status, info, kafka>>
      BY <1>4 DEF vars, world, local
    <2> QED
      BY <1>r, <2>1, NothingOfPacket
  <1> QED
    BY <1>1, <1>2, <1>3, <1>4 DEF Next, Finished

\* So the calls of regular packets are exact in every state.
LEMMA ExactInvariant == Spec => []ExactInv
  <1>1. Init => ExactInv
    <2> SUFFICES ASSUME Init PROVE ExactInv
      OBVIOUS
    <2>1. OneAtATime /\ PathInv
      BY DEF Init, OneAtATime, PathInv, Active
    <2>2. ASSUME NEW p \in Packets PROVE Exact(p)
      <3>1. \A c \in CallsOf(p) : /\ pc[c] = "queued" /\ ref[c] = None
                                  /\ kafka[c] = "none" /\ info[c] = NewFlow
        BY CallsOfPacket DEF Init
      <3>2. FlowOf(p) = None
        BY DEF Init, FlowOf
      <3>3. Ingress \in Nodes /\ <<p, Ingress>> \in CallsOf(p)
        BY CallsOfPacket, NodesAssumption
      <3> QED
        BY <3>1, <3>2, <3>3 DEF Exact, Started, Sends, Reporting
    <2> QED
      BY <2>1, <2>2 DEF ExactInv
  <1>2. TypeOK /\ RefInv /\ EarlyInv /\ SoundInv /\ ExactInv /\ [Next]_vars => ExactInv'
    <2> SUFFICES ASSUME TypeOK, RefInv, EarlyInv, SoundInv, ExactInv, [Next]_vars
                 PROVE  ExactInv'
      OBVIOUS
    <2>1. AllInv
      BY DEF AllInv, ExactInv
    <2>2. OneAtATime' /\ PathInv'
      BY OneAtATimeStep, PathStep DEF ExactInv
    <2>3. ASSUME NEW p \in Packets, Regular(p)' PROVE Exact(p)'
      BY <2>1, <2>3, ExactStep DEF ExactInv
    <2> QED
      BY <2>2, <2>3 DEF ExactInv
  <1> QED
    BY <1>1, <1>2, TypeCorrect, EarlyInvariant, SoundInvariant, PTL DEF Spec

(***************************************************************************)
(* Handlers of a packet that run one after the other send one record, with *)
(* the egress node's verdict, and leave the flow in agreement with it,     *)
(* whatever the handlers of other packets do meanwhile.                    *)
(***************************************************************************)
THEOREM SequentialIsExact == Spec => []SequentialVerdictIsExact
  <1>1. TypeOK /\ ExactInv => SequentialVerdictIsExact
    <2> SUFFICES ASSUME TypeOK, ExactInv, NEW p \in Packets, Regular(p),
                        \A c \in CallsOf(p) : pc[c] \in Ended
                 PROVE  LET sent == {c \in CallsOf(p) : kafka[c] # "none"}
                            v == IF verdict[p] THEN "valid" ELSE "invalid"
                        IN  /\ Cardinality(sent) = 1
                            /\ \A c \in sent : kafka[c] = v
                            /\ Reported(info[flow_status[seqOf[p]]]) = v
      BY DEF SequentialVerdictIsExact, Regular
    <2>1. Started(p) /\ Sends(p) /\ (FlowOf(p) # None => Collects(p, info[FlowOf(p)]))
      BY DEF ExactInv, Exact
    <2>2. \A c \in CallsOf(p) : pc[c] = "done"
      BY <2>1 DEF Started, Ended
    <2>3. PICK c \in CallsOf(p) : kafka[c] # "none"
      BY <2>1, <2>2 DEF Sends
    <2>4. {d \in CallsOf(p) : kafka[d] # "none"} = {c}
      BY <2>1, <2>3 DEF Sends
    <2>5. Cardinality({c}) = 1
      BY FS_Singleton
    <2>6. kafka[c] = Answer(p)
      BY <2>1, <2>3 DEF Sends
    <2>7. Reported(info[FlowOf(p)]) = Answer(p)
      <3>1. FlowOf(p) # None
        BY <2>1, <2>2, <2>3 DEF Started
      <3>2. Settled(p)
        BY <2>2 DEF Settled, Final, Stamped, Validated, Secreted, Stored, Labels, Before
      <3> QED
        BY <2>1, <3>1, <3>2 DEF Collects, Reported, Answer
    <2> QED
      BY <2>4, <2>5, <2>6, <2>7 DEF Answer, FlowOf
  <1> QED
    BY <1>1, ExactInvariant, TypeCorrect, PTL

-----------------------------------------------------------------------------
(* FlowTracking implements FlowVerdict: whatever the handlers do to each   *)
(* other, each of their steps is a step of the promise, or invisible to    *)
(* it.  What the promise sees of a state:                                  *)

Collected == [o \in Calls |-> {n \in Nodes : info[o].entries[n] # None}]
Vouched == {o \in Calls : Witness(o, SeqOf(o), TRUE)}
Status == [o \in Calls |-> info[o].status]
Published ==
    [o \in Calls |-> {kafka[c] : c \in {d \in Calls : ref[d] = o}} \ {"none"}]

\* It changes only with the flow objects, the local references and Kafka.
LEMMA WhatChanges ==
    ASSUME TypeOK, [Next]_vars
    PROVE  \/ UNCHANGED <<info, ref, kafka>>
           \/ \E c \in Calls : \/ FetchFlow(c) /\ UNCHANGED <<info, kafka>>
                               \/ SendToKafka(c) /\ UNCHANGED <<info, ref>>
                               \/ WritesInfo(c) /\ UNCHANGED <<ref, kafka>>
  <1>1. ASSUME NEW c \in Calls, Handle(c)
        PROVE  \/ UNCHANGED <<info, ref, kafka>>
               \/ FetchFlow(c) /\ UNCHANGED <<info, kafka>>
               \/ SendToKafka(c) /\ UNCHANGED <<info, ref>>
               \/ WritesInfo(c) /\ UNCHANGED <<ref, kafka>>
    <2>1. CASE FetchFlow(c)
      BY <2>1 DEF FetchFlow
    <2>2. CASE SendToKafka(c)
      BY <2>2 DEF SendToKafka, local
    <2>3. CASE WritesInfo(c)
      BY <2>3
      DEF WritesInfo, Store, SecretSet, ValidSet, Stamp, Assign, SetStatus,
          Duration, Update, Branch, local
    <2>4. CASE ~(FetchFlow(c) \/ SendToKafka(c) \/ WritesInfo(c))
      BY <1>1, <2>4
      DEF Handle, WritesInfo, HandleLog, CheckFlow, CreateFlow, Guard,
          NodeCheck, SecretCheck, ValidCheck, Settle, Evaluate, BranchOk,
          BranchFail, Enter, Acquire, Write, SetLock, Metric, LocateError,
          Branch, local
    <2> QED
      BY <2>1, <2>2, <2>3, <2>4
  <1>2. ASSUME NEW c \in Calls, Dispatch(c)
        PROVE  UNCHANGED <<info, ref, kafka>>
    BY <1>2 DEF Dispatch, local
  <1>3. ASSUME CloseInvalid \/ CloseValid \/ PopPath \/ UNCHANGED vars
        PROVE  UNCHANGED <<info, ref, kafka>>
    BY <1>3 DEF CloseInvalid, CloseValid, CloseFile, PopPath, vars, local
  <1> QED
    BY <1>1, <1>2, <1>3 DEF Next, Finished

-----------------------------------------------------------------------------
(* A handler past its verdict holds a settled flow *)

Judged == {"duration", "acquire", "write", "metric", "locate", "publish"}

SettledInv ==
    \A c \in Calls : pc[c] \in Judged => Flow(c).status # "Not Finished"

\* The steps that lead there.
LEMMA JudgedFrom ==
    ASSUME TypeOK, [Next]_vars, NEW c \in Calls, pc'[c] \in Judged
    PROVE  \/ pc[c] \in Judged
           \/ Assign(c)
           \/ pc[c] \in Holding /\ Flow(c).status # "Not Finished"
  <1>1. ASSUME NEW d \in Calls, Handle(d) \/ Dispatch(d), d # c
        PROVE  pc'[c] = pc[c]
    BY <1>1
    DEF Dispatch, Handle, HandleLog, CheckFlow, CreateFlow, FetchFlow, Guard,
        NodeCheck, Store, SecretCheck, SecretSet, ValidCheck, ValidSet,
        Stamp, Settle, Evaluate, Assign, SetStatus, Duration, BranchOk,
        BranchFail, Enter, Acquire, Write, SetLock, Metric, LocateError,
        SendToKafka, Branch, Update, Goto, TypeOK
  <1>2. CASE BranchOk(c) \/ BranchFail(c)
    BY <1>2
    DEF BranchOk, BranchFail, Enter, Branch, Goto, TypeOK, Judged, Holding,
        Before, Labels
  <1>3. CASE /\ Handle(c) \/ Dispatch(c)
             /\ ~(Assign(c) \/ BranchOk(c) \/ BranchFail(c))
    BY <1>3
    DEF Dispatch, Handle, HandleLog, CheckFlow, CreateFlow, FetchFlow, Guard,
        NodeCheck, Store, SecretCheck, SecretSet, ValidCheck, ValidSet, Stamp,
        Settle, Evaluate, Duration, Acquire, Write, SetLock, Metric,
        LocateError, SendToKafka, Branch, Update, Goto, TypeOK, Judged
  <1>4. CASE CloseInvalid \/ CloseValid \/ PopPath \/ UNCHANGED vars
    BY <1>4 DEF CloseInvalid, CloseValid, CloseFile, PopPath, vars
  <1> QED
    BY <1>1, <1>2, <1>3, <1>4 DEF Next, Finished

LEMMA AssignSettles ==
    ASSUME TypeOK, RefInv, NEW c \in Calls, Assign(c)
    PROVE  /\ ref[c] \in Calls /\ ref' = ref
           /\ Flow(c)'.status # "Not Finished"
  <1>1. Flow(c) \in FlowInfo /\ ref[c] \in Calls
    BY FlowType DEF Assign, SetStatus, Update, Goto, Holding, Before, Labels
  <1>2. ref' = ref
    BY DEF Assign, SetStatus, Update, local
  <1>3. ASSUME NEW status \in {"Successful", "Fail"}, NEW from,
               SetStatus(c, from, status)
        PROVE  info'[ref[c]].status = status
    BY <1>1, <1>3 DEF SetStatus, Update, TypeOK, FlowInfo, FlowStatus
  <1>4. info'[ref[c]].status # "Not Finished"
    BY <1>3 DEF Assign
  <1> QED
    BY <1>1, <1>2, <1>4 DEF Flow

LEMMA SettledStep ==
    ASSUME TypeOK, RefInv, SettledInv, [Next]_vars
    PROVE  SettledInv'
  <1> SUFFICES ASSUME NEW c \in Calls, pc'[c] \in Judged
               PROVE  Flow(c)'.status # "Not Finished"
    BY DEF SettledInv
  <1>1. CASE Assign(c)
    BY <1>1, AssignSettles
  <1>2. CASE pc[c] \in Holding /\ Flow(c).status # "Not Finished"
    <2>1. ref[c] \in Calls /\ ref'[c] = ref[c]
      BY <1>2, Stable DEF RefInv
    <2>2. info'[ref[c]].status # "Not Finished"
      BY <1>2, <2>1, AdvanceStep DEF Advances, Flow
    <2> QED
      BY <2>1, <2>2 DEF Flow
  <1>3. CASE pc[c] \in Judged
    BY <1>2, <1>3 DEF SettledInv, Judged, Holding, Before, Labels
  <1> QED
    BY <1>1, <1>2, <1>3, JudgedFrom

LEMMA SettledInvariant == Spec => []SettledInv
  <1>1. Init => SettledInv
    BY DEF Init, SettledInv, Judged
  <1>2. TypeOK /\ RefInv /\ SettledInv /\ [Next]_vars => SettledInv'
    BY SettledStep
  <1> QED
    BY <1>1, <1>2, TypeCorrect, PTL DEF Spec

-----------------------------------------------------------------------------
(* The steps of the promise *)

LEMMA FetchIsVouch ==
    ASSUME TypeOK, RefInv, EarlyInv, SoundInv, [Next]_vars,
           NEW c \in Calls, FetchFlow(c), UNCHANGED <<info, kafka>>
    PROVE  /\ Collected' = Collected /\ Status' = Status
           /\ Published' = Published
           /\ Vouched' = Vouched \/ \E o \in Calls : Vouched' = Vouched \cup {o}
  <1>1. Collected' = Collected /\ Status' = Status
    BY DEF Collected, Status
  <1>2. /\ ref[c] = None /\ kafka[c] = "none"
        /\ flow_status[SeqOf(c)] \in Calls
    BY DEF FetchFlow, Goto, RefInv, Before, EarlyInv
  <1>3. \A d \in Calls : ref'[d] = IF d = c THEN flow_status[SeqOf(c)] ELSE ref[d]
    BY DEF FetchFlow, TypeOK
  <1>4. seqOf' = seqOf /\ verdict' = verdict
    BY Stable
  <1>5. Published' = Published
    <2>1. ASSUME NEW o \in Calls
          PROVE  {kafka'[d] : d \in {e \in Calls : ref'[e] = o}} \ {"none"}
                   = {kafka[d] : d \in {e \in Calls : ref[e] = o}} \ {"none"}
      <3>1. \A d \in Calls : kafka[d] # "none" => (ref'[d] = o <=> ref[d] = o)
        BY <1>2, <1>3
      <3>2. kafka' = kafka
        OBVIOUS
      <3> QED
        BY <3>1, <3>2
    <2> QED
      BY <2>1 DEF Published
  <1>6. ASSUME NEW o \in Calls, o # flow_status[SeqOf(c)]
        PROVE  Witness(o, SeqOf(o), TRUE)' <=> Witness(o, SeqOf(o), TRUE)
    <2>1. None \notin Calls
      BY NoneAssumption DEF Calls
    <2>2. \A d \in Calls : ref'[d] = o <=> ref[d] = o
      BY <1>2, <1>3, <1>6, <2>1
    <2>3. \A p \in Packets : <<p, Egress>> \in Calls
      BY NodesAssumption DEF Calls
    <2> QED
      BY <1>4, <2>2, <2>3 DEF Witness, SeqOf
  <1>7. ASSUME NEW o \in Calls, Witness(o, SeqOf(o), TRUE)
        PROVE  Witness(o, SeqOf(o), TRUE)'
    <2>1. \A p \in Packets : <<p, Egress>> \in Calls
      BY NodesAssumption DEF Calls
    <2> QED
      BY <1>4, <1>7, <2>1, Stable DEF Witness, SeqOf
  <1>8. Vouched' = Vouched \/ Vouched' = Vouched \cup {flow_status[SeqOf(c)]}
    BY <1>2, <1>6, <1>7 DEF Vouched
  <1> QED
    BY <1>1, <1>2, <1>5, <1>8

LEMMA SendIsPublish ==
    ASSUME TypeOK, RefInv, EarlyInv, SettledInv, [Next]_vars,
           NEW c \in Calls, SendToKafka(c), UNCHANGED <<info, ref>>
    PROVE  /\ Collected' = Collected /\ Status' = Status
           /\ Vouched' = Vouched
           /\ \E o \in Calls :
                 /\ Status[o] # "Not Finished"
                 /\ Published' = [Published EXCEPT ![o] = @ \cup
                        {IF Status[o] = "Successful" THEN "valid" ELSE "invalid"}]
  <1>1. Collected' = Collected /\ Status' = Status /\ Vouched' = Vouched
    BY Stable DEF Collected, Status, Vouched, Witness, SeqOf
  <1>2. /\ ref[c] \in Calls /\ Flow(c).status # "Not Finished"
        /\ kafka[c] = "none"
    BY DEF SendToKafka, Goto, RefInv, SettledInv, Judged, Holding, Before,
           Labels, EarlyInv
  <1> DEFINE o == ref[c]
             v == Reported(Flow(c))
  <1>3. v \in {"valid", "invalid"}
    BY DEF Reported
  <1>4. \A d \in Calls : kafka'[d] = IF d = c THEN v ELSE kafka[d]
    BY DEF SendToKafka, TypeOK
  <1>5. ASSUME NEW f \in Calls
        PROVE  {kafka'[d] : d \in {e \in Calls : ref'[e] = f}} \ {"none"}
                 = IF f = o THEN ({kafka[d] : d \in {e \in Calls : ref[e] = f}}
                                    \ {"none"}) \cup {v}
                   ELSE {kafka[d] : d \in {e \in Calls : ref[e] = f}} \ {"none"}
    <2> DEFINE Of(k) == {k[d] : d \in {e \in Calls : ref[e] = f}} \ {"none"}
    <2>1. ASSUME NEW x
          PROVE  x \in Of(kafka') <=> x \in Of(kafka) \/ (x = v /\ f = o)
      <3> HIDE DEF v
      <3>1. \A k : x \in Of(k) <=>
               x # "none" /\ \E d \in Calls : ref[d] = f /\ k[d] = x
        OBVIOUS
      <3>2. (\E d \in Calls : ref[d] = f /\ kafka'[d] = x) /\ x # "none" <=>
              \/ (\E d \in Calls : ref[d] = f /\ kafka[d] = x) /\ x # "none"
              \/ x = v /\ f = o
        BY <1>2, <1>3, <1>4
      <3> HIDE DEF Of
      <3> QED
        BY <3>1, <3>2
    <2>2. Of(kafka') = IF f = o THEN Of(kafka) \cup {v} ELSE Of(kafka)
      <3> HIDE DEF Of, v
      <3> QED
        BY <2>1
    <2>3. ref' = ref
      OBVIOUS
    <2> QED
      BY <2>2, <2>3
  <1>6. Published' = [Published EXCEPT ![o] = @ \cup {v}]
    <2> HIDE DEF v, o
    <2>1. o \in Calls
      BY <1>2 DEF o
    <2>2. \A f \in Calls : Published[f] =
             {kafka[d] : d \in {e \in Calls : ref[e] = f}} \ {"none"}
      BY DEF Published
    <2>3. Published' = [f \in Calls |->
             {kafka'[d] : d \in {e \in Calls : ref'[e] = f}} \ {"none"}]
      BY DEF Published
    <2>4. Published' = [f \in Calls |->
             IF f = o THEN Published[f] \cup {v} ELSE Published[f]]
      BY <1>5, <2>2, <2>3
    <2>5. Published = [f \in Calls |-> Published[f]]
      BY DEF Published
    <2> QED
      BY <2>1, <2>4, <2>5
  <1>7. /\ Status[o] # "Not Finished"
        /\ v = IF Status[o] = "Successful" THEN "valid" ELSE "invalid"
    BY <1>2 DEF Status, Reported, Flow
  <1> QED
    BY <1>1, <1>2, <1>6, <1>7

\* A handler that writes a flow object leaves the other objects alone.
LEMMA OneObject ==
    ASSUME TypeOK, NEW c \in Calls, ref[c] \in Calls, NEW from, NEW to,
           NEW flow, Update(c, from, flow, to)
    PROVE  /\ Collected' = [Collected EXCEPT ![ref[c]] =
                                {n \in Nodes : flow.entries[n] # None}]
           /\ Status' = [Status EXCEPT ![ref[c]] = flow.status]
  <1>1. \A o \in Calls : info'[o] = IF o = ref[c] THEN flow ELSE info[o]
    BY DEF Update, TypeOK
  <1> QED
    BY <1>1 DEF Collected, Status

\* A write that stores no report and sets no status.
LEMMA InvisibleUpdate ==
    ASSUME TypeOK, NEW c \in Calls, ref[c] \in Calls, NEW from, NEW to,
           NEW flow, Update(c, from, flow, to),
           flow.entries = Flow(c).entries, flow.status = Flow(c).status
    PROVE  Collected' = Collected /\ Status' = Status
  <1>1. /\ Collected[ref[c]] = {n \in Nodes : flow.entries[n] # None}
        /\ Status[ref[c]] = flow.status
    BY DEF Collected, Status, Flow
  <1>2. /\ Collected = [o \in Calls |-> Collected[o]]
        /\ Status = [o \in Calls |-> Status[o]]
    BY DEF Collected, Status
  <1>3. /\ Collected' = [Collected EXCEPT ![ref[c]] =
                            {n \in Nodes : flow.entries[n] # None}]
        /\ Status' = [Status EXCEPT ![ref[c]] = flow.status]
    BY OneObject
  <1>4. Collected' = Collected
    BY <1>1, <1>2, <1>3
  <1>5. Status' = Status
    BY <1>1, <1>2, <1>3
  <1> QED
    BY <1>4, <1>5

LEMMA WriteIsCollectOrJudge ==
    ASSUME TypeOK, RefInv, EarlyInv, SoundInv, [Next]_vars,
           NEW c \in Calls, WritesInfo(c), UNCHANGED <<ref, kafka>>
    PROVE  /\ Vouched' = Vouched /\ Published' = Published
           /\ \/ Collected' = Collected /\ Status' = Status
              \/ /\ Status' = Status
                 /\ \E o \in Calls, n \in Nodes :
                       /\ n \notin Collected[o]
                       /\ Collected' = [Collected EXCEPT ![o] = @ \cup {n}]
              \/ /\ Collected' = Collected
                 /\ \E o \in Calls, v \in {"Successful", "Fail"} :
                       /\ Collected[o] = Nodes
                       /\ v = "Successful" => o \in Vouched
                       /\ Status' = [Status EXCEPT ![o] = v]
  <1>1. Vouched' = Vouched /\ Published' = Published
    BY Stable DEF Vouched, Published, Witness, SeqOf
  <1>2. Flow(c) \in FlowInfo /\ ref[c] \in Calls
    BY FlowType
    DEF WritesInfo, Store, SecretSet, ValidSet, Stamp, Assign, SetStatus,
        Duration, Update, Goto, Holding, Before, Labels
  <1>3. /\ Collected[ref[c]] = {n \in Nodes : Flow(c).entries[n] # None}
        /\ Status[ref[c]] = Flow(c).status
    BY <1>2 DEF Collected, Status, Flow
  <1>4. CASE Store(c)
    <2> DEFINE flow == [Flow(c) EXCEPT !.entries[c[2]] = c[1]]
    <2>1. c[1] # None /\ c[2] \in Nodes
      BY NoneAssumption DEF Calls
    <2>2. /\ {n \in Nodes : flow.entries[n] # None}
               = Collected[ref[c]] \cup {c[2]}
          /\ flow.status = Status[ref[c]]
      BY <1>2, <1>3, <2>1 DEF FlowInfo, FlowStatus
    <2>3. /\ Collected' = [Collected EXCEPT ![ref[c]] = Collected[ref[c]] \cup {c[2]}]
          /\ Status' = [Status EXCEPT ![ref[c]] = Status[ref[c]]]
      <3>1. Update(c, "store", flow, "secretCheck")
        BY <1>4 DEF Store
      <3> HIDE DEF flow
      <3>2. /\ Collected' = [Collected EXCEPT ![ref[c]] =
                                {n \in Nodes : flow.entries[n] # None}]
            /\ Status' = [Status EXCEPT ![ref[c]] = flow.status]
        BY <1>2, <3>1, OneObject
      <3> QED
        BY <2>2, <3>2
    <2>4. /\ Collected = [o \in Calls |-> Collected[o]]
          /\ Status = [o \in Calls |-> Status[o]]
      BY DEF Collected, Status
    <2>5. Status' = Status
      BY <1>2, <2>3, <2>4
    <2>6. CASE c[2] \in Collected[ref[c]]
      <3>1. Collected[ref[c]] \cup {c[2]} = Collected[ref[c]]
        BY <2>6
      <3>2. Collected' = Collected
        BY <1>2, <2>3, <2>4, <3>1
      <3> QED
        BY <1>1, <2>5, <3>2
    <2>7. CASE c[2] \notin Collected[ref[c]]
      BY <1>1, <1>2, <2>1, <2>3, <2>5, <2>7
    <2> QED
      BY <2>6, <2>7
  <1>5. CASE Assign(c)
    <2>1. ASSUME NEW v \in {"Successful", "Fail"}, NEW from, SetStatus(c, from, v)
          PROVE  Collected' = Collected /\ Status' = [Status EXCEPT ![ref[c]] = v]
      <3> DEFINE flow == [Flow(c) EXCEPT !.status = v]
      <3>1. flow.entries = Flow(c).entries /\ flow.status = v
        BY <1>2 DEF FlowInfo, FlowStatus
      <3>2. Collected = [o \in Calls |-> Collected[o]]
        BY DEF Collected
      <3>3. Update(c, from, flow, "duration")
        BY <2>1 DEF SetStatus
      <3> HIDE DEF flow
      <3>4. /\ Collected' = [Collected EXCEPT ![ref[c]] =
                                {n \in Nodes : flow.entries[n] # None}]
            /\ Status' = [Status EXCEPT ![ref[c]] = flow.status]
        BY <1>2, <3>3, OneObject
      <3>5. Collected' = [Collected EXCEPT ![ref[c]] = Collected[ref[c]]]
        BY <1>3, <3>1, <3>4
      <3> QED
        BY <1>2, <3>1, <3>2, <3>4, <3>5
    <2>2. Collected[ref[c]] = Nodes
      <3>1. Complete(Flow(c))
        BY <1>5 DEF Assign, SetStatus, Update, Goto, EarlyInv, Settling
      <3> QED
        BY <1>3, <3>1 DEF Complete
    <2>3. CASE SetStatus(c, "succeed", "Successful")
      <3>1. pc[c] = "succeed"
        BY <2>3 DEF SetStatus, Update, Goto
      <3>2. ref[c] \in Vouched
        BY <1>2, <3>1 DEF SoundInv, Vouched
      <3> QED
        BY <1>1, <1>2, <2>1, <2>2, <2>3, <3>2
    <2>4. CASE SetStatus(c, "fail", "Fail")
      BY <1>1, <1>2, <2>1, <2>2, <2>4
    <2> QED
      BY <1>5, <2>3, <2>4 DEF Assign
  <1>6. CASE SecretSet(c)
    <2>1. LET flow == [Flow(c) EXCEPT !.secret = SecretOf(c)]
          IN  flow.entries = Flow(c).entries /\ flow.status = Flow(c).status
      BY <1>2 DEF FlowInfo, FlowStatus
    <2> QED
      BY <1>1, <1>2, <1>6, <2>1, InvisibleUpdate DEF SecretSet
  <1>7. CASE ValidSet(c)
    <2>1. LET flow == [Flow(c) EXCEPT !.valid = ValidOf(c)]
          IN  flow.entries = Flow(c).entries /\ flow.status = Flow(c).status
      BY <1>2 DEF FlowInfo, FlowStatus
    <2> QED
      BY <1>1, <1>2, <1>7, <2>1, InvisibleUpdate DEF ValidSet
  <1>8. CASE Stamp(c)
    <2>1. LET flow == [Flow(c) EXCEPT !.stamped = TRUE]
          IN  flow.entries = Flow(c).entries /\ flow.status = Flow(c).status
      BY <1>2 DEF FlowInfo, FlowStatus
    <2> QED
      BY <1>1, <1>2, <1>8, <2>1, InvisibleUpdate DEF Stamp
  <1>9. CASE Duration(c)
    <2>1. LET flow == [Flow(c) EXCEPT !.timed = TRUE]
          IN  flow.entries = Flow(c).entries /\ flow.status = Flow(c).status
      BY <1>2 DEF FlowInfo, FlowStatus
    <2>2. CASE ~Flow(c).stamped
      BY <1>1, <1>9, <2>2 DEF Duration, Branch, Collected, Status
    <2>3. CASE Flow(c).stamped
      BY <1>1, <1>2, <1>9, <2>1, <2>3, InvisibleUpdate DEF Duration
    <2> QED
      BY <2>2, <2>3
  <1> QED
    BY <1>4, <1>5, <1>6, <1>7, <1>8, <1>9 DEF WritesInfo

-----------------------------------------------------------------------------
(* The refinement *)

LEMMA MapInit == Init => Promise!Init
  <1> SUFFICES ASSUME Init PROVE Promise!Init
    OBVIOUS
  <1>1. /\ \A o \in Calls : info[o] = NewFlow /\ ref[o] = None /\ kafka[o] = "none"
        /\ None \notin Calls
    BY NoneAssumption DEF Init, Calls
  <1>2. Collected = [o \in Calls |-> {}]
    <2>1. \A n \in Nodes : NewFlow.entries[n] = None
      BY DEF NewFlow
    <2>2. \A o \in Calls : {n \in Nodes : info[o].entries[n] # None} = {}
      BY <1>1, <2>1
    <2> QED
      BY <2>2 DEF Collected
  <1>3. Vouched = {}
    <2>1. \A p \in Packets : <<p, Egress>> \in Calls
      BY NodesAssumption DEF Calls
    <2> QED
      BY <1>1, <2>1 DEF Vouched, Witness
  <1>4. Status = [o \in Calls |-> "Not Finished"]
    <2>1. NewFlow.status = "Not Finished"
      BY DEF NewFlow
    <2> QED
      BY <1>1, <2>1 DEF Status
  <1>5. Published = [o \in Calls |-> {}]
    BY <1>1 DEF Published
  <1> QED
    BY <1>2, <1>3, <1>4, <1>5
    DEF Promise!Init, Collected, Vouched, Status, Published

LEMMA MapStep ==
    ASSUME TypeOK, RefInv, EarlyInv, SoundInv, SettledInv, [Next]_vars
    PROVE  [Promise!Next]_(Promise!vars)
  <1>1. ASSUME Collected' = Collected, Status' = Status,
               Vouched' = Vouched, Published' = Published
        PROVE  UNCHANGED Promise!vars
    BY <1>1 DEF Promise!vars, Collected, Vouched, Status, Published
  <1>2. CASE UNCHANGED <<info, ref, kafka>>
    <2>1. /\ Collected' = Collected /\ Status' = Status
          /\ Vouched' = Vouched /\ Published' = Published
      BY <1>2, Stable
      DEF Collected, Vouched, Status, Published, Witness, SeqOf
    <2> QED
      BY <1>1, <2>1
  <1>3. ASSUME NEW c \in Calls, FetchFlow(c), UNCHANGED <<info, kafka>>
        PROVE  [Promise!Next]_(Promise!vars)
    <2>1. /\ Collected' = Collected /\ Status' = Status
          /\ Published' = Published
          /\ Vouched' = Vouched \/ \E o \in Calls : Vouched' = Vouched \cup {o}
      BY <1>3, FetchIsVouch
    <2>2. ASSUME NEW o \in Calls, Vouched' = Vouched \cup {o}
          PROVE  Promise!Vouch(o)
      BY <2>1, <2>2
      DEF Promise!Vouch, Collected, Vouched, Status, Published
    <2> QED
      BY <1>1, <2>1, <2>2 DEF Promise!Next
  <1>4. ASSUME NEW c \in Calls, SendToKafka(c), UNCHANGED <<info, ref>>
        PROVE  [Promise!Next]_(Promise!vars)
    <2>1. PICK o \in Calls :
             /\ Collected' = Collected /\ Status' = Status
             /\ Vouched' = Vouched
             /\ Status[o] # "Not Finished"
             /\ Published' = [Published EXCEPT ![o] = @ \cup
                    {IF Status[o] = "Successful" THEN "valid" ELSE "invalid"}]
      BY <1>4, SendIsPublish
    <2>2. Promise!Publish(o)
      BY <2>1 DEF Promise!Publish, Collected, Vouched, Status, Published
    <2> QED
      BY <2>2 DEF Promise!Next
  <1>5. ASSUME NEW c \in Calls, WritesInfo(c), UNCHANGED <<ref, kafka>>
        PROVE  [Promise!Next]_(Promise!vars)
    <2>1. Vouched' = Vouched /\ Published' = Published
      BY <1>5, WriteIsCollectOrJudge
    <2>2. ASSUME NEW o \in Calls, NEW n \in Nodes, Status' = Status,
                 n \notin Collected[o],
                 Collected' = [Collected EXCEPT ![o] = @ \cup {n}]
          PROVE  Promise!Collect(o, n)
      BY <2>1, <2>2
      DEF Promise!Collect, Collected, Vouched, Status, Published
    <2>3. ASSUME NEW o \in Calls, NEW v \in {"Successful", "Fail"},
                 Collected' = Collected, Collected[o] = Nodes,
                 v = "Successful" => o \in Vouched,
                 Status' = [Status EXCEPT ![o] = v]
          PROVE  Promise!Judge(o, v)
      BY <2>1, <2>3
      DEF Promise!Judge, Collected, Vouched, Status, Published
    <2> QED
      BY <1>1, <1>5, <2>1, <2>2, <2>3, WriteIsCollectOrJudge DEF Promise!Next
  <1> QED
    BY <1>2, <1>3, <1>4, <1>5, WhatChanges

(***************************************************************************)
(* Flow tracking keeps its promise: a flow is judged only when every node  *)
(* has reported, a success only if the egress node vouched for it, and     *)
(* what is published is the judgement of the moment.                       *)
(***************************************************************************)
THEOREM PromiseKept == Spec => KeepsThePromise
  <1>1. Spec => Promise!Init /\ [][Promise!Next]_(Promise!vars)
    BY MapInit, MapStep, TypeCorrect, EarlyInvariant, SoundInvariant,
       SettledInvariant, PTL DEF Spec
  <1> QED
    BY <1>1 DEF KeepsThePromise, Promise!Spec
=============================================================================
