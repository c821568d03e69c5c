--------------------------- MODULE DataPlaneProofs ---------------------------
(***************************************************************************)
(* Proofs about DataPlane, for any number of packets, copies and nodes,    *)
(* and numbers of any width.                                               *)
(***************************************************************************)
EXTENDS DataPlane, TLAPS, FiniteSetTheorems

-----------------------------------------------------------------------------
(* The invariant *)

Steps == Numbering \cup Ended \cup {"none", "wire", "forward", "report"}

TypeOK == /\ step \in [Copies -> [Nodes -> Steps]]
          /\ num \in [Copies -> Nat]
          /\ seq \in Nat
          /\ socket \in [Nodes -> {"open", "closed"}]
          /\ reports \subseteq [node : Nodes, copy : Copies, seq : Nat]
          /\ overlapped \subseteq Copies

\* Who numbers at the same time as another one is recorded as racing; the
\* counter fits when a lonely thread is about to return it.
Alone ==
    \A t \in Copies \ overlapped :
        /\ step[t][1] \in Numbering => \A u \in Copies \ {t} : step[u][1] \notin Numbering
        /\ step[t][1] = "return" => seq <= SeqMax
        /\ step[t][1] # "overflow"

\* A copy is not beyond the node that is still to send it.
Ahead ==
    \A t \in Copies, k \in Nodes :
        step[t][k] \in {"wire", "forward", "lost", "broken", "overflow"} \cup Numbering =>
            \A j \in Nodes : j > k => step[t][j] = "none"

Passed == {"report", "reported", "unreported", "refused"}

\* Where a copy is, it, or the copy it was made of, passed every node before
\* under its number.
Behind ==
    \A t \in Copies, k \in Nodes : step[t][k] # "none" =>
        \A j \in 1..(k - 1) :
            LET o == Origin(t, j)
            IN  step[o][j] \in Passed /\ num[o] = num[t]

\* The reports are those of the threads that made them.
Told ==
    /\ \A t \in Copies, k \in Nodes :
          /\ step[t][k] = "reported" => [node |-> k, copy |-> t, seq |-> num[t]] \in reports
          /\ step[t][k] = "refused" => num[t] > ReportMax
    /\ \A r \in reports : /\ step[r.copy][r.node] = "reported"
                          /\ r.seq = num[r.copy] /\ r.seq <= ReportMax

IInv == TypeOK /\ Alone /\ Ahead /\ Behind /\ Told

\* The copies that wrote the counter, or were at least about to return it.
Past == {t \in Copies : step[t][1] \in {"test", "wrap", "return", "overflow"} \/ Numbered(t)}

\* How far the counter and its readers may be from the number of t once the
\* copies of A have stored after t: ahead by one for each, or wrapped.
Within(x, n, m) == (n <= x /\ x <= n + m) \/ x + SeqMax + 1 <= n + m

Drift(t, A) ==
    LET n == num[t]   m == Cardinality(A)
    IN  /\ Within(seq, n, m) /\ (seq = n => A = {})
        /\ \A u \in Copies :
              /\ step[u][1] = "store" => Within(num[u], n, m)
              /\ step[u][1] = "wrap" => SeqMax + 1 <= n + m
              /\ u # t /\ step[u][1] \in {"test", "wrap", "return"} => u \in A

Counted ==
    \A t \in Copies \ overlapped : Numbered(t) =>
        \E A \in SUBSET (Past \ {t}) : Drift(t, A)

NInv == Counted /\ UndisturbedNumbersDiffer

-----------------------------------------------------------------------------
(* Copies, and what a step does to them *)

\* The copy the sender sent is one of the copies of a packet.
LEMMA CopyFacts ==
    /\ \A t \in Copies : t[1] \in Packets /\ t[2] \in 1..MaxCopies[t[1]] /\ t = <<t[1], t[2]>>
    /\ \A p \in Packets : \A c \in 1..MaxCopies[p] : <<p, c>> \in Copies
    /\ \A p \in Packets : <<p, 1>> \in Copies
    /\ \A t \in Copies, k \in Nodes : Origin(t, k) \in Copies
<1>1. \A t \in Copies : t[1] \in Packets /\ t[2] \in 1..MaxCopies[t[1]] /\ t = <<t[1], t[2]>>
  BY DEF Copies
<1>2. \A p \in Packets : \A c \in 1..MaxCopies[p] : <<p, c>> \in Copies
  BY DEF Copies
<1>3. \A p \in Packets : <<p, 1>> \in Copies
  <2> SUFFICES ASSUME NEW p \in Packets PROVE 1 \in 1..MaxCopies[p]
    BY <1>2
  <2> QED BY CopiesAssumption
<1> QED BY <1>1, <1>2, <1>3 DEF Origin

\* A thread goes from one step to the next.
LEMMA GotoEffect ==
    ASSUME TypeOK, NEW t \in Copies, NEW k \in Nodes, NEW from, NEW to \in Steps,
           Goto(t, k, from, to)
    PROVE  /\ step[t][k] = from
           /\ step' \in [Copies -> [Nodes -> Steps]]
           /\ \A u \in Copies, j \in Nodes :
                 step'[u][j] = IF u = t /\ j = k THEN to ELSE step[u][j]
BY DEF TypeOK, Goto

\* A thread forwards its datagram.
LEMMA ForwardEffect ==
    ASSUME TypeOK, NEW t \in Copies, NEW k \in Nodes, Forward(t, k)
    PROVE  /\ step[t][k] = "forward"
           /\ step' \in [Copies -> [Nodes -> Steps]]
           /\ \A u \in Copies \ {t} : step'[u] = step[u]
           /\ step'[t][k] = IF socket[k] = "closed" /\ k < N THEN "broken" ELSE "report"
           /\ k + 1 \in Nodes => step'[t][k + 1] = IF socket[k] = "open" THEN "wire"
                                                   ELSE step[t][k + 1]
           /\ \A j \in Nodes : j # k /\ j # k + 1 => step'[t][j] = step[t][j]
<1>1. k + 1 # k
  BY DEF Nodes
<1> QED BY <1>1 DEF TypeOK, Forward, Steps, Ended

\* The network makes a copy of a datagram.
LEMMA DuplicateEffect ==
    ASSUME TypeOK, NEW p \in Packets, NEW c \in 2..MaxCopies[p], NEW k \in Nodes,
           Duplicate(p, c, k)
    PROVE  /\ <<p, c>> \in Copies /\ <<p, 1>> \in Copies /\ <<p, c>> # <<p, 1>>
           /\ Unused(<<p, c>>) /\ step[<<p, 1>>][k] = "wire"
           /\ step' \in [Copies -> [Nodes -> Steps]] /\ num' \in [Copies -> Nat]
           /\ \A u \in Copies, j \in Nodes :
                 step'[u][j] = IF u = <<p, c>> /\ j = k THEN "wire" ELSE step[u][j]
           /\ \A u \in Copies : num'[u] = IF u = <<p, c>> THEN num[<<p, 1>>] ELSE num[u]
<1>1. MaxCopies[p] \in Nat \ {0}
  BY CopiesAssumption
<1>2. c \in 1..MaxCopies[p] /\ c # 1
  BY <1>1
<1>3. <<p, c>> \in Copies /\ <<p, 1>> \in Copies /\ <<p, c>> # <<p, 1>>
  BY <1>2, CopyFacts
<1> QED BY <1>3 DEF TypeOK, Duplicate, Steps

\* A copy that is being numbered was not anywhere yet.
LEMMA NumberingIsFirst ==
    ASSUME Ahead, NEW t \in Copies, step[t][1] \in Numbering
    PROVE  \A j \in Nodes : step[t][j] \notin Passed /\ (j # 1 => step[t][j] = "none")
<1> SUFFICES ASSUME NEW j \in Nodes
             PROVE  step[t][j] \notin Passed /\ (j # 1 => step[t][j] = "none")
  OBVIOUS
<1>1. 1 \in Nodes /\ (j # 1 => j > 1)
  BY NodesAssumption DEF Nodes
<1>2. j # 1 => step[t][j] = "none"
  BY <1>1 DEF Ahead
<1> QED BY <1>2 DEF Numbering, Passed

\* A step that moves no copy to a node, and back from none, keeps the way.
LEMMA BehindStays ==
    ASSUME Behind,
           \A u \in Copies, j \in Nodes : step'[u][j] = "none" <=> step[u][j] = "none",
           \A u \in Copies, j \in Nodes : step[u][j] \in Passed => step'[u][j] \in Passed,
           \A u \in Copies :
               num'[u] = num[u] \/ \A j \in Nodes :
                   step[u][j] \notin Passed /\ (j # 1 => step[u][j] = "none")
    PROVE  Behind'
<1> SUFFICES ASSUME NEW t \in Copies, NEW k \in Nodes, step'[t][k] # "none",
                    NEW j \in 1..(k - 1)
             PROVE  LET o == Origin(t, j)'
                    IN  step'[o][j] \in Passed /\ num'[o] = num'[t]
  BY DEF Behind
<1>1. j \in Nodes /\ k # 1 /\ step[t][k] # "none"
  BY NodesAssumption DEF Nodes
<1>2. Origin(t, j)' = Origin(t, j) /\ Origin(t, j) \in Copies
  BY <1>1, CopyFacts DEF Origin
<1>3. step[Origin(t, j)][j] \in Passed /\ num[Origin(t, j)] = num[t]
  BY <1>1 DEF Behind
<1>4. num'[Origin(t, j)] = num[Origin(t, j)] /\ step'[Origin(t, j)][j] \in Passed
  BY <1>1, <1>2, <1>3
<1>5. num'[t] = num[t]
  BY <1>1
<1> QED BY <1>2, <1>3, <1>4, <1>5

\* A step that makes no report keeps what they tell.
LEMMA ToldStays ==
    ASSUME TypeOK, Told, UNCHANGED reports,
           \A u \in Copies, j \in Nodes : step'[u][j] = "reported" <=> step[u][j] = "reported",
           \A u \in Copies, j \in Nodes : step'[u][j] = "refused" =>
                                            step[u][j] = "refused" \/ num'[u] > ReportMax,
           \A u \in Copies : num'[u] = num[u] \/ \A j \in Nodes : step[u][j] \notin Passed
    PROVE  Told'
<1>1. ASSUME NEW t \in Copies, NEW k \in Nodes
      PROVE  /\ step'[t][k] = "reported" => [node |-> k, copy |-> t, seq |-> num'[t]] \in reports
             /\ step'[t][k] = "refused" => num'[t] > ReportMax
  BY DEF Told, Passed
<1>2. ASSUME NEW r \in reports
      PROVE  /\ step'[r.copy][r.node] = "reported"
             /\ r.seq = num'[r.copy] /\ r.seq <= ReportMax
  <2>1. r.copy \in Copies /\ r.node \in Nodes
    BY DEF TypeOK
  <2>2. step[r.copy][r.node] = "reported" /\ r.seq = num[r.copy] /\ r.seq <= ReportMax
    BY DEF Told
  <2> QED BY <2>1, <2>2 DEF Passed
<1> QED BY <1>1, <1>2 DEF Told

-----------------------------------------------------------------------------
(* The steps of the threads *)

\* The loop receives a datagram.
LEMMA ReceiveStep ==
    ASSUME IInv, NEW t \in Copies, NEW k \in Nodes, Receive(t, k)
    PROVE  IInv'
<1>n. 1 \in Nodes /\ N \in Nat /\ \A j \in Nodes : j \in Nat \ {0} /\ j <= N
  BY NodesAssumption DEF Nodes
<1>t. TypeOK /\ Alone /\ Ahead /\ Behind /\ Told
  BY DEF IInv
<1>e. /\ step[t][k] = "wire"
      /\ step' \in [Copies -> [Nodes -> Steps]]
      /\ \A u \in Copies, j \in Nodes :
            step'[u][j] = IF u = t /\ j = k
                          THEN IF k = 1 THEN "load" ELSE "forward"
                          ELSE step[u][j]
  <2>1. (IF k = 1 THEN "load" ELSE "forward") \in Steps
    BY DEF Steps, Numbering, Ended
  <2> QED BY <1>n, <1>t, <2>1, GotoEffect DEF Receive
<1> USE DEF Receive
<1>1. TypeOK'
  <2>1. overlapped' \subseteq Copies
    BY <1>t DEF TypeOK, Busy
  <2> QED BY <2>1, <1>t, <1>e DEF TypeOK
<1>2. Alone'
  BY <1>t, <1>e, <1>n DEF Alone, TypeOK, Busy, Numbering
<1>3. Ahead'
  BY <1>t, <1>e, <1>n DEF Ahead, Numbering
<1>4. Behind'
  <2>1. \A u \in Copies :
               num'[u] = num[u] \/ \A j \in Nodes :
                   step[u][j] \notin Passed /\ (j # 1 => step[u][j] = "none")
    BY <1>t, <1>e, <1>n, NumberingIsFirst DEF Numbering, TypeOK
  <2> QED BY <2>1, <1>t, <1>e, BehindStays DEF Passed, Numbering
<1>5. Told'
  <2>1. \A u \in Copies : num'[u] = num[u] \/ \A j \in Nodes : step[u][j] \notin Passed
    BY <1>t, <1>e, <1>n, NumberingIsFirst DEF Numbering, TypeOK
  <2>2. \A u \in Copies, j \in Nodes : step'[u][j] = "refused" =>
                                        step[u][j] = "refused" \/ num'[u] > ReportMax
    BY <1>t, <1>e, WidthAssumption DEF TypeOK
  <2> QED BY <2>1, <2>2, <1>t, <1>e, ToldStays
<1> QED BY <1>1, <1>2, <1>3, <1>4, <1>5 DEF IInv

\* The counter is read.
LEMMA LoadSeqStep ==
    ASSUME IInv, NEW t \in Copies, LoadSeq(t)
    PROVE  IInv'
<1>n. 1 \in Nodes /\ N \in Nat /\ \A j \in Nodes : j \in Nat \ {0} /\ j <= N
  BY NodesAssumption DEF Nodes
<1>t. TypeOK /\ Alone /\ Ahead /\ Behind /\ Told
  BY DEF IInv
<1>e. /\ step[t][1] = "load"
      /\ step' \in [Copies -> [Nodes -> Steps]]
      /\ \A u \in Copies, j \in Nodes :
            step'[u][j] = IF u = t /\ j = 1
                          THEN "store"
                          ELSE step[u][j]
  <2>1. ("store") \in Steps
    BY DEF Steps, Numbering, Ended
  <2> QED BY <1>n, <1>t, <2>1, GotoEffect DEF LoadSeq
<1> USE DEF LoadSeq
<1>1. TypeOK'
  BY <1>t, <1>e DEF TypeOK
<1>2. Alone'
  BY <1>t, <1>e, <1>n DEF Alone, TypeOK, Busy, Numbering
<1>3. Ahead'
  BY <1>t, <1>e, <1>n DEF Ahead, Numbering
<1>4. Behind'
  <2>1. \A u \in Copies :
               num'[u] = num[u] \/ \A j \in Nodes :
                   step[u][j] \notin Passed /\ (j # 1 => step[u][j] = "none")
    BY <1>t, <1>e, <1>n, NumberingIsFirst DEF Numbering, TypeOK
  <2> QED BY <2>1, <1>t, <1>e, BehindStays DEF Passed, Numbering
<1>5. Told'
  <2>1. \A u \in Copies : num'[u] = num[u] \/ \A j \in Nodes : step[u][j] \notin Passed
    BY <1>t, <1>e, <1>n, NumberingIsFirst DEF Numbering, TypeOK
  <2>2. \A u \in Copies, j \in Nodes : step'[u][j] = "refused" =>
                                        step[u][j] = "refused" \/ num'[u] > ReportMax
    BY <1>t, <1>e, WidthAssumption DEF TypeOK
  <2> QED BY <2>1, <2>2, <1>t, <1>e, ToldStays
<1> QED BY <1>1, <1>2, <1>3, <1>4, <1>5 DEF IInv

\* It is written.
LEMMA StoreSeqStep ==
    ASSUME IInv, NEW t \in Copies, StoreSeq(t)
    PROVE  IInv'
<1>n. 1 \in Nodes /\ N \in Nat /\ \A j \in Nodes : j \in Nat \ {0} /\ j <= N
  BY NodesAssumption DEF Nodes
<1>t. TypeOK /\ Alone /\ Ahead /\ Behind /\ Told
  BY DEF IInv
<1>e. /\ step[t][1] = "store"
      /\ step' \in [Copies -> [Nodes -> Steps]]
      /\ \A u \in Copies, j \in Nodes :
            step'[u][j] = IF u = t /\ j = 1
                          THEN "test"
                          ELSE step[u][j]
  <2>1. ("test") \in Steps
    BY DEF Steps, Numbering, Ended
  <2> QED BY <1>n, <1>t, <2>1, GotoEffect DEF StoreSeq
<1> USE DEF StoreSeq
<1>1. TypeOK'
  BY <1>t, <1>e DEF TypeOK
<1>2. Alone'
  BY <1>t, <1>e, <1>n DEF Alone, TypeOK, Busy, Numbering
<1>3. Ahead'
  BY <1>t, <1>e, <1>n DEF Ahead, Numbering
<1>4. Behind'
  <2>1. \A u \in Copies :
               num'[u] = num[u] \/ \A j \in Nodes :
                   step[u][j] \notin Passed /\ (j # 1 => step[u][j] = "none")
    BY <1>t, <1>e, <1>n, NumberingIsFirst DEF Numbering, TypeOK
  <2> QED BY <2>1, <1>t, <1>e, BehindStays DEF Passed, Numbering
<1>5. Told'
  <2>1. \A u \in Copies : num'[u] = num[u] \/ \A j \in Nodes : step[u][j] \notin Passed
    BY <1>t, <1>e, <1>n, NumberingIsFirst DEF Numbering, TypeOK
  <2>2. \A u \in Copies, j \in Nodes : step'[u][j] = "refused" =>
                                        step[u][j] = "refused" \/ num'[u] > ReportMax
    BY <1>t, <1>e, WidthAssumption DEF TypeOK
  <2> QED BY <2>1, <2>2, <1>t, <1>e, ToldStays
<1> QED BY <1>1, <1>2, <1>3, <1>4, <1>5 DEF IInv

\* It is tested.
LEMMA TestSeqStep ==
    ASSUME IInv, NEW t \in Copies, TestSeq(t)
    PROVE  IInv'
<1>n. 1 \in Nodes /\ N \in Nat /\ \A j \in Nodes : j \in Nat \ {0} /\ j <= N
  BY NodesAssumption DEF Nodes
<1>t. TypeOK /\ Alone /\ Ahead /\ Behind /\ Told
  BY DEF IInv
<1>e. /\ step[t][1] = "test"
      /\ step' \in [Copies -> [Nodes -> Steps]]
      /\ \A u \in Copies, j \in Nodes :
            step'[u][j] = IF u = t /\ j = 1
                          THEN IF seq > SeqMax THEN "wrap" ELSE "return"
                          ELSE step[u][j]
  <2>1. (IF seq > SeqMax THEN "wrap" ELSE "return") \in Steps
    BY DEF Steps, Numbering, Ended
  <2> QED BY <1>n, <1>t, <2>1, GotoEffect DEF TestSeq
<1> USE DEF TestSeq
<1>1. TypeOK'
  BY <1>t, <1>e DEF TypeOK
<1>2. Alone'
  <2> SUFFICES ASSUME NEW u \in Copies \ overlapped
               PROVE  /\ step'[u][1] \in Numbering =>
                            \A x \in Copies \ {u} : step'[x][1] \notin Numbering
                      /\ step'[u][1] = "return" => seq' <= SeqMax
                      /\ step'[u][1] # "overflow"
    BY DEF Alone
  <2>1. \A x \in Copies : step'[x][1] \in Numbering => step[x][1] \in Numbering
    BY <1>e, <1>n DEF Numbering
  <2>2. u # t => step[u][1] \notin Numbering
    BY <1>t, <1>e DEF Alone, Numbering
  <2>3. seq \in Nat /\ SeqMax \in Nat
    BY <1>t, WidthAssumption DEF TypeOK
  <2>4. CASE u = t
    BY <2>1, <2>3, <2>4, <1>t, <1>e, <1>n DEF Alone, Numbering
  <2>5. CASE u # t
    BY <2>1, <2>2, <2>5, <1>t, <1>e, <1>n DEF Alone, Numbering
  <2> QED BY <2>4, <2>5
<1>3. Ahead'
  BY <1>t, <1>e, <1>n DEF Ahead, Numbering
<1>4. Behind'
  <2>1. \A u \in Copies :
               num'[u] = num[u] \/ \A j \in Nodes :
                   step[u][j] \notin Passed /\ (j # 1 => step[u][j] = "none")
    BY <1>t, <1>e, <1>n, NumberingIsFirst DEF Numbering, TypeOK
  <2> QED BY <2>1, <1>t, <1>e, BehindStays DEF Passed, Numbering
<1>5. Told'
  <2>1. \A u \in Copies : num'[u] = num[u] \/ \A j \in Nodes : step[u][j] \notin Passed
    BY <1>t, <1>e, <1>n, NumberingIsFirst DEF Numbering, TypeOK
  <2>2. \A u \in Copies, j \in Nodes : step'[u][j] = "refused" =>
                                        step[u][j] = "refused" \/ num'[u] > ReportMax
    BY <1>t, <1>e, WidthAssumption DEF TypeOK
  <2> QED BY <2>1, <2>2, <1>t, <1>e, ToldStays
<1> QED BY <1>1, <1>2, <1>3, <1>4, <1>5 DEF IInv

\* It is set to zero.
LEMMA WrapSeqStep ==
    ASSUME IInv, NEW t \in Copies, WrapSeq(t)
    PROVE  IInv'
<1>n. 1 \in Nodes /\ N \in Nat /\ \A j \in Nodes : j \in Nat \ {0} /\ j <= N
  BY NodesAssumption DEF Nodes
<1>t. TypeOK /\ Alone /\ Ahead /\ Behind /\ Told
  BY DEF IInv
<1>e. /\ step[t][1] = "wrap"
      /\ step' \in [Copies -> [Nodes -> Steps]]
      /\ \A u \in Copies, j \in Nodes :
            step'[u][j] = IF u = t /\ j = 1
                          THEN "return"
                          ELSE step[u][j]
  <2>1. ("return") \in Steps
    BY DEF Steps, Numbering, Ended
  <2> QED BY <1>n, <1>t, <2>1, GotoEffect DEF WrapSeq
<1> USE DEF WrapSeq
<1>1. TypeOK'
  BY <1>t, <1>e DEF TypeOK
<1>2. Alone'
  <2> SUFFICES ASSUME NEW u \in Copies \ overlapped
               PROVE  /\ step'[u][1] \in Numbering =>
                            \A x \in Copies \ {u} : step'[x][1] \notin Numbering
                      /\ step'[u][1] = "return" => seq' <= SeqMax
                      /\ step'[u][1] # "overflow"
    BY DEF Alone
  <2>1. \A x \in Copies : step'[x][1] \in Numbering => step[x][1] \in Numbering
    BY <1>e, <1>n DEF Numbering
  <2>2. u # t => step[u][1] \notin Numbering
    BY <1>t, <1>e DEF Alone, Numbering
  <2>3. seq \in Nat /\ SeqMax \in Nat
    BY <1>t, WidthAssumption DEF TypeOK
  <2>4. CASE u = t
    BY <2>1, <2>3, <2>4, <1>t, <1>e, <1>n DEF Alone, Numbering
  <2>5. CASE u # t
    BY <2>1, <2>2, <2>5, <1>t, <1>e, <1>n DEF Alone, Numbering
  <2> QED BY <2>4, <2>5
<1>3. Ahead'
  BY <1>t, <1>e, <1>n DEF Ahead, Numbering
<1>4. Behind'
  <2>1. \A u \in Copies :
               num'[u] = num[u] \/ \A j \in Nodes :
                   step[u][j] \notin Passed /\ (j # 1 => step[u][j] = "none")
    BY <1>t, <1>e, <1>n, NumberingIsFirst DEF Numbering, TypeOK
  <2> QED BY <2>1, <1>t, <1>e, BehindStays DEF Passed, Numbering
<1>5. Told'
  <2>1. \A u \in Copies : num'[u] = num[u] \/ \A j \in Nodes : step[u][j] \notin Passed
    BY <1>t, <1>e, <1>n, NumberingIsFirst DEF Numbering, TypeOK
  <2>2. \A u \in Copies, j \in Nodes : step'[u][j] = "refused" =>
                                        step[u][j] = "refused" \/ num'[u] > ReportMax
    BY <1>t, <1>e, WidthAssumption DEF TypeOK
  <2> QED BY <2>1, <2>2, <1>t, <1>e, ToldStays
<1> QED BY <1>1, <1>2, <1>3, <1>4, <1>5 DEF IInv

\* It is returned.
LEMMA ReturnSeqStep ==
    ASSUME IInv, NEW t \in Copies, ReturnSeq(t)
    PROVE  IInv'
<1>n. 1 \in Nodes /\ N \in Nat /\ \A j \in Nodes : j \in Nat \ {0} /\ j <= N
  BY NodesAssumption DEF Nodes
<1>t. TypeOK /\ Alone /\ Ahead /\ Behind /\ Told
  BY DEF IInv
<1>e. /\ step[t][1] = "return"
      /\ step' \in [Copies -> [Nodes -> Steps]]
      /\ \A u \in Copies, j \in Nodes :
            step'[u][j] = IF u = t /\ j = 1
                          THEN IF seq > SeqMax THEN "overflow" ELSE "forward"
                          ELSE step[u][j]
  <2>1. (IF seq > SeqMax THEN "overflow" ELSE "forward") \in Steps
    BY DEF Steps, Numbering, Ended
  <2> QED BY <1>n, <1>t, <2>1, GotoEffect DEF ReturnSeq
<1> USE DEF ReturnSeq
<1>1. TypeOK'
  BY <1>t, <1>e DEF TypeOK
<1>2. Alone'
  <2> SUFFICES ASSUME NEW u \in Copies \ overlapped
               PROVE  /\ step'[u][1] \in Numbering =>
                            \A x \in Copies \ {u} : step'[x][1] \notin Numbering
                      /\ step'[u][1] = "return" => seq' <= SeqMax
                      /\ step'[u][1] # "overflow"
    BY DEF Alone
  <2>1. \A x \in Copies : step'[x][1] \in Numbering => step[x][1] \in Numbering
    BY <1>e, <1>n DEF Numbering
  <2>2. u # t => step[u][1] \notin Numbering
    BY <1>t, <1>e DEF Alone, Numbering
  <2>3. seq \in Nat /\ SeqMax \in Nat
    BY <1>t, WidthAssumption DEF TypeOK
  <2>4. CASE u = t
    BY <2>1, <2>3, <2>4, <1>t, <1>e, <1>n DEF Alone, Numbering
  <2>5. CASE u # t
    BY <2>1, <2>2, <2>5, <1>t, <1>e, <1>n DEF Alone, Numbering
  <2> QED BY <2>4, <2>5
<1>3. Ahead'
  BY <1>t, <1>e, <1>n DEF Ahead, Numbering
<1>4. Behind'
  <2>1. \A u \in Copies :
               num'[u] = num[u] \/ \A j \in Nodes :
                   step[u][j] \notin Passed /\ (j # 1 => step[u][j] = "none")
    BY <1>t, <1>e, <1>n, NumberingIsFirst DEF Numbering, TypeOK
  <2> QED BY <2>1, <1>t, <1>e, BehindStays DEF Passed, Numbering
<1>5. Told'
  <2>1. \A u \in Copies : num'[u] = num[u] \/ \A j \in Nodes : step[u][j] \notin Passed
    BY <1>t, <1>e, <1>n, NumberingIsFirst DEF Numbering, TypeOK
  <2>2. \A u \in Copies, j \in Nodes : step'[u][j] = "refused" =>
                                        step[u][j] = "refused" \/ num'[u] > ReportMax
    BY <1>t, <1>e, WidthAssumption DEF TypeOK
  <2> QED BY <2>1, <2>2, <1>t, <1>e, ToldStays
<1> QED BY <1>1, <1>2, <1>3, <1>4, <1>5 DEF IInv

\* A report reaches the controller.
LEMMA ReportStep ==
    ASSUME IInv, NEW t \in Copies, NEW k \in Nodes, Report(t, k)
    PROVE  IInv'
<1>n. 1 \in Nodes /\ N \in Nat /\ \A j \in Nodes : j \in Nat \ {0} /\ j <= N
  BY NodesAssumption DEF Nodes
<1>t. TypeOK /\ Alone /\ Ahead /\ Behind /\ Told
  BY DEF IInv
<1>e. /\ step[t][k] = "report"
      /\ step' \in [Copies -> [Nodes -> Steps]]
      /\ \A u \in Copies, j \in Nodes :
            step'[u][j] = IF u = t /\ j = k
                          THEN "reported"
                          ELSE step[u][j]
  <2>1. ("reported") \in Steps
    BY DEF Steps, Numbering, Ended
  <2> QED BY <1>n, <1>t, <2>1, GotoEffect DEF Report
<1> USE DEF Report
<1>1. TypeOK'
  BY <1>t, <1>e DEF TypeOK
<1>2. Alone'
  BY <1>t, <1>e, <1>n DEF Alone, TypeOK, Busy, Numbering
<1>3. Ahead'
  BY <1>t, <1>e, <1>n DEF Ahead, Numbering
<1>4. Behind'
  <2>1. \A u \in Copies :
               num'[u] = num[u] \/ \A j \in Nodes :
                   step[u][j] \notin Passed /\ (j # 1 => step[u][j] = "none")
    BY <1>t, <1>e, <1>n, NumberingIsFirst DEF Numbering, TypeOK
  <2> QED BY <2>1, <1>t, <1>e, BehindStays DEF Passed, Numbering
<1>5. Told'
  <2>1. ASSUME NEW u \in Copies, NEW j \in Nodes
        PROVE  /\ step'[u][j] = "reported" => [node |-> j, copy |-> u, seq |-> num[u]] \in reports'
               /\ step'[u][j] = "refused" => num[u] > ReportMax
    BY <1>t, <1>e DEF Told
  <2>2. ASSUME NEW r \in reports'
        PROVE  /\ step'[r.copy][r.node] = "reported"
               /\ r.seq = num[r.copy] /\ r.seq <= ReportMax
    <3>1. CASE r \in reports
      BY <3>1, <1>t, <1>e DEF Told, TypeOK
    <3>2. CASE r = [node |-> k, copy |-> t, seq |-> num[t]]
      BY <3>2, <1>e
    <3> QED BY <2>2, <3>1, <3>2
  <2> QED BY <2>1, <2>2 DEF Told
<1> QED BY <1>1, <1>2, <1>3, <1>4, <1>5 DEF IInv

\* A report fails.
LEMMA ReportFailsStep ==
    ASSUME IInv, NEW t \in Copies, NEW k \in Nodes, ReportFails(t, k)
    PROVE  IInv'
<1>n. 1 \in Nodes /\ N \in Nat /\ \A j \in Nodes : j \in Nat \ {0} /\ j <= N
  BY NodesAssumption DEF Nodes
<1>t. TypeOK /\ Alone /\ Ahead /\ Behind /\ Told
  BY DEF IInv
<1>e. /\ step[t][k] = "report"
      /\ step' \in [Copies -> [Nodes -> Steps]]
      /\ \A u \in Copies, j \in Nodes :
            step'[u][j] = IF u = t /\ j = k
                          THEN IF num[t] <= ReportMax THEN "unreported" ELSE "refused"
                          ELSE step[u][j]
  <2>1. (IF num[t] <= ReportMax THEN "unreported" ELSE "refused") \in Steps
    BY DEF Steps, Numbering, Ended
  <2> QED BY <1>n, <1>t, <2>1, GotoEffect DEF ReportFails
<1> USE DEF ReportFails
<1>1. TypeOK'
  BY <1>t, <1>e DEF TypeOK
<1>2. Alone'
  BY <1>t, <1>e, <1>n DEF Alone, TypeOK, Busy, Numbering
<1>3. Ahead'
  BY <1>t, <1>e, <1>n DEF Ahead, Numbering
<1>4. Behind'
  <2>1. \A u \in Copies :
               num'[u] = num[u] \/ \A j \in Nodes :
                   step[u][j] \notin Passed /\ (j # 1 => step[u][j] = "none")
    BY <1>t, <1>e, <1>n, NumberingIsFirst DEF Numbering, TypeOK
  <2> QED BY <2>1, <1>t, <1>e, BehindStays DEF Passed, Numbering
<1>5. Told'
  <2>1. \A u \in Copies : num'[u] = num[u] \/ \A j \in Nodes : step[u][j] \notin Passed
    BY <1>t, <1>e, <1>n, NumberingIsFirst DEF Numbering, TypeOK
  <2>2. \A u \in Copies, j \in Nodes : step'[u][j] = "refused" =>
                                        step[u][j] = "refused" \/ num'[u] > ReportMax
    BY <1>t, <1>e, WidthAssumption DEF TypeOK
  <2> QED BY <2>1, <2>2, <1>t, <1>e, ToldStays
<1> QED BY <1>1, <1>2, <1>3, <1>4, <1>5 DEF IInv

\* A datagram is lost.
LEMMA LoseStep ==
    ASSUME IInv, NEW t \in Copies, NEW k \in Nodes, Lose(t, k)
    PROVE  IInv'
<1>n. 1 \in Nodes /\ N \in Nat /\ \A j \in Nodes : j \in Nat \ {0} /\ j <= N
  BY NodesAssumption DEF Nodes
<1>t. TypeOK /\ Alone /\ Ahead /\ Behind /\ Told
  BY DEF IInv
<1>e. /\ step[t][k] = "wire"
      /\ step' \in [Copies -> [Nodes -> Steps]]
      /\ \A u \in Copies, j \in Nodes :
            step'[u][j] = IF u = t /\ j = k
                          THEN "lost"
                          ELSE step[u][j]
  <2>1. ("lost") \in Steps
    BY DEF Steps, Numbering, Ended
  <2> QED BY <1>n, <1>t, <2>1, GotoEffect DEF Lose
<1> USE DEF Lose
<1>1. TypeOK'
  BY <1>t, <1>e DEF TypeOK
<1>2. Alone'
  BY <1>t, <1>e, <1>n DEF Alone, TypeOK, Busy, Numbering
<1>3. Ahead'
  BY <1>t, <1>e, <1>n DEF Ahead, Numbering
<1>4. Behind'
  <2>1. \A u \in Copies :
               num'[u] = num[u] \/ \A j \in Nodes :
                   step[u][j] \notin Passed /\ (j # 1 => step[u][j] = "none")
    BY <1>t, <1>e, <1>n, NumberingIsFirst DEF Numbering, TypeOK
  <2> QED BY <2>1, <1>t, <1>e, BehindStays DEF Passed, Numbering
<1>5. Told'
  <2>1. \A u \in Copies : num'[u] = num[u] \/ \A j \in Nodes : step[u][j] \notin Passed
    BY <1>t, <1>e, <1>n, NumberingIsFirst DEF Numbering, TypeOK
  <2>2. \A u \in Copies, j \in Nodes : step'[u][j] = "refused" =>
                                        step[u][j] = "refused" \/ num'[u] > ReportMax
    BY <1>t, <1>e, WidthAssumption DEF TypeOK
  <2> QED BY <2>1, <2>2, <1>t, <1>e, ToldStays
<1> QED BY <1>1, <1>2, <1>3, <1>4, <1>5 DEF IInv

\* A thread forwards a datagram.
LEMMA ForwardStep ==
    ASSUME IInv, NEW t \in Copies, NEW k \in Nodes, Forward(t, k)
    PROVE  IInv'
<1>n. 1 \in Nodes /\ N \in Nat /\ \A j \in Nodes : j \in Nat \ {0} /\ j <= N
  BY NodesAssumption DEF Nodes
<1>t. TypeOK /\ Alone /\ Ahead /\ Behind /\ Told
  BY DEF IInv
<1>f. /\ step[t][k] = "forward"
      /\ step' \in [Copies -> [Nodes -> Steps]]
      /\ \A u \in Copies \ {t} : step'[u] = step[u]
      /\ step'[t][k] = IF socket[k] = "closed" /\ k < N THEN "broken" ELSE "report"
      /\ k + 1 \in Nodes => step'[t][k + 1] = IF socket[k] = "open" THEN "wire"
                                              ELSE step[t][k + 1]
      /\ \A j \in Nodes : j # k /\ j # k + 1 => step'[t][j] = step[t][j]
  BY <1>t, ForwardEffect
<1>u. UNCHANGED <<num, seq, socket, reports, overlapped>>
  BY DEF Forward
<1>g. \A j \in Nodes : j > k => step[t][j] = "none"
  BY <1>t, <1>f DEF Ahead
<1>h. \A u \in Copies, j \in Nodes : step'[u][j] # step[u][j] =>
          \/ u = t /\ j = k /\ step[u][j] = "forward" /\ step'[u][j] \in {"broken", "report"}
          \/ u = t /\ j = k + 1 /\ step[u][j] = "none" /\ step'[u][j] = "wire"
  BY <1>f, <1>g, <1>n
<1>1. TypeOK'
  BY <1>t, <1>f, <1>u DEF TypeOK
<1>2. Alone'
  <2>1. \A u \in Copies, s \in Numbering \cup {"overflow"} : step'[u][1] = s <=> step[u][1] = s
    BY <1>h, <1>n DEF Numbering
  <2> QED BY <2>1, <1>t, <1>u DEF Alone, Numbering
<1>3. Ahead'
  <2> SUFFICES ASSUME NEW u \in Copies, NEW i \in Nodes, NEW j \in Nodes, j > i,
                      step'[u][i] \in {"wire", "forward", "lost", "broken", "overflow"}
                                      \cup Numbering
               PROVE  step'[u][j] = "none"
    BY DEF Ahead
  <2>1. CASE u # t
    BY <2>1, <1>t, <1>f DEF Ahead
  <2>2. CASE u = t /\ j > k + 1
    BY <2>2, <1>f, <1>g, <1>n
  <2>3. CASE u = t /\ j = k + 1
    <3>1. i < k \/ i = k
      BY <2>3, <1>n
    <3>2. i = k => step'[t][k + 1] = "none"
      <4>1. i = k => step'[t][k] = "broken"
        BY <2>3, <1>f DEF Numbering
      <4>2. i = k => socket[k] = "closed"
        BY <4>1, <1>f
      <4>3. step[t][k + 1] = "none"
        BY <2>3, <1>g, <1>n
      <4> QED BY <2>3, <4>2, <4>3, <1>f
    <3>3. i < k => step'[t][i] = step[t][i]
      BY <1>f, <1>n
    <3>4. i < k => step[t][k] = "none"
      BY <2>3, <3>3, <1>t DEF Ahead
    <3> QED BY <2>3, <3>1, <3>2, <3>4, <1>f
  <2>4. CASE u = t /\ j <= k
    <3>1. step'[t][i] = step[t][i]
      BY <2>4, <1>f, <1>n
    <3>2. step[t][k] = "none" \/ step[t][j] = "none"
      BY <2>4, <3>1, <1>t DEF Ahead
    <3>3. step[t][j] = "none" /\ j # k
      BY <3>2, <1>f, <2>4, <3>1, <1>t DEF Ahead
    <3> QED BY <3>3, <2>4, <1>f, <1>n
  <2> QED BY <2>1, <2>2, <2>3, <2>4, <1>n
<1>4. Behind'
  <2> SUFFICES ASSUME NEW u \in Copies, NEW i \in Nodes, step'[u][i] # "none",
                      NEW j \in 1..(i - 1)
               PROVE  LET o == Origin(u, j)'
                      IN  step'[o][j] \in Passed /\ num[o] = num[u]
    BY <1>u DEF Behind
  <2>1. j \in Nodes /\ j < i
    BY <1>n DEF Nodes
  <2>2. CASE u = t /\ i = k + 1 /\ j = k
    <3>1. Origin(u, j)' = t
      BY <2>2, <1>f DEF Origin
    <3>2. socket[k] = "open" /\ step'[t][k] = "report"
      BY <2>2, <1>f, <1>g, <1>n, <1>t DEF TypeOK
    <3> QED BY <2>2, <3>1, <3>2 DEF Passed
  <2>3. CASE u = t /\ i = k + 1 /\ j < k
    <3>1. Origin(u, j)' = Origin(t, j)
      BY <2>1, <2>3, <1>f, <1>n DEF Origin
    <3>2. step[Origin(t, j)][j] \in Passed /\ num[Origin(t, j)] = num[t]
      <4>1. j \in 1..(k - 1) /\ step[t][k] # "none"
        BY <2>1, <2>3, <1>f, <1>n
      <4> QED BY <4>1, <1>t DEF Behind
    <3>3. step'[Origin(t, j)][j] = step[Origin(t, j)][j]
      <4>1. Origin(t, j) \in Copies
        BY <2>1, CopyFacts
      <4>2. j # k /\ j # k + 1
        BY <2>1, <2>3, <1>n
      <4> QED BY <2>1, <4>1, <4>2, <1>h
    <3> QED BY <2>3, <3>1, <3>2, <3>3
  <2>4. CASE ~(u = t /\ i = k + 1)
    <3>1. step[u][i] # "none"
      BY <2>4, <1>h, <1>f
    <3>2. step[Origin(u, j)][j] \in Passed /\ num[Origin(u, j)] = num[u]
      BY <2>1, <3>1, <1>t DEF Behind
    <3>3. Origin(u, j) \in Copies /\ ~(Origin(u, j) = t /\ j \in {k, k + 1})
      <4>1. step[t][k] \notin Passed /\ (k + 1 \in Nodes => step[t][k + 1] \notin Passed)
        BY <1>f, <1>g, <1>n DEF Passed
      <4> QED BY <2>1, <3>2, <4>1, CopyFacts
    <3>4. step'[Origin(u, j)][j] = step[Origin(u, j)][j]
      BY <2>1, <3>3, <1>h
    <3>5. ~(u = t /\ j = k + 1)
      BY <2>1, <3>1, <1>g, <1>n
    <3>6. Origin(u, j)' = Origin(u, j)
      BY <2>1, <3>5, <1>h, <1>f DEF Origin
    <3> QED BY <3>2, <3>4, <3>6
  <2> QED BY <2>1, <2>2, <2>3, <2>4, <1>n
<1>5. Told'
  <2>1. \A u \in Copies, j \in Nodes : /\ step'[u][j] = "reported" <=> step[u][j] = "reported"
                                       /\ step'[u][j] = "refused" <=> step[u][j] = "refused"
    BY <1>h
  <2> QED BY <2>1, <1>t, <1>u, ToldStays
<1> QED BY <1>1, <1>2, <1>3, <1>4, <1>5 DEF IInv

\* The network makes a copy.
LEMMA DuplicateStep ==
    ASSUME IInv, NEW p \in Packets, NEW c \in 2..MaxCopies[p], NEW k \in Nodes,
           Duplicate(p, c, k)
    PROVE  IInv'
<1> DEFINE t == <<p, 1>>
           u == <<p, c>>
<1>n. 1 \in Nodes /\ N \in Nat /\ \A j \in Nodes : j \in Nat \ {0} /\ j <= N
  BY NodesAssumption DEF Nodes
<1>t. TypeOK /\ Alone /\ Ahead /\ Behind /\ Told
  BY DEF IInv
<1>d. /\ u \in Copies /\ t \in Copies /\ u # t
      /\ Unused(u) /\ step[t][k] = "wire"
      /\ step' \in [Copies -> [Nodes -> Steps]] /\ num' \in [Copies -> Nat]
      /\ \A x \in Copies, j \in Nodes :
            step'[x][j] = IF x = u /\ j = k THEN "wire" ELSE step[x][j]
      /\ \A x \in Copies : num'[x] = IF x = u THEN num[t] ELSE num[x]
  BY <1>t, DuplicateEffect
<1>u. UNCHANGED <<seq, socket, reports, overlapped>>
  BY DEF Duplicate
<1>g. \A j \in Nodes : step[u][j] = "none"
  BY <1>d DEF Unused
<1>p. t = <<t[1], 1>> /\ <<u[1], 1>> = t
  OBVIOUS
<1> HIDE DEF t, u
<1>1. TypeOK'
  BY <1>t, <1>d, <1>u DEF TypeOK
<1>2. Alone'
  <2>1. \A x \in Copies, s \in Numbering \cup {"overflow"} : step'[x][1] = s <=> step[x][1] = s
    BY <1>d, <1>g, <1>n DEF Numbering
  <2> QED BY <2>1, <1>t, <1>u DEF Alone, Numbering
<1>3. Ahead'
  BY <1>t, <1>d, <1>g, <1>n DEF Ahead, Numbering
<1>4. Behind'
  <2> SUFFICES ASSUME NEW x \in Copies, NEW i \in Nodes, step'[x][i] # "none",
                      NEW j \in 1..(i - 1)
               PROVE  LET o == Origin(x, j)'
                      IN  step'[o][j] \in Passed /\ num'[o] = num'[x]
    BY DEF Behind
  <2>1. j \in Nodes /\ j < i
    BY <1>n DEF Nodes
  <2>2. CASE x = u
    <3>1. i = k
      BY <2>2, <1>d, <1>g
    <3>2. Origin(u, j)' = t
      BY <2>1, <3>1, <1>d, <1>g, <1>p, <1>n DEF Origin
    <3>3. Origin(t, j) = t
      BY <1>p DEF Origin
    <3>4. step[t][j] \in Passed
      BY <2>1, <3>1, <3>3, <1>t, <1>d DEF Behind
    <3> QED BY <2>1, <2>2, <3>2, <3>4, <1>d
  <2>3. CASE x # u
    <3>1. step[x][i] # "none"
      BY <2>3, <1>d
    <3>2. Origin(x, j)' = Origin(x, j) /\ Origin(x, j) \in Copies
      BY <2>1, <2>3, <1>d, CopyFacts DEF Origin
    <3>3. step[Origin(x, j)][j] \in Passed /\ num[Origin(x, j)] = num[x]
      BY <2>1, <3>1, <1>t DEF Behind
    <3>4. Origin(x, j) # u
      BY <2>1, <3>3, <1>g DEF Passed
    <3> QED BY <2>1, <2>3, <3>2, <3>3, <3>4, <1>d
  <2> QED BY <2>2, <2>3
<1>5. Told'
  <2>1. \A x \in Copies, j \in Nodes : /\ step'[x][j] = "reported" <=> step[x][j] = "reported"
                                       /\ step'[x][j] = "refused" <=> step[x][j] = "refused"
    BY <1>d, <1>g
  <2>2. \A x \in Copies : num'[x] = num[x] \/ \A j \in Nodes : step[x][j] \notin Passed
    BY <1>d, <1>g DEF Passed
  <2> QED BY <2>1, <2>2, <1>t, <1>u, ToldStays
<1> QED BY <1>1, <1>2, <1>3, <1>4, <1>5 DEF IInv

\* A socket is closed, or nothing happens.
LEMMA CloseStep ==
    ASSUME IInv, UNCHANGED <<step, num, seq, reports, overlapped>>,
           socket' \in [Nodes -> {"open", "closed"}]
    PROVE  IInv'
<1>1. TypeOK'
  BY DEF IInv, TypeOK
<1>2. (Alone /\ Ahead)'
  BY DEF IInv, Alone, Ahead
<1>3. (Behind /\ Told)'
  BY DEF IInv, Behind, Told, Origin
<1> QED BY <1>1, <1>2, <1>3 DEF IInv

-----------------------------------------------------------------------------
(* The invariant holds *)

\* The invariant holds when nothing is sent yet ...
LEMMA StartHolds == ASSUME Init PROVE IInv
<1>n. 1 \in Nodes /\ \A j \in Nodes : j \in Nat \ {0}
  BY NodesAssumption DEF Nodes
<1>s. \A t \in Copies, k \in Nodes : /\ step[t][k] \in {"wire", "none"}
                                     /\ step[t][k] = "wire" => k = 1
  BY DEF Init
<1>1. TypeOK
  BY WidthAssumption DEF Init, TypeOK, Steps
<1>2. Alone
  BY <1>s, <1>n DEF Alone, Numbering
<1>3. Ahead
  BY <1>s, <1>n DEF Ahead, Numbering
<1>4. Behind
  BY <1>s, <1>n DEF Behind
<1>5. Told
  BY <1>s DEF Init, Told
<1> QED BY <1>1, <1>2, <1>3, <1>4, <1>5 DEF IInv

\* ... and is kept by every step.
LEMMA StepHolds == ASSUME IInv, [Next]_vars PROVE IInv'
<1>1. CASE UNCHANGED vars
  BY <1>1, CloseStep DEF vars, IInv, TypeOK
<1>2. ASSUME NEW t \in Copies, NEW k \in Nodes, Receive(t, k) \/ Lose(t, k) PROVE IInv'
  BY <1>2, ReceiveStep, LoseStep
<1>3. ASSUME NEW t \in Copies, NEW k \in Nodes, Thread(t, k) PROVE IInv'
  BY <1>3, ForwardStep, ReportStep, ReportFailsStep, LoadSeqStep, StoreSeqStep,
     TestSeqStep, WrapSeqStep, ReturnSeqStep DEF Thread
<1>4. ASSUME NEW p \in Packets, NEW k \in Nodes, NEW c \in 2..MaxCopies[p],
             Duplicate(p, c, k)
      PROVE  IInv'
  BY <1>4, DuplicateStep
<1>5. ASSUME NEW k \in Nodes, Close(k) PROVE IInv'
  BY <1>5, CloseStep DEF Close, IInv, TypeOK
<1> QED BY <1>1, <1>2, <1>3, <1>4, <1>5 DEF Next, Finished

\* Every part of the invariant holds in every state of the packets of a path.
THEOREM InvariantHolds == Spec => []IInv
<1> QED BY StartHolds, StepHolds, PTL DEF Spec

-----------------------------------------------------------------------------
(* Races and reports *)

\* build_packet meets a number that does not fit only in a thread that raced
\* another one through increase_sequence_number.
THEOREM OverflowsAreRaces == Spec => []OverflowIsARace
<1>1. IInv => OverflowIsARace
  BY DEF IInv, Alone, OverflowIsARace
<1> QED BY <1>1, InvariantHolds, PTL

\* Before a node reports a packet with send_opot_log, every node before it has
\* reported it under the same number, is about to, or its call failed.
THEOREM ReportsHaveNoHoles == Spec => []ReportsTellTheWay
<1>1. ASSUME IInv PROVE ReportsTellTheWay
  <2> SUFFICES ASSUME NEW r \in reports, NEW j \in 1..(r.node - 1)
               PROVE  LET t == Origin(r.copy, j)
                      IN  \/ [node |-> j, copy |-> t, seq |-> r.seq] \in reports
                          \/ step[t][j] = "report" /\ num[t] = r.seq
                          \/ step[t][j] = "unreported"
    BY DEF ReportsTellTheWay
  <2> DEFINE t == Origin(r.copy, j)
  <2>1. /\ r.copy \in Copies /\ r.node \in Nodes
        /\ step[r.copy][r.node] = "reported"
        /\ r.seq = num[r.copy] /\ r.seq <= ReportMax /\ r.seq \in Nat
    BY <1>1 DEF IInv, TypeOK, Told
  <2>2. j \in Nodes
    BY <2>1, NodesAssumption DEF Nodes
  <2>3. step[t][j] \in Passed /\ num[t] = r.seq /\ t \in Copies
    BY <1>1, <2>1, <2>2, CopyFacts DEF IInv, Behind
  <2> HIDE DEF t
  <2>4. step[t][j] # "refused"
    <3>1. step[t][j] = "refused" => num[t] > ReportMax
      BY <1>1, <2>2, <2>3 DEF IInv, Told
    <3> QED BY <2>1, <2>3, <3>1, WidthAssumption
  <2>5. step[t][j] = "reported" => [node |-> j, copy |-> t, seq |-> r.seq] \in reports
    BY <1>1, <2>2, <2>3 DEF IInv, Told
  <2> QED BY <2>3, <2>4, <2>5 DEF Passed, t
<1> QED BY <1>1, InvariantHolds, PTL

-----------------------------------------------------------------------------
(* Numbers *)

\* There are not more copies than numbers.
Few == IsFiniteSet(Copies) /\ Cardinality(Copies) <= SeqMax + 1

\* So never all numbers were given away since t got its own.
LEMMA FewOthers ==
    ASSUME Few, NEW t \in Copies, NEW A \in SUBSET (Copies \ {t})
    PROVE  IsFiniteSet(A) /\ Cardinality(A) \in Nat /\ Cardinality(A) <= SeqMax
<1>1. IsFiniteSet(Copies \ {t}) /\ Cardinality(Copies \ {t}) = Cardinality(Copies) - 1
  BY FS_RemoveElement DEF Few
<1>2. IsFiniteSet(A) /\ Cardinality(A) <= Cardinality(Copies \ {t})
  BY <1>1, FS_Subset
<1>3. Cardinality(A) \in Nat /\ Cardinality(Copies) \in Nat
  BY <1>2, FS_CardinalityType DEF Few
<1> QED BY <1>1, <1>2, <1>3, WidthAssumption DEF Few

\* One more copy that stored lets the counter be one further.
LEMMA WithinFacts ==
    ASSUME NEW x \in Nat, NEW n \in Nat, NEW m \in Nat, Within(x, n, m)
    PROVE  Within(x, n, m + 1) /\ Within(x + 1, n, m + 1)
BY WidthAssumption DEF Within

\* A step that writes no number keeps the numbers apart.
LEMMA NumbersStay ==
    ASSUME Counted, UndisturbedNumbersDiffer, UNCHANGED seq, overlapped \subseteq overlapped',
           \A u \in Copies, s \in {"store", "test", "wrap", "return"} :
               step'[u][1] = s => step[u][1] = s,
           \A u \in Copies : Numbered(u)' => Numbered(u),
           \A u \in Copies : u \in Past => u \in Past',
           \A u \in Copies : step[u][1] = "store" \/ Numbered(u) => num'[u] = num[u]
    PROVE  NInv'
<1>1. ASSUME NEW t \in Copies \ overlapped', Numbered(t)'
      PROVE  \E A \in SUBSET (Past' \ {t}) : Drift(t, A)'
  <2>1. Numbered(t) /\ t \notin overlapped /\ num'[t] = num[t]
    BY <1>1
  <2>2. PICK A \in SUBSET (Past \ {t}) : Drift(t, A)
    BY <2>1 DEF Counted
  <2>3. Drift(t, A)'
    BY <2>1, <2>2 DEF Drift
  <2>4. A \in SUBSET (Past' \ {t})
    BY <2>2 DEF Past
  <2> QED BY <2>3, <2>4
<1>2. UndisturbedNumbersDiffer'
  BY DEF UndisturbedNumbersDiffer
<1> QED BY <1>1, <1>2 DEF NInv, Counted

\* A step that moves the counter keeps the numbers apart if the copies that
\* stored account for it.
LEMMA NumbersMove ==
    ASSUME UndisturbedNumbersDiffer, UNCHANGED overlapped,
           \A u \in Copies : Numbered(u)' <=> Numbered(u),
           \A u \in Copies : Numbered(u) => num'[u] = num[u],
           \A v \in Copies \ overlapped : Numbered(v) =>
               \E A \in SUBSET (Past' \ {v}) : Drift(v, A)'
    PROVE  NInv'
BY DEF NInv, Counted, UndisturbedNumbersDiffer

\* Loading the counter tells no number yet.
LEMMA LoadNumbers ==
    ASSUME IInv, NInv, NEW t \in Copies, LoadSeq(t) PROVE NInv'
<1>n. 1 \in Nodes
  BY NodesAssumption DEF Nodes
<1>t. TypeOK
  BY DEF IInv
<1>e. /\ step[t][1] = "load"
      /\ \A u \in Copies : step'[u][1] = IF u = t THEN "store" ELSE step[u][1]
      /\ \A u \in Copies : num'[u] = IF u = t THEN seq ELSE num[u]
      /\ UNCHANGED <<seq, overlapped>>
  <2>1. "store" \in Steps
    BY DEF Steps, Numbering
  <2> QED BY <2>1, <1>n, <1>t, GotoEffect DEF LoadSeq, TypeOK
<1>p. /\ \A u \in Copies : Numbered(u)' <=> Numbered(u)
      /\ \A u \in Copies : Numbered(u) => num'[u] = num[u]
      /\ Past \subseteq Past'
  BY <1>e DEF Numbered, Past
<1>d. ASSUME NEW v \in Copies \ overlapped, Numbered(v)
      PROVE  \E A \in SUBSET (Past' \ {v}) : Drift(v, A)'
  <2>1. PICK A \in SUBSET (Past \ {v}) : Drift(v, A)
    BY <1>d DEF NInv, Counted
  <2>2. num'[v] = num[v]
    BY <1>d, <1>p
  <2>3. Drift(v, A)'
    BY <2>1, <2>2, <1>e DEF Drift
  <2>4. A \in SUBSET (Past' \ {v})
    BY <2>1, <1>p
  <2> QED BY <2>3, <2>4
<1> QED BY <1>e, <1>p, <1>d, NumbersMove DEF NInv

\* Storing counts one more copy after every one that has its number.
LEMMA StoreNumbers ==
    ASSUME Few, IInv, NInv, NEW t \in Copies, StoreSeq(t) PROVE NInv'
<1>n. 1 \in Nodes
  BY NodesAssumption DEF Nodes
<1>t. TypeOK
  BY DEF IInv
<1>e. /\ step[t][1] = "store"
      /\ \A u \in Copies : step'[u][1] = IF u = t THEN "test" ELSE step[u][1]
      /\ seq' = num[t] + 1
      /\ UNCHANGED <<num, overlapped>>
  <2>1. "test" \in Steps
    BY DEF Steps, Numbering
  <2> QED BY <2>1, <1>n, <1>t, GotoEffect DEF StoreSeq
<1>p. /\ \A u \in Copies : Numbered(u)' <=> Numbered(u)
      /\ \A u \in Copies : Numbered(u) => num'[u] = num[u]
      /\ Past' = Past \cup {t} /\ t \notin Past
  BY <1>e DEF Numbered, Past
<1>d. ASSUME NEW v \in Copies \ overlapped, Numbered(v)
      PROVE  \E A \in SUBSET (Past' \ {v}) : Drift(v, A)'
  <2>1. PICK A \in SUBSET (Past \ {v}) : Drift(v, A)
    BY <1>d DEF NInv, Counted
  <2> DEFINE B == A \cup {t}
             m == Cardinality(A)
             n == num[v]
  <2>2. t # v
    BY <1>d, <1>e DEF Numbered
  <2>3. B \in SUBSET (Past' \ {v}) /\ B \in SUBSET (Copies \ {v}) /\ t \notin A
    BY <2>1, <2>2, <1>p DEF Past
  <2>4. IsFiniteSet(A) /\ m \in Nat /\ Cardinality(B) = m + 1 /\ Cardinality(B) <= SeqMax
    <3>1. IsFiniteSet(A) /\ m \in Nat
      BY <2>3, FewOthers
    <3>2. Cardinality(B) <= SeqMax
      BY <2>3, FewOthers
    <3> QED BY <2>3, <3>1, <3>2, FS_AddElement
  <2>5. n \in Nat /\ num[t] \in Nat /\ seq \in Nat
    BY <1>t DEF TypeOK
  <2>6. Within(num[t], n, m)
    BY <2>1, <1>e DEF Drift
  <2>7. Within(seq', n, m + 1)
    BY <2>4, <2>5, <2>6, <1>e, WithinFacts
  <2>8. seq' # n
    BY <2>4, <2>5, <2>6, <1>e, WidthAssumption DEF Within
  <2>9. ASSUME NEW u \in Copies
        PROVE  /\ step'[u][1] = "store" => Within(num[u], n, m + 1)
               /\ step'[u][1] = "wrap" => SeqMax + 1 <= n + (m + 1)
               /\ u # v /\ step'[u][1] \in {"test", "wrap", "return"} => u \in B
    <3>1. step[u][1] = "store" => Within(num[u], n, m + 1)
      <4>1. num[u] \in Nat
        BY <1>t DEF TypeOK
      <4> QED BY <4>1, <2>1, <2>4, <2>5, WithinFacts DEF Drift
    <3>2. step[u][1] = "wrap" => SeqMax + 1 <= n + (m + 1)
      BY <2>1, <2>4, <2>5, WidthAssumption DEF Drift
    <3>3. u # v /\ step[u][1] \in {"test", "wrap", "return"} => u \in A
      BY <2>1 DEF Drift
    <3> QED BY <3>1, <3>2, <3>3, <1>e
  <2>10. Drift(v, B)'
    <3> HIDE DEF B, m, n
    <3>1. num'[v] = n /\ num' = num
      BY <1>e DEF n
    <3> QED BY <2>4, <2>7, <2>8, <2>9, <3>1 DEF Drift
  <2> QED BY <2>3, <2>10
<1> QED BY <1>e, <1>p, <1>d, NumbersMove DEF NInv

\* The test sees a counter out of range only when it went through the last number.
LEMMA TestNumbers ==
    ASSUME Few, IInv, NInv, NEW t \in Copies, TestSeq(t) PROVE NInv'
<1>n. 1 \in Nodes
  BY NodesAssumption DEF Nodes
<1>t. TypeOK
  BY DEF IInv
<1>e. /\ step[t][1] = "test"
      /\ \A u \in Copies : step'[u][1] = IF u = t THEN IF seq > SeqMax THEN "wrap" ELSE "return"
                                         ELSE step[u][1]
      /\ UNCHANGED <<seq, num, overlapped>>
  <2>1. (IF seq > SeqMax THEN "wrap" ELSE "return") \in Steps
    BY DEF Steps, Numbering
  <2> QED BY <2>1, <1>n, <1>t, GotoEffect DEF TestSeq
<1>p. /\ \A u \in Copies : Numbered(u)' <=> Numbered(u)
      /\ \A u \in Copies : Numbered(u) => num'[u] = num[u]
      /\ Past \subseteq Past'
  BY <1>e DEF Numbered, Past
<1>d. ASSUME NEW v \in Copies \ overlapped, Numbered(v)
      PROVE  \E A \in SUBSET (Past' \ {v}) : Drift(v, A)'
  <2>1. PICK A \in SUBSET (Past \ {v}) : Drift(v, A)
    BY <1>d DEF NInv, Counted
  <2>2. Cardinality(A) \in Nat /\ num[v] \in Nat /\ seq \in Nat
    BY <1>t, FewOthers DEF TypeOK, Past
  <2>3. seq > SeqMax => SeqMax + 1 <= num[v] + Cardinality(A)
    BY <2>1, <2>2, WidthAssumption DEF Drift, Within
  <2>4. t # v /\ t \in A
    BY <2>1, <1>d, <1>e DEF Numbered, Drift
  <2>5. Drift(v, A)'
    BY <2>1, <2>3, <2>4, <1>e DEF Drift
  <2>6. A \in SUBSET (Past' \ {v})
    BY <2>1, <1>p
  <2> QED BY <2>5, <2>6
<1> QED BY <1>e, <1>p, <1>d, NumbersMove DEF NInv

\* Wrapping the counter starts over, past the last number.
LEMMA WrapNumbers ==
    ASSUME Few, IInv, NInv, NEW t \in Copies, WrapSeq(t) PROVE NInv'
<1>n. 1 \in Nodes
  BY NodesAssumption DEF Nodes
<1>t. TypeOK
  BY DEF IInv
<1>e. /\ step[t][1] = "wrap"
      /\ \A u \in Copies : step'[u][1] = IF u = t THEN "return" ELSE step[u][1]
      /\ seq' = 0
      /\ UNCHANGED <<num, overlapped>>
  <2>1. "return" \in Steps
    BY DEF Steps, Numbering
  <2> QED BY <2>1, <1>n, <1>t, GotoEffect DEF WrapSeq
<1>p. /\ \A u \in Copies : Numbered(u)' <=> Numbered(u)
      /\ \A u \in Copies : Numbered(u) => num'[u] = num[u]
      /\ Past \subseteq Past'
  BY <1>e DEF Numbered, Past
<1>d. ASSUME NEW v \in Copies \ overlapped, Numbered(v)
      PROVE  \E A \in SUBSET (Past' \ {v}) : Drift(v, A)'
  <2>1. PICK A \in SUBSET (Past \ {v}) : Drift(v, A)
    BY <1>d DEF NInv, Counted
  <2>2. Cardinality(A) \in Nat /\ Cardinality(A) <= SeqMax /\ num[v] \in Nat
    BY <1>t, FewOthers DEF TypeOK, Past
  <2>3. SeqMax + 1 <= num[v] + Cardinality(A)
    BY <2>1, <1>e DEF Drift
  <2>4. Within(0, num[v], Cardinality(A)) /\ num[v] # 0
    BY <2>2, <2>3, WidthAssumption DEF Within
  <2>5. t # v /\ t \in A
    BY <2>1, <1>d, <1>e DEF Numbered, Drift
  <2>6. Drift(v, A)'
    BY <2>1, <2>4, <2>5, <1>e DEF Drift
  <2>7. A \in SUBSET (Past' \ {v})
    BY <2>1, <1>p
  <2> QED BY <2>6, <2>7
<1> QED BY <1>e, <1>p, <1>d, NumbersMove DEF NInv

\* A copy is numbered by its return, with a number nobody undisturbed has.
LEMMA ReturnNumbers ==
    ASSUME Few, IInv, NInv, NEW t \in Copies, ReturnSeq(t) PROVE NInv'
<1>n. 1 \in Nodes
  BY NodesAssumption DEF Nodes
<1>t. TypeOK /\ Alone
  BY DEF IInv
<1>e. /\ step[t][1] = "return"
      /\ \A u \in Copies : step'[u][1] = IF u = t THEN IF seq > SeqMax THEN "overflow" ELSE "forward"
                                         ELSE step[u][1]
      /\ \A u \in Copies : num'[u] = IF u = t THEN seq ELSE num[u]
      /\ UNCHANGED <<seq, overlapped>>
  <2>1. (IF seq > SeqMax THEN "overflow" ELSE "forward") \in Steps
    BY DEF Steps, Ended
  <2> QED BY <2>1, <1>n, <1>t, GotoEffect DEF ReturnSeq, TypeOK
<1>p. /\ \A u \in Copies \ {t} : (Numbered(u)' <=> Numbered(u)) /\ num'[u] = num[u]
      /\ Past \subseteq Past' /\ ~Numbered(t)
  BY <1>e DEF Numbered, Past
<1>d. ASSUME NEW v \in Copies \ overlapped, v # t, Numbered(v)
      PROVE  num[v] # seq /\ \E A \in SUBSET (Past' \ {v}) : Drift(v, A)'
  <2>1. PICK A \in SUBSET (Past \ {v}) : Drift(v, A)
    BY <1>d DEF NInv, Counted
  <2>2. t \in A
    BY <2>1, <1>d, <1>e DEF Drift
  <2>3. num[v] # seq
    BY <2>1, <2>2 DEF Drift
  <2>4. num'[v] = num[v]
    BY <1>d, <1>e
  <2>5. Drift(v, A)'
    BY <2>1, <2>4, <1>e DEF Drift
  <2>6. A \in SUBSET (Past' \ {v})
    BY <2>1, <1>p
  <2> QED BY <2>3, <2>5, <2>6
<1>f. t \notin overlapped => Drift(t, {})'
  <2> SUFFICES ASSUME t \notin overlapped PROVE Drift(t, {})'
    OBVIOUS
  <2>1. \A u \in Copies \ {t} : step'[u][1] \notin Numbering
    BY <1>t, <1>e DEF Alone, Numbering
  <2>2. step'[t][1] \notin Numbering
    BY <1>e DEF Numbering
  <2>3. Within(seq, seq, 0)
    BY <1>t DEF Within, TypeOK
  <2>4. Cardinality({}) = 0
    BY FS_EmptySet
  <2> QED BY <2>1, <2>2, <2>3, <2>4, <1>e DEF Drift, Numbering
<1>1. Counted'
  <2> SUFFICES ASSUME NEW v \in Copies \ overlapped, Numbered(v)'
               PROVE  \E A \in SUBSET (Past' \ {v}) : Drift(v, A)'
    BY <1>e DEF Counted
  <2>1. CASE v = t
    BY <2>1, <1>f
  <2>2. CASE v # t
    BY <2>2, <1>p, <1>d
  <2> QED BY <2>1, <2>2
<1>2. UndisturbedNumbersDiffer'
  <2> SUFFICES ASSUME NEW u \in Copies \ overlapped, NEW v \in Copies \ overlapped,
                      u # v, Numbered(u)', Numbered(v)'
               PROVE  num'[u] # num'[v]
    BY <1>e DEF UndisturbedNumbersDiffer
  <2>1. CASE u = t
    BY <2>1, <1>p, <1>d, <1>e
  <2>2. CASE v = t
    BY <2>2, <1>p, <1>d, <1>e
  <2>3. CASE u # t /\ v # t
    BY <2>3, <1>p DEF NInv, UndisturbedNumbersDiffer
  <2> QED BY <2>1, <2>2, <2>3
<1> QED BY <1>1, <1>2 DEF NInv

\* What threads do after numbering, and the network, changes no number.
LEMMA OtherNumbers ==
    ASSUME IInv, NInv, NEW t \in Copies, NEW k \in Nodes,
           Receive(t, k) \/ Lose(t, k) \/ Forward(t, k) \/ Report(t, k) \/ ReportFails(t, k)
    PROVE  NInv'
<1>n. 1 \in Nodes /\ \A j \in Nodes : j + 1 # 1
  BY NodesAssumption DEF Nodes
<1>t. TypeOK
  BY DEF IInv
<1>u. UNCHANGED <<seq, num>> /\ overlapped \subseteq overlapped'
  BY DEF Receive, Lose, Forward, Report, ReportFails
<1>e. \A u \in Copies : \/ step'[u][1] = step[u][1]
                        \/ step[u][1] = "wire" /\ step'[u][1] \in {"load", "lost"}
                        \/ /\ step[u][1] \in {"forward", "report"}
                           /\ step'[u][1] \in
                                 {"broken", "report", "reported", "unreported", "refused"}
  <2>1. CASE Receive(t, k)
    <3>1. (IF k = 1 THEN "load" ELSE "forward") \in Steps
      BY DEF Steps, Numbering
    <3> QED BY <2>1, <3>1, <1>n, <1>t, GotoEffect DEF Receive
  <2>2. CASE Lose(t, k)
    <3>1. "lost" \in Steps
      BY DEF Steps, Ended
    <3> QED BY <2>2, <3>1, <1>n, <1>t, GotoEffect DEF Lose
  <2>3. CASE Report(t, k)
    <3>1. "reported" \in Steps
      BY DEF Steps, Ended
    <3> QED BY <2>3, <3>1, <1>n, <1>t, GotoEffect DEF Report
  <2>4. CASE ReportFails(t, k)
    <3>1. (IF num[t] <= ReportMax THEN "unreported" ELSE "refused") \in Steps
      BY DEF Steps, Ended
    <3> QED BY <2>4, <3>1, <1>n, <1>t, GotoEffect DEF ReportFails
  <2>5. CASE Forward(t, k)
    <3>1. \A u \in Copies \ {t} : step'[u] = step[u]
      BY <2>5, <1>t, ForwardEffect
    <3>2. k # 1 => step'[t][1] = step[t][1]
      BY <2>5, <1>t, <1>n, ForwardEffect
    <3>3. k = 1 => step[t][1] = "forward" /\ step'[t][1] \in {"broken", "report"}
      BY <2>5, <1>t, ForwardEffect
    <3> QED BY <3>1, <3>2, <3>3
  <2> QED BY <2>1, <2>2, <2>3, <2>4, <2>5
<1>1. \A u \in Copies : Numbered(u)' <=> Numbered(u)
  BY <1>e DEF Numbered
<1>2. \A u \in Copies : u \in Past => u \in Past'
  BY <1>e, <1>1 DEF Past
<1>3. \A u \in Copies, s \in {"store", "test", "wrap", "return"} :
          step'[u][1] = s => step[u][1] = s
  BY <1>e
<1> QED BY <1>1, <1>2, <1>3, <1>u, NumbersStay DEF NInv

\* A copy that the network makes enters unnumbered, or under its packet's number.
LEMMA DuplicateNumbers ==
    ASSUME IInv, NInv, NEW p \in Packets, NEW c \in 2..MaxCopies[p], NEW k \in Nodes,
           Duplicate(p, c, k)
    PROVE  NInv'
<1>n. 1 \in Nodes
  BY NodesAssumption DEF Nodes
<1>1. UNCHANGED <<seq, overlapped>>
  BY DEF Duplicate
<1>2. \A u \in Copies : \/ step'[u][1] = step[u][1] /\ num'[u] = num[u]
                        \/ step[u][1] = "none" /\ step'[u][1] \in {"wire", "none"}
  <2>1. TypeOK
    BY DEF IInv
  <2>2. /\ <<p, c>> \in Copies /\ <<p, 1>> \in Copies /\ <<p, c>> # <<p, 1>>
        /\ Unused(<<p, c>>) /\ step[<<p, 1>>][k] = "wire"
        /\ step' \in [Copies -> [Nodes -> Steps]] /\ num' \in [Copies -> Nat]
        /\ \A u \in Copies, j \in Nodes :
              step'[u][j] = IF u = <<p, c>> /\ j = k THEN "wire" ELSE step[u][j]
        /\ \A u \in Copies : num'[u] = IF u = <<p, c>> THEN num[<<p, 1>>] ELSE num[u]
    BY <2>1, DuplicateEffect
  <2>3. step[<<p, c>>][1] = "none"
    BY <1>n, <2>2 DEF Unused
  <2>4. \A u \in Copies : step'[u][1] = IF u = <<p, c>> /\ 1 = k THEN "wire" ELSE step[u][1]
    BY <1>n, <2>2
  <2> QED BY <2>2, <2>3, <2>4
<1>3. \A u \in Copies : Numbered(u)' <=> Numbered(u)
  BY <1>2 DEF Numbered
<1>4. \A u \in Copies : u \in Past => u \in Past'
  BY <1>2, <1>3 DEF Past
<1>5. \A u \in Copies, s \in {"store", "test", "wrap", "return"} :
          step'[u][1] = s => step[u][1] = s
  BY <1>2
<1>6. \A u \in Copies : step[u][1] = "store" \/ Numbered(u) => num'[u] = num[u]
  BY <1>2 DEF Numbered
<1> QED BY <1>1, <1>3, <1>4, <1>5, <1>6, NumbersStay DEF NInv

\* At the start no packet has a number.
LEMMA StartNumbers == ASSUME Init PROVE NInv
<1>1. \A t \in Copies : ~Numbered(t)
  BY NodesAssumption DEF Init, Numbered, Nodes
<1> QED BY <1>1 DEF NInv, Counted, UndisturbedNumbersDiffer

\* No step gives an undisturbed packet a number that another one has.
LEMMA StepNumbers == ASSUME Few, IInv, NInv, [Next]_vars PROVE NInv'
<1>1. ASSUME UNCHANGED <<step, num, seq, overlapped>> PROVE NInv'
  BY <1>1 DEF NInv, Counted, UndisturbedNumbersDiffer, Past, Drift, Numbered
<1>2. ASSUME NEW t \in Copies, NEW k \in Nodes, Receive(t, k) \/ Lose(t, k) PROVE NInv'
  BY <1>2, OtherNumbers
<1>3. ASSUME NEW t \in Copies, NEW k \in Nodes, Thread(t, k) PROVE NInv'
  BY <1>3, OtherNumbers, LoadNumbers, StoreNumbers, TestNumbers, WrapNumbers,
     ReturnNumbers DEF Thread
<1>4. ASSUME NEW p \in Packets, NEW k \in Nodes, NEW c \in 2..MaxCopies[p],
             Duplicate(p, c, k)
      PROVE  NInv'
  BY <1>4, DuplicateNumbers
<1>5. ASSUME NEW k \in Nodes, Close(k) PROVE NInv'
  BY <1>1, <1>5 DEF Close
<1> QED BY <1>1, <1>2, <1>3, <1>4, <1>5 DEF Next, Finished, vars

\* Packets that increase_sequence_number numbers undisturbed get different
\* numbers, when there are not more packets than numbers.
THEOREM NumbersDiffer ==
    ASSUME Few
    PROVE  Spec => []UndisturbedNumbersDiffer
<1>1. Init => IInv /\ NInv
  BY StartHolds, StartNumbers
<1>2. IInv /\ NInv /\ [Next]_vars => (IInv /\ NInv)'
  BY StepHolds, StepNumbers
<1>3. IInv /\ NInv => UndisturbedNumbersDiffer
  BY DEF NInv
<1> QED BY <1>1, <1>2, <1>3, PTL DEF Spec
=============================================================================
