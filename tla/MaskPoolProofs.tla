-------------------------- MODULE MaskPoolProofs --------------------------
(***************************************************************************)
(* Proofs about MaskPool, for any number of extractions, any size of the   *)
(* keys and any number of batches.                                         *)
(***************************************************************************)
EXTENDS MaskPool, TLAPS, SequenceTheorems, FiniteSetTheorems

-----------------------------------------------------------------------------
(* Lists of keys *)

\* The keys of batches up to b: each key once, and only the last may be empty.
Pool(ks, b) ==
    /\ ks \in Seq(Key) /\ Len(ks) \in Nat \ {0}
    /\ \A i \in 1..Len(ks) :
          /\ ks[i].batch <= b
          /\ i # Len(ks) => ~Short(ks[i])
          /\ \A j \in 1..Len(ks) :
                i # j => ks[i].batch # ks[j].batch \/ ks[i].place # ks[j].place

CutMask == [batch : 1..MaxBatch, place : 1..KeysPerBatch,
            at : 0..(MasksPerKey - 1)]

\* No key of the list can give the mask m again.
Spent(m, ks) ==
    \A i \in 1..Len(ks) :
        m.batch = ks[i].batch /\ m.place = ks[i].place => m.at < ks[i].cut

\* What TakeFrom leaves of a list.
Remaining(ks) == [ks EXCEPT ![Len(ks)] = Rest(ks[Len(ks)])]

LEMMA PoolLast ==
    ASSUME NEW ks, NEW b, Pool(ks, b)
    PROVE  /\ Len(ks) \in 1..Len(ks) /\ ks[Len(ks)] \in Key
           /\ \A i \in 1..Len(ks) : ks[i] \in Key
           /\ ks # <<>>
  <1>1. ks \in Seq(Key) /\ Len(ks) \in 1..Len(ks) /\ Len(ks) # 0
    BY DEF Pool
  <1>2. \A i \in 1..Len(ks) : ks[i] \in Key
    BY <1>1, ElementOfSeq
  <1> QED
    BY <1>1, <1>2, EmptySeq

LEMMA RestOfKey ==
    ASSUME NEW key \in Key
    PROVE  /\ Rest(key) \in Key
           /\ Rest(key).batch = key.batch /\ Rest(key).place = key.place
           /\ Rest(key).cut >= key.cut
           /\ ~Short(key) => Rest(key).cut = key.cut + 1
  BY SizeAssumption DEF Rest, Short, Key

\* Cutting from the last key keeps the list what it is, and no mask returns.
LEMMA RemainingPool ==
    ASSUME NEW ks, NEW b, Pool(ks, b)
    PROVE  /\ Pool(Remaining(ks), b)
           /\ \A m \in CutMask : Spent(m, ks) => Spent(m, Remaining(ks))
  <1> DEFINE n == Len(ks)
             r == Rest(ks[n])
  <1>1. /\ ks \in Seq(Key) /\ n \in 1..n /\ n \in Nat \ {0} /\ ks[n] \in Key
        /\ \A i \in 1..n : ks[i] \in Key
    BY PoolLast DEF Pool
  <1>2. /\ r \in Key /\ r.batch = ks[n].batch /\ r.place = ks[n].place
        /\ r.cut >= ks[n].cut
    BY <1>1, RestOfKey
  <1> HIDE DEF r
  <1>3. /\ Remaining(ks) \in Seq(Key) /\ Len(Remaining(ks)) = n
        /\ \A i \in 1..n : Remaining(ks)[i] = IF i = n THEN r ELSE ks[i]
    BY <1>1, <1>2, ExceptSeq DEF Remaining, r
  <1> HIDE DEF n
  <1>4. \A i \in 1..n : /\ Remaining(ks)[i].batch = ks[i].batch
                        /\ Remaining(ks)[i].place = ks[i].place
                        /\ Remaining(ks)[i].cut >= ks[i].cut
                        /\ i # n => Remaining(ks)[i] = ks[i]
    <2>1. \A key \in Key : key.cut \in Int
      BY SizeAssumption DEF Key
    <2>2. \A i \in 1..n : Remaining(ks)[i] = IF i = n THEN r ELSE ks[i]
      BY <1>3
    <2> SUFFICES ASSUME NEW i \in 1..n
                 PROVE  /\ Remaining(ks)[i].batch = ks[i].batch
                        /\ Remaining(ks)[i].place = ks[i].place
                        /\ Remaining(ks)[i].cut >= ks[i].cut
                        /\ i # n => Remaining(ks)[i] = ks[i]
      OBVIOUS
    <2>3. CASE i = n
      BY <1>2, <2>2, <2>3
    <2>4. CASE i # n
      <3>1. Remaining(ks)[i] = ks[i] /\ ks[i].cut \in Int
        BY <1>1, <2>1, <2>2, <2>4
      <3> QED
        BY <2>4, <3>1
    <2> QED
      BY <2>3, <2>4
  <1>5. Pool(Remaining(ks), b)
    <2>1. \A i \in 1..n :
             /\ ks[i].batch <= b
             /\ i # n => ~Short(ks[i])
             /\ \A j \in 1..n :
                   i # j => ks[i].batch # ks[j].batch \/ ks[i].place # ks[j].place
      BY DEF Pool, n
    <2>2. \A i \in 1..n :
             /\ Remaining(ks)[i].batch <= b
             /\ i # n => ~Short(Remaining(ks)[i])
             /\ \A j \in 1..n :
                   i # j => \/ Remaining(ks)[i].batch # Remaining(ks)[j].batch
                            \/ Remaining(ks)[i].place # Remaining(ks)[j].place
      BY <1>4, <2>1
    <2> QED
      BY <1>1, <1>3, <2>2 DEF Pool
  <1>6. ASSUME NEW m \in CutMask, Spent(m, ks)
        PROVE  Spent(m, Remaining(ks))
    <2> SUFFICES ASSUME NEW i \in 1..n, m.batch = Remaining(ks)[i].batch,
                        m.place = Remaining(ks)[i].place
                 PROVE  m.at < Remaining(ks)[i].cut
      BY <1>3 DEF Spent
    <2>1. /\ m.batch = ks[i].batch /\ m.place = ks[i].place
          /\ Remaining(ks)[i].cut >= ks[i].cut
      BY <1>4
    <2>3. m.at < ks[i].cut
      BY <1>6, <2>1 DEF Spent, n
    <2>2. m.at \in Int /\ ks[i].cut \in Int /\ Remaining(ks)[i].cut \in Int
      <3>1. \A key \in Key : key.cut \in Int
        BY SizeAssumption DEF Key
      <3>2. ks[i] \in Key /\ Remaining(ks)[i] \in Key
        BY <1>1, <1>2, <1>3
      <3>3. m.at \in Int
        BY SizeAssumption DEF CutMask
      <3> QED
        BY <3>1, <3>2, <3>3
    <2> QED
      BY <2>1, <2>2, <2>3
  <1> QED
    BY <1>5, <1>6

\* A mask cut from a key that is long enough is whole and new.
LEMMA CutIsNew ==
    ASSUME NEW ks, NEW b, Pool(ks, b), ~Short(ks[Len(ks)])
    PROVE  LET m == Cut(ks[Len(ks)])
           IN  /\ m \in CutMask /\ m.batch <= b
               /\ Spent(m, Remaining(ks))
               /\ \A o \in CutMask : Spent(o, ks) => o # m
  <1> DEFINE n == Len(ks)
             m == Cut(ks[n])
  <1>1. ks \in Seq(Key) /\ n \in 1..n /\ n \in Nat \ {0} /\ ks[n] \in Key
    BY PoolLast DEF Pool
  <1>2. m = [batch |-> ks[n].batch, place |-> ks[n].place, at |-> ks[n].cut]
    BY DEF Cut
  <1>3. ks[n].cut < MasksPerKey
    BY <1>1, SizeAssumption DEF Short, Key
  <1> HIDE DEF m
  <1>4. m \in CutMask /\ m.batch <= b
    <2>1. ks[n].batch <= b
      BY <1>1 DEF Pool
    <2>2. ks[n].cut \in 0..(MasksPerKey - 1)
      BY <1>1, <1>3, SizeAssumption DEF Key
    <2> QED
      BY <1>1, <1>2, <2>1, <2>2 DEF CutMask, Key
  <1>5. Spent(m, Remaining(ks))
    <2>1. /\ Len(Remaining(ks)) = n
          /\ \A i \in 1..n : Remaining(ks)[i] = IF i = n THEN Rest(ks[n]) ELSE ks[i]
      BY <1>1, RestOfKey, ExceptSeq DEF Remaining
    <2>2. Rest(ks[n]).cut = ks[n].cut + 1 /\ ks[n].cut \in Nat
      BY <1>1, RestOfKey, SizeAssumption DEF Key
    <2>3. \A i \in 1..n : i # n =>
             ks[i].batch # ks[n].batch \/ ks[i].place # ks[n].place
      BY <1>1 DEF Pool
    <2> HIDE DEF n
    <2> QED
      BY <1>1, <1>2, <2>1, <2>2, <2>3 DEF Spent
  <1>6. \A o \in CutMask : Spent(o, ks) => o # m
    <2>1. ks[n].cut \in Int
      BY <1>1, SizeAssumption DEF Key
    <2> QED
      BY <1>1, <1>2, <2>1 DEF Spent
  <1> QED
    BY <1>4, <1>5, <1>6 DEF m

LEMMA TrimmedPool ==
    ASSUME NEW ks, NEW b, Pool(ks, b), Trimmed(ks) # <<>>
    PROVE  /\ Pool(Trimmed(ks), b)
           /\ ~Short(Trimmed(ks)[Len(Trimmed(ks))])
           /\ \A m \in CutMask : Spent(m, ks) => Spent(m, Trimmed(ks))
  <1> DEFINE n == Len(ks)
             t == Trimmed(ks)
  <1>1. /\ ks \in Seq(Key) /\ n \in 1..n /\ n \in Nat \ {0}
        /\ \A i \in 1..n : ks[i] \in Key
    BY PoolLast DEF Pool
  <1>2. CASE ~Short(ks[n])
    BY <1>2 DEF Trimmed
  <1>3. CASE Short(ks[n])
    <2>1. t = SubSeq(ks, 1, n - 1)
      BY <1>3 DEF Trimmed, Butlast
    <2>2. /\ t \in Seq(Key) /\ Len(t) = n - 1
          /\ \A i \in 1..(n - 1) : t[i] = ks[i]
      <3>1. \A i \in 1..(n - 1) : ks[i] \in Key
        BY <1>1
      <3>2. /\ SubSeq(ks, 1, n - 1) \in Seq(Key)
            /\ Len(SubSeq(ks, 1, n - 1)) = IF 1 <= n - 1 THEN n - 1 - 1 + 1 ELSE 0
            /\ \A i \in 1..(n - 1 - 1 + 1) : SubSeq(ks, 1, n - 1)[i] = ks[1 + i - 1]
        BY <1>1, <3>1, SubSeqProperties
      <3> QED
        BY <1>1, <2>1, <3>2
    <2>3. Len(t) # 0
      BY <2>2, EmptySeq
    <2> HIDE DEF t
    <2>4. Pool(t, b)
      BY <1>1, <2>2, <2>3 DEF Pool
    <2>5. ~Short(t[Len(t)])
      BY <1>1, <2>2, <2>3 DEF Pool
    <2>6. \A m \in CutMask : Spent(m, ks) => Spent(m, t)
      BY <1>1, <2>2 DEF Spent
    <2> QED
      BY <2>4, <2>5, <2>6 DEF t
  <1> QED
    BY <1>2, <1>3

LEMMA BatchPool ==
    ASSUME NEW b \in 1..MaxBatch
    PROVE  /\ Pool(Batch(b), b)
           /\ ~Short(Batch(b)[Len(Batch(b))])
           /\ \A m \in CutMask : m.batch < b => Spent(m, Batch(b))
  <1>1. /\ Batch(b) \in Seq(Key) /\ Len(Batch(b)) = KeysPerBatch
        /\ \A i \in 1..KeysPerBatch :
              Batch(b)[i] = [batch |-> b, place |-> i, cut |-> 0]
    BY SizeAssumption, IsASeq DEF Batch, Key
  <1>2. b \in Int /\ KeysPerBatch \in 1..KeysPerBatch
    BY SizeAssumption
  <1>3. Pool(Batch(b), b)
    BY <1>1, <1>2, SizeAssumption DEF Pool, Short
  <1>4. ~Short(Batch(b)[Len(Batch(b))])
    BY <1>1, <1>2, SizeAssumption DEF Short
  <1>5. \A m \in CutMask : m.batch < b => Spent(m, Batch(b))
    BY <1>1, <1>2, SizeAssumption DEF Spent, CutMask
  <1> QED
    BY <1>3, <1>4, <1>5

-----------------------------------------------------------------------------
(* Types, and no pool is ever empty *)

Cutting(e) == pc[e] \in {"take", "commit"}

PoolInv == /\ Pool(shelf, batches)
           /\ \A e \in Paths : Cutting(e) => Pool(keys[e], batches)

LEMMA CutType ==
    ASSUME NEW key \in Key
    PROVE  Cut(key) \in Mask
  <1>1. CASE Short(key)
    BY <1>1 DEF Cut, Mask
  <1>2. CASE ~Short(key)
    BY <1>2, SizeAssumption DEF Cut, Short, Key, Mask
  <1> QED
    BY <1>1, <1>2

\* What TakeFrom does, spelled out.
LEMMA TakeEffect ==
    ASSUME TypeOK, NEW e \in Paths, NEW ks, Pool(ks, batches), TakeFrom(e, ks)
    PROVE  /\ keys' = [keys EXCEPT ![e] = Remaining(ks)]
           /\ masks' = [masks EXCEPT ![e] = Append(masks[e], Cut(ks[Len(ks)]))]
           /\ pc' \in [Paths -> {"idle", "take", "reread", "commit", "done",
                                 "failed"}]
           /\ pc'[e] \in {"take", "commit"}
           /\ \A f \in Paths : f # e => pc'[f] = pc[f]
  BY DEF TakeFrom, Remaining, TypeOK

LEMMA TakeType ==
    ASSUME TypeOK, PoolInv, NEW e \in Paths, NEW ks, Pool(ks, batches),
           TakeFrom(e, ks),
           UNCHANGED <<shelf, fresh, batches, lock, timer, disturbed>>
    PROVE  TypeOK' /\ PoolInv'
  <1> DEFINE m == Cut(ks[Len(ks)])
  <1>0. /\ keys' = [keys EXCEPT ![e] = Remaining(ks)]
        /\ masks' = [masks EXCEPT ![e] = Append(masks[e], m)]
    BY TakeEffect
  <1>1. Pool(Remaining(ks), batches) /\ Remaining(ks) \in Seq(Key)
    BY RemainingPool DEF Pool
  <1>2. m \in Mask
    BY PoolLast, CutType
  <1> HIDE DEF m
  <1>3. keys' \in [Paths -> Seq(Key)]
    BY <1>0, <1>1 DEF TypeOK
  <1>4. masks' \in [Paths -> Seq(Mask)]
    <2>1. masks[e] \in Seq(Mask)
      BY DEF TypeOK
    <2>2. Append(masks[e], m) \in Seq(Mask)
      BY <1>2, <2>1, AppendProperties
    <2> QED
      BY <1>0, <2>2 DEF TypeOK
  <1>5. TypeOK'
    BY <1>3, <1>4, TakeEffect DEF TypeOK
  <1>6. PoolInv'
    <2>1. keys'[e] = Remaining(ks) /\ \A f \in Paths : f # e => keys'[f] = keys[f]
      BY TakeEffect DEF TypeOK
    <2> QED
      BY <1>1, <2>1, TakeEffect DEF PoolInv, Cutting
  <1> QED
    BY <1>5, <1>6

LEMMA LaterPool ==
    ASSUME TypeOK, NEW ks, Pool(ks, batches)
    PROVE  Pool(ks, batches + 1)
  <1>1. batches \in Int /\ \A key \in Key : key.batch \in Int
    BY SizeAssumption DEF TypeOK, Key
  <1>2. \A i \in 1..Len(ks) : ks[i] \in Key
    BY PoolLast
  <1>3. \A i \in 1..Len(ks) : ks[i].batch <= batches + 1
    BY <1>1, <1>2 DEF Pool
  <1> QED
    BY <1>3 DEF Pool

LEMMA GenerateEffect ==
    ASSUME TypeOK, PoolInv, Generate
    PROVE  /\ batches + 1 \in 1..MaxBatch
           /\ batches' = batches + 1 /\ shelf' = Batch(batches + 1)
           /\ Pool(Batch(batches + 1), batches + 1)
           /\ Batch(batches + 1) \in Seq(Key)
           /\ fresh' = TRUE /\ lock' = lock
  <1>1. batches + 1 \in 1..MaxBatch
    BY SizeAssumption DEF Generate, TypeOK
  <1>2. Pool(Batch(batches + 1), batches + 1)
    BY <1>1, BatchPool
  <1> QED
    BY <1>1, <1>2 DEF Generate, Pool

LEMMA TypeStep ==
    ASSUME TypeOK, PoolInv, [Next]_vars
    PROVE  TypeOK' /\ PoolInv'
  <1>1. ASSUME NEW e \in Paths, ReadKeys(e) PROVE TypeOK' /\ PoolInv'
    <2>1. TypeOK'
      BY <1>1 DEF ReadKeys, TypeOK, Working
    <2>2. PoolInv'
      BY <1>1 DEF ReadKeys, TypeOK, PoolInv, Cutting
    <2> QED
      BY <2>1, <2>2
  <1>2. ASSUME NEW e \in Paths, TakeMask(e) PROVE TypeOK' /\ PoolInv'
    <2>1. Pool(Trimmed(keys[e]), batches)
      BY <1>2, TrimmedPool DEF TakeMask, PoolInv, Cutting
    <2> QED
      BY <1>2, <2>1, TakeType DEF TakeMask
  <1>3. ASSUME NEW e \in Paths, GenerateInline(e) PROVE TypeOK' /\ PoolInv'
    <2>1. Generate
      BY <1>3 DEF GenerateInline
    <2>2. TypeOK'
      BY <1>3, <2>1, GenerateEffect DEF GenerateInline, TypeOK
    <2>3. \A f \in Paths : Cutting(f)' => Cutting(f) /\ keys'[f] = keys[f]
      BY <1>3 DEF GenerateInline, Cutting, TypeOK
    <2>4. PoolInv'
      BY <2>1, <2>3, GenerateEffect, LaterPool DEF PoolInv
    <2> QED
      BY <2>2, <2>4
  <1>4. ASSUME NEW e \in Paths, GenerateFails(e) PROVE TypeOK' /\ PoolInv'
    <2>1. TypeOK'
      BY <1>4 DEF GenerateFails, TypeOK
    <2>2. PoolInv'
      BY <1>4 DEF GenerateFails, TypeOK, PoolInv, Cutting
    <2> QED
      BY <2>1, <2>2
  <1>5. ASSUME NEW e \in Paths, RereadKeys(e) PROVE TypeOK' /\ PoolInv'
    <2>1. Pool(shelf, batches)
      BY DEF PoolInv
    <2> QED
      BY <1>5, <2>1, TakeType DEF RereadKeys
  <1>6. ASSUME NEW e \in Paths, UpdateMasks(e) PROVE TypeOK' /\ PoolInv'
    <2>1. TypeOK'
      BY <1>6 DEF UpdateMasks, TypeOK
    <2>2. Pool(shelf', batches')
      BY <1>6 DEF UpdateMasks, PoolInv, Cutting
    <2>3. \A f \in Paths : Cutting(f)' => Cutting(f)
      BY <1>6 DEF UpdateMasks, TypeOK, Cutting
    <2>4. PoolInv'
      BY <1>6, <2>2, <2>3 DEF UpdateMasks, PoolInv
    <2> QED
      BY <2>1, <2>4
  <1>7. CASE TimerGenerates
    <2>1. Generate
      BY <1>7 DEF TimerGenerates
    <2>2. TypeOK'
      BY <1>7, <2>1, GenerateEffect DEF TimerGenerates, TypeOK
    <2>3. PoolInv'
      BY <1>7, <2>1, GenerateEffect, LaterPool
      DEF TimerGenerates, PoolInv, Cutting
    <2> QED
      BY <2>2, <2>3
  <1>8. CASE \/ TimerFails \/ TimerHangs \/ TimerStamps \/ TimePasses
             \/ UNCHANGED vars
    <2>1. TypeOK'
      BY <1>8 DEF TimerFails, TimerHangs, TimerStamps, TimePasses, vars, TypeOK
    <2>2. PoolInv'
      BY <1>8
      DEF TimerFails, TimerHangs, TimerStamps, TimePasses, vars, PoolInv, Cutting
    <2> QED
      BY <2>1, <2>2
  <1>9. ASSUME NEW e \in Paths, ExtractFails(e) PROVE TypeOK' /\ PoolInv'
    <2>1. TypeOK'
      BY <1>9 DEF ExtractFails, WriteFails, TypeOK
    <2>2. PoolInv'
      BY <1>9 DEF ExtractFails, WriteFails, TypeOK, PoolInv, Cutting
    <2> QED
      BY <2>1, <2>2
  <1>10. CASE TimerWriteFails
    <2>1. TypeOK'
      BY <1>10 DEF TimerWriteFails, WriteFails, TypeOK
    <2>2. PoolInv'
      BY <1>10 DEF TimerWriteFails, WriteFails, PoolInv, Cutting
    <2> QED
      BY <2>1, <2>2
  <1> QED
    BY <1>1, <1>2, <1>3, <1>4, <1>5, <1>6, <1>7, <1>8, <1>9, <1>10
    DEF Next, Extract, Timer, TimerFault

LEMMA InitType == Init => TypeOK /\ PoolInv
  <1> SUFFICES ASSUME Init PROVE TypeOK /\ PoolInv
    OBVIOUS
  <1>1. 1 \in 1..MaxBatch
    BY SizeAssumption
  <1>2. Pool(Batch(1), 1) /\ Batch(1) \in Seq(Key)
    BY <1>1, BatchPool DEF Pool
  <1>3. <<>> \in Seq(Key) /\ <<>> \in Seq(Mask)
    BY EmptySeq
  <1>4. TypeOK
    BY <1>1, <1>2, <1>3 DEF Init, TypeOK
  <1>5. PoolInv
    BY <1>2 DEF Init, PoolInv, Cutting
  <1> QED
    BY <1>4, <1>5

(***************************************************************************)
(* The variables keep their types, and every list an extraction cuts from  *)
(* is a list of different keys of which only the last may be empty.        *)
(***************************************************************************)
THEOREM PoolsAreWhole == Spec => [](TypeOK /\ PoolInv)
  <1>1. TypeOK /\ PoolInv /\ [Next]_vars => TypeOK' /\ PoolInv'
    BY TypeStep
  <1> QED
    BY <1>1, InitType, PTL DEF Spec

(***************************************************************************)
(* keys[n_keys - 1] never fails, however extractions and the timer         *)
(* interleave and whatever updates are lost.                               *)
(***************************************************************************)
THEOREM PoolsHoldKeys == Spec => []PoolNeverEmpty
  <1>1. TypeOK /\ PoolInv => PoolNeverEmpty
    BY PoolLast DEF PoolInv, Cutting, PoolNeverEmpty
  <1> QED
    BY <1>1, PoolsAreWhole, PTL

-----------------------------------------------------------------------------
(* Masks are one-time *)

Alone(e) == e \notin disturbed /\ pc[e] # "failed"
Works(e) == pc[e] \in {"take", "reread", "commit"}

OwnInv ==
    \A e \in Paths : Alone(e) =>
        /\ pc[e] = "idle" => Len(masks[e]) = 0
        /\ Works(e) => \A f \in Paths : Works(f) => f = e
        /\ pc[e] = "reread" => ~Short(shelf[Len(shelf)])

\* No list that is cut from, now or later, can give the mask again.
SpentInv ==
    \A e \in Paths : Alone(e) => \A i \in 1..Len(masks[e]) :
        /\ masks[e][i] \in CutMask /\ masks[e][i].batch <= batches
        /\ \A g \in Paths : Cutting(g) => Spent(masks[e][i], keys[g])
        /\ pc[e] \in {"reread", "done"} => Spent(masks[e][i], shelf)

DifferInv ==
    \A e, f \in Paths : Alone(e) /\ Alone(f) =>
        \A i \in 1..Len(masks[e]), j \in 1..Len(masks[f]) :
            e # f \/ i # j => masks[e][i] # masks[f][j]

FreshInv == OwnInv /\ SpentInv /\ DifferInv

LEMMA ReadFresh ==
    ASSUME TypeOK, FreshInv, NEW e \in Paths, ReadKeys(e)
    PROVE  FreshInv'
  <1>1. /\ pc[e] = "idle" /\ UNCHANGED <<shelf, batches, masks>>
        /\ \A f \in Paths : pc'[f] = IF f = e THEN "take" ELSE pc[f]
        /\ \A f \in Paths : keys'[f] = IF f = e THEN shelf ELSE keys[f]
    BY DEF ReadKeys, TypeOK
  <1>2. ASSUME NEW f \in Paths, Alone(f)'
        PROVE  /\ Alone(f) /\ ~Works(f)
               /\ f = e => \A g \in Paths : ~Works(g)
    <2>1. f \notin disturbed' /\ pc[f] # "failed"
      BY <1>1, <1>2 DEF Alone
    <2>2. CASE Working = {}
      <3>1. \A g \in Paths : ~Works(g)
        BY <2>2 DEF Working, Works
      <3> QED
        BY <2>1, <2>2, <3>1 DEF ReadKeys, Alone
    <2>3. CASE Working # {}
      <3>1. f \notin disturbed /\ f \notin Working /\ f # e
        BY <2>1, <2>3 DEF ReadKeys
      <3>2. ~Works(f)
        BY <3>1 DEF Working, Works
      <3> QED
        BY <2>1, <3>1, <3>2 DEF Alone
    <2> QED
      BY <2>2, <2>3
  <1>3. OwnInv'
    <2> SUFFICES ASSUME NEW f \in Paths, Alone(f)'
                 PROVE  /\ pc'[f] = "idle" => Len(masks[f]) = 0
                        /\ Works(f)' => \A g \in Paths : Works(g)' => g = f
                        /\ pc'[f] = "reread" => ~Short(shelf[Len(shelf)])
      BY <1>1 DEF OwnInv
    <2>1. \A g \in Paths : g # e => (Works(g)' <=> Works(g))
      BY <1>1 DEF Works
    <2>2. Works(f)' => \A g \in Paths : Works(g)' => g = f
      BY <1>2, <2>1
    <2> QED
      BY <1>1, <1>2, <2>2 DEF FreshInv, OwnInv
  <1>4. SpentInv'
    <2> SUFFICES ASSUME NEW f \in Paths, Alone(f)', NEW i \in 1..Len(masks[f])
                 PROVE  /\ masks[f][i] \in CutMask /\ masks[f][i].batch <= batches
                        /\ \A g \in Paths : Cutting(g)' => Spent(masks[f][i], keys'[g])
                        /\ pc'[f] \in {"reread", "done"} => Spent(masks[f][i], shelf)
      BY <1>1 DEF SpentInv, Spent
    <2>1. Alone(f) /\ pc[f] \in {"idle", "done"}
      BY <1>2 DEF Works, Alone, TypeOK
    <2>2. pc[f] = "done"
      BY <2>1 DEF FreshInv, OwnInv
    <2>3. /\ masks[f][i] \in CutMask /\ masks[f][i].batch <= batches
          /\ Spent(masks[f][i], shelf)
          /\ \A g \in Paths : Cutting(g) => Spent(masks[f][i], keys[g])
      BY <2>1, <2>2 DEF FreshInv, SpentInv
    <2>4. \A g \in Paths : Cutting(g)' => \/ keys'[g] = shelf
                                          \/ Cutting(g) /\ keys'[g] = keys[g]
      BY <1>1 DEF Cutting
    <2> QED
      BY <2>3, <2>4
  <1>5. DifferInv'
    BY <1>1, <1>2 DEF FreshInv, DifferInv
  <1> QED
    BY <1>3, <1>4, <1>5 DEF FreshInv

\* Cutting a mask, from its own copy or from the shelf.
LEMMA TakeFresh ==
    ASSUME TypeOK, FreshInv, NEW e \in Paths, Works(e), NEW ks,
           Pool(ks, batches), TakeFrom(e, ks),
           UNCHANGED <<shelf, batches, disturbed>>,
           Alone(e) => ~Short(ks[Len(ks)]),
           \A f \in Paths : Alone(f) =>
                \A i \in 1..Len(masks[f]) : Spent(masks[f][i], ks)
    PROVE  FreshInv'
  <1> DEFINE m == Cut(ks[Len(ks)])
             n == Len(masks[e])
  <1>1. /\ keys' = [keys EXCEPT ![e] = Remaining(ks)]
        /\ masks' = [masks EXCEPT ![e] = Append(masks[e], m)]
        /\ pc'[e] \in {"take", "commit"}
        /\ \A f \in Paths : f # e => pc'[f] = pc[f]
    BY TakeEffect
  <1>2. Alone(e) => /\ m \in CutMask /\ m.batch <= batches
                    /\ Spent(m, Remaining(ks))
                    /\ \A o \in CutMask : Spent(o, ks) => o # m
    BY CutIsNew
  <1>3. m \in Mask /\ masks[e] \in Seq(Mask)
    BY PoolLast, CutType DEF TypeOK
  <1> HIDE DEF m
  <1>4. /\ Len(masks'[e]) = n + 1 /\ n \in Nat
        /\ \A i \in 1..n : masks'[e][i] = masks[e][i]
        /\ masks'[e][n + 1] = m
        /\ \A f \in Paths : f # e => masks'[f] = masks[f]
    <2>1. masks'[e] = Append(masks[e], m)
      BY <1>1 DEF TypeOK
    <2>2. /\ Len(Append(masks[e], m)) = n + 1
          /\ \A i \in 1..n : Append(masks[e], m)[i] = masks[e][i]
          /\ Append(masks[e], m)[n + 1] = m
      BY <1>3, AppendProperties
    <2>3. n \in Nat
      BY <1>3, LenProperties
    <2>4. \A f \in Paths : f # e => masks'[f] = masks[f]
      BY <1>1 DEF TypeOK
    <2> QED
      BY <2>1, <2>2, <2>3, <2>4
  <1>5. \A f \in Paths : /\ keys'[f] = IF f = e THEN Remaining(ks) ELSE keys[f]
                         /\ Alone(f)' <=> Alone(f)
                         /\ Works(f)' <=> Works(f)
    BY <1>1 DEF Alone, Works, TypeOK
  <1> HIDE DEF n
  \* A mask is an old one or the new one.
  <1>6. ASSUME NEW f \in Paths, NEW i \in 1..Len(masks'[f])
        PROVE  \/ i \in 1..Len(masks[f]) /\ masks'[f][i] = masks[f][i]
               \/ f = e /\ i = n + 1 /\ masks'[f][i] = m
    <2>1. CASE f # e
      BY <1>4, <1>6, <2>1
    <2>2. CASE f = e
      <3>1. i \in 1..(n + 1)
        BY <1>4, <1>6, <2>2
      <3>2. i \in 1..n \/ i = n + 1
        BY <1>4, <3>1
      <3> QED
        BY <1>4, <2>2, <3>2 DEF n
    <2> QED
      BY <2>1, <2>2
  <1>7. OwnInv'
    <2>1. \A f \in Paths : pc'[f] \in {"idle", "reread"} => f # e /\ pc'[f] = pc[f]
      BY <1>1
    <2> QED
      BY <1>4, <1>5, <2>1 DEF FreshInv, OwnInv
  <1>8. SpentInv'
    <2> SUFFICES ASSUME NEW f \in Paths, Alone(f), NEW i \in 1..Len(masks'[f])
                 PROVE  /\ masks'[f][i] \in CutMask
                        /\ masks'[f][i].batch <= batches
                        /\ \A g \in Paths :
                              Cutting(g)' => Spent(masks'[f][i], keys'[g])
                        /\ pc'[f] \in {"reread", "done"} =>
                              Spent(masks'[f][i], shelf)
      BY <1>5 DEF SpentInv, Spent
    <2>1. CASE i \in 1..Len(masks[f]) /\ masks'[f][i] = masks[f][i]
      <3> DEFINE o == masks[f][i]
      <3>1. /\ o \in CutMask /\ o.batch <= batches
            /\ \A g \in Paths : Cutting(g) => Spent(o, keys[g])
            /\ pc[f] \in {"reread", "done"} => Spent(o, shelf)
            /\ Spent(o, ks)
        BY <2>1 DEF FreshInv, SpentInv
      <3> HIDE DEF o
      <3>2. Spent(o, Remaining(ks))
        BY <3>1, RemainingPool
      <3>3. \A g \in Paths : g # e => (Cutting(g)' <=> Cutting(g))
        BY <1>1 DEF Cutting
      <3>4. \A g \in Paths : Cutting(g)' => Spent(o, keys'[g])
        BY <1>5, <3>1, <3>2, <3>3
      <3>5. pc'[f] \in {"reread", "done"} => Spent(o, shelf)
        BY <1>1, <3>1
      <3>6. masks'[f][i] = o
        BY <2>1 DEF o
      <3> QED
        BY <3>1, <3>4, <3>5, <3>6
    <2>2. CASE f = e /\ masks'[f][i] = m
      <3>1. \A g \in Paths : Cutting(g)' => g = e
        <4>1. \A g \in Paths : Cutting(g)' => Works(g)'
          BY DEF Cutting, Works
        <4> QED
          BY <1>5, <2>2, <4>1 DEF FreshInv, OwnInv
      <3>2. pc'[f] \notin {"reread", "done"}
        BY <1>1, <2>2
      <3> QED
        BY <1>2, <1>5, <2>2, <3>1, <3>2
    <2> QED
      BY <1>6, <2>1, <2>2
  <1>9. DifferInv'
    <2> SUFFICES ASSUME NEW f \in Paths, NEW g \in Paths, Alone(f), Alone(g),
                        NEW i \in 1..Len(masks'[f]), NEW j \in 1..Len(masks'[g]),
                        f # g \/ i # j
                 PROVE  masks'[f][i] # masks'[g][j]
      BY <1>5 DEF DifferInv
    <2>1. ASSUME NEW h \in Paths, Alone(h), NEW k \in 1..Len(masks[h]), Alone(e)
          PROVE  masks[h][k] # m
      <3>1. masks[h][k] \in CutMask /\ Spent(masks[h][k], ks)
        BY <2>1 DEF FreshInv, SpentInv
      <3> QED
        BY <1>2, <2>1, <3>1
    <2>2. \/ i \in 1..Len(masks[f]) /\ masks'[f][i] = masks[f][i]
          \/ f = e /\ i = n + 1 /\ masks'[f][i] = m
      BY <1>6
    <2>3. \/ j \in 1..Len(masks[g]) /\ masks'[g][j] = masks[g][j]
          \/ g = e /\ j = n + 1 /\ masks'[g][j] = m
      BY <1>6
    <2>4. CASE /\ i \in 1..Len(masks[f]) /\ masks'[f][i] = masks[f][i]
               /\ j \in 1..Len(masks[g]) /\ masks'[g][j] = masks[g][j]
      BY <2>4 DEF FreshInv, DifferInv
    <2> QED
      BY <2>1, <2>2, <2>3, <2>4
  <1> QED
    BY <1>7, <1>8, <1>9 DEF FreshInv

\* A new batch replaces the shelf, by the timer or by an extraction.
LEMMA GenerateFresh ==
    ASSUME TypeOK, PoolInv, FreshInv, Generate,
           UNCHANGED <<keys, masks, disturbed>>,
           \A f \in Paths : \/ pc'[f] = pc[f]
                            \/ pc[f] = "take" /\ pc'[f] = "reread"
    PROVE  FreshInv'
  <1>1. /\ batches' = batches + 1 /\ batches \in Int
        /\ ~Short(shelf'[Len(shelf')])
        /\ \A m \in CutMask : m.batch < batches + 1 => Spent(m, shelf')
    <2>1. batches + 1 \in 1..MaxBatch /\ shelf' = Batch(batches + 1)
      BY GenerateEffect
    <2>2. batches \in Int
      BY DEF TypeOK
    <2> QED
      BY <2>1, <2>2, BatchPool DEF Generate
  <1>2. \A f \in Paths : /\ Alone(f)' => Alone(f)
                         /\ Works(f)' <=> Works(f)
                         /\ Cutting(f)' => Cutting(f)
                         /\ pc'[f] = "idle" => pc[f] = "idle"
    BY DEF Alone, Works, Cutting
  <1>3. OwnInv'
    BY <1>1, <1>2 DEF FreshInv, OwnInv
  <1>4. SpentInv'
    <2> SUFFICES ASSUME NEW f \in Paths, Alone(f), NEW i \in 1..Len(masks[f])
                 PROVE  /\ masks[f][i] \in CutMask
                        /\ masks[f][i].batch <= batches + 1
                        /\ \A g \in Paths :
                              Cutting(g)' => Spent(masks[f][i], keys[g])
                        /\ Spent(masks[f][i], shelf')
      BY <1>1, <1>2 DEF SpentInv, Spent
    <2>1. /\ masks[f][i] \in CutMask /\ masks[f][i].batch <= batches
          /\ \A g \in Paths : Cutting(g) => Spent(masks[f][i], keys[g])
      BY DEF FreshInv, SpentInv
    <2>2. masks[f][i].batch \in Int
      BY <2>1 DEF CutMask
    <2>3. masks[f][i].batch < batches + 1 /\ masks[f][i].batch <= batches + 1
      BY <1>1, <2>1, <2>2
    <2> QED
      BY <1>1, <1>2, <2>1, <2>3
  <1>5. DifferInv'
    BY <1>2 DEF FreshInv, DifferInv
  <1> QED
    BY <1>3, <1>4, <1>5 DEF FreshInv

LEMMA UpdateFresh ==
    ASSUME TypeOK, FreshInv, NEW e \in Paths, UpdateMasks(e)
    PROVE  FreshInv'
  <1>1. /\ pc[e] = "commit" /\ UNCHANGED <<batches, keys, masks>>
        /\ \A f \in Paths : pc'[f] = IF f = e THEN "done" ELSE pc[f]
        /\ shelf' = IF fresh THEN keys[e] ELSE shelf
        /\ disturbed' = IF fresh THEN disturbed ELSE disturbed \cup {e}
    BY DEF UpdateMasks, TypeOK
  <1>2. \A f \in Paths : /\ Alone(f)' => Alone(f) /\ (f = e => fresh)
                         /\ Works(f)' => Works(f)
                         /\ Cutting(f)' => Cutting(f)
    BY <1>1 DEF Alone, Works, Cutting
  <1>3. ASSUME NEW f \in Paths, Alone(f)
        PROVE  pc'[f] # "reread"
    <2>1. Works(e) /\ (pc[f] = "reread" => Works(f))
      BY <1>1 DEF Works
    <2> QED
      BY <1>1, <1>3, <2>1 DEF FreshInv, OwnInv
  <1>4. OwnInv'
    BY <1>1, <1>2, <1>3 DEF FreshInv, OwnInv
  <1>5. SpentInv'
    <2>0. UNCHANGED <<batches, keys, masks>>
      BY <1>1
    <2> SUFFICES ASSUME NEW f \in Paths, Alone(f)', NEW i \in 1..Len(masks[f])
                 PROVE  /\ masks[f][i] \in CutMask /\ masks[f][i].batch <= batches
                        /\ \A g \in Paths :
                              Cutting(g)' => Spent(masks[f][i], keys[g])
                        /\ pc'[f] \in {"reread", "done"} =>
                              Spent(masks[f][i], shelf')
      BY <2>0 DEF SpentInv, Spent
    <2>1. /\ masks[f][i] \in CutMask /\ masks[f][i].batch <= batches
          /\ \A g \in Paths : Cutting(g) => Spent(masks[f][i], keys[g])
          /\ pc[f] = "done" => Spent(masks[f][i], shelf)
      BY <1>2 DEF FreshInv, SpentInv
    <2>2. ASSUME pc'[f] \in {"reread", "done"}
          PROVE  Spent(masks[f][i], shelf')
      <3>1. CASE fresh
        BY <1>1, <2>1, <3>1 DEF Cutting
      <3>2. CASE ~fresh
        <4>1. f # e /\ pc[f] = "done"
          BY <1>1, <1>2, <1>3, <2>2, <3>2
        <4> QED
          BY <1>1, <2>1, <3>2, <4>1
      <3> QED
        BY <3>1, <3>2
    <2> QED
      BY <1>2, <2>1, <2>2
  <1>6. DifferInv'
    BY <1>1, <1>2 DEF FreshInv, DifferInv
  <1> QED
    BY <1>4, <1>5, <1>6 DEF FreshInv

LEMMA FreshStep ==
    ASSUME TypeOK, PoolInv, FreshInv, [Next]_vars
    PROVE  FreshInv'
  <1>1. ASSUME NEW e \in Paths, ReadKeys(e) PROVE FreshInv'
    BY <1>1, ReadFresh
  <1>2. ASSUME NEW e \in Paths, TakeMask(e) PROVE FreshInv'
    <2> DEFINE ks == Trimmed(keys[e])
    <2>1. /\ Pool(ks, batches) /\ ~Short(ks[Len(ks)])
          /\ \A m \in CutMask : Spent(m, keys[e]) => Spent(m, ks)
      BY <1>2, TrimmedPool DEF TakeMask, PoolInv, Cutting
    <2>2. \A f \in Paths : Alone(f) =>
             \A i \in 1..Len(masks[f]) : Spent(masks[f][i], ks)
      BY <1>2, <2>1 DEF TakeMask, Cutting, FreshInv, SpentInv
    <2>3. Works(e) /\ TakeFrom(e, ks) /\ UNCHANGED <<shelf, batches, disturbed>>
      BY <1>2 DEF TakeMask, Works
    <2> HIDE DEF ks
    <2> QED
      BY <2>1, <2>2, <2>3, TakeFresh
  <1>3. ASSUME NEW e \in Paths, RereadKeys(e) PROVE FreshInv'
    <2>1. /\ pc[e] = "reread" /\ Works(e) /\ TakeFrom(e, shelf)
          /\ UNCHANGED <<shelf, batches, disturbed>>
      BY <1>3 DEF RereadKeys, Works
    <2>2. Pool(shelf, batches)
      BY DEF PoolInv
    <2>3. Alone(e) => ~Short(shelf[Len(shelf)])
      BY <2>1 DEF FreshInv, OwnInv
    <2>4. ASSUME NEW f \in Paths, Alone(f), NEW i \in 1..Len(masks[f])
          PROVE  Spent(masks[f][i], shelf)
      <3>1. pc[f] # "idle"
        BY <2>4 DEF FreshInv, OwnInv
      <3>2. Works(f) => f = e
        BY <2>1, <2>4 DEF FreshInv, OwnInv
      <3>3. pc[f] \in {"reread", "done"}
        BY <2>1, <2>4, <3>1, <3>2 DEF Works, Alone, TypeOK
      <3> QED
        BY <2>4, <3>3 DEF FreshInv, SpentInv
    <2> QED
      BY <2>1, <2>2, <2>3, <2>4, TakeFresh
  <1>4. ASSUME NEW e \in Paths, GenerateInline(e) PROVE FreshInv'
    BY <1>4, GenerateFresh DEF GenerateInline, TypeOK
  <1>5. CASE TimerGenerates
    BY <1>5, GenerateFresh DEF TimerGenerates
  <1>6. ASSUME NEW e \in Paths, GenerateFails(e) \/ ExtractFails(e)
        PROVE  FreshInv'
    <2>1. /\ UNCHANGED <<shelf, batches, keys, masks>>
          /\ \A f \in Paths : /\ Alone(f)' => Alone(f)
                              /\ Works(f)' => Works(f)
                              /\ Cutting(f)' => Cutting(f)
                              /\ pc'[f] # "failed" => pc'[f] = pc[f]
      BY <1>6 DEF GenerateFails, ExtractFails, WriteFails, Alone, Works,
                  Cutting, TypeOK
    <2>2. \A f \in Paths : Alone(f)' => pc'[f] = pc[f]
      BY <2>1 DEF Alone
    <2>3. OwnInv'
      BY <2>1, <2>2 DEF FreshInv, OwnInv
    <2>4. SpentInv'
      BY <2>1, <2>2 DEF FreshInv, SpentInv, Spent
    <2>5. DifferInv'
      BY <2>1 DEF FreshInv, DifferInv
    <2> QED
      BY <2>3, <2>4, <2>5 DEF FreshInv
  <1>7. ASSUME NEW e \in Paths, UpdateMasks(e) PROVE FreshInv'
    BY <1>7, UpdateFresh
  <1>8. CASE \/ TimerFault \/ TimerStamps \/ TimePasses
             \/ UNCHANGED vars
    <2>1. UNCHANGED <<shelf, batches, pc, keys, masks, disturbed>>
      BY <1>8 DEF TimerFault, TimerFails, TimerHangs, TimerWriteFails, WriteFails,
                  TimerStamps, TimePasses, vars
    <2> QED
      BY <2>1 DEF FreshInv, OwnInv, SpentInv, DifferInv, Alone, Works,
                  Cutting, Spent
  <1> QED
    BY <1>1, <1>2, <1>3, <1>4, <1>5, <1>6, <1>7, <1>8 DEF Next, Extract, Timer

LEMMA InitFresh == Init => FreshInv
  <1> SUFFICES ASSUME Init PROVE FreshInv
    OBVIOUS
  <1>1. \A e \in Paths : pc[e] = "idle" /\ Len(masks[e]) = 0
    BY EmptySeq DEF Init
  <1>2. OwnInv
    BY <1>1 DEF OwnInv, Works
  <1>3. SpentInv /\ DifferInv
    BY <1>1 DEF SpentInv, DifferInv
  <1> QED
    BY <1>2, <1>3 DEF FreshInv

LEMMA FreshInvariant == Spec => []FreshInv
  <1>1. TypeOK /\ PoolInv /\ FreshInv /\ [Next]_vars => FreshInv'
    BY FreshStep
  <1> QED
    BY <1>1, InitFresh, PoolsAreWhole, PTL DEF Spec

\* A list of different elements has as many as it is long.
LEMMA DifferentElements ==
    ASSUME NEW S, NEW s \in Seq(S),
           \A i, j \in 1..Len(s) : i # j => s[i] # s[j]
    PROVE  Cardinality({s[i] : i \in 1..Len(s)}) = Len(s)
  <1> DEFINE n == Len(s)
             T == {s[i] : i \in 1..n}
             f == [i \in 1..n |-> s[i]]
  <1>1. n \in Nat
    BY LenProperties
  <1>2. f \in Bijection(1..n, T)
    BY DEF Bijection, Injection, Surjection, IsInjective
  <1>3. IsFiniteSet(1..n) /\ Cardinality(1..n) = n
    <2>1. /\ IsFiniteSet(1..n)
          /\ Cardinality(1..n) = IF 1 > n THEN 0 ELSE n - 1 + 1
      BY <1>1, FS_Interval
    <2> QED
      BY <1>1, <2>1
  <1>4. ExistsBijection(1..n, T)
    BY <1>2 DEF ExistsBijection
  <1> HIDE DEF T, n
  <1>5. Cardinality(T) = n
    BY <1>3, <1>4, FS_Bijection
  <1> QED
    BY <1>5 DEF T, n

(***************************************************************************)
(* An extraction that ran alone and whose keys were stored never gets a    *)
(* mask twice, nor one another such extraction has, nor one without bytes: *)
(* for any number of paths, any size of the keys, and whatever the timer   *)
(* and the overlapping extractions do in between.                          *)
(***************************************************************************)
THEOREM MasksAreOneTime == Spec => []UndisturbedMasksAreFresh
  <1>1. TypeOK /\ FreshInv => UndisturbedMasksAreFresh
    <2> SUFFICES ASSUME TypeOK, FreshInv, NEW e \in Paths, Alone(e)
                 PROVE  /\ Zero \notin MasksOf(e)
                        /\ Cardinality(MasksOf(e)) = Len(masks[e])
                        /\ \A f \in Paths : Alone(f) /\ f # e =>
                              MasksOf(e) \cap MasksOf(f) = {}
      BY DEF UndisturbedMasksAreFresh, Alone
    <2>1. Zero \notin CutMask
      BY DEF Zero, CutMask
    <2>2. Zero \notin MasksOf(e)
      BY <2>1 DEF FreshInv, SpentInv, MasksOf
    <2>3. Cardinality(MasksOf(e)) = Len(masks[e])
      <3>1. masks[e] \in Seq(Mask)
        BY DEF TypeOK
      <3>2. \A i, j \in 1..Len(masks[e]) : i # j => masks[e][i] # masks[e][j]
        BY DEF FreshInv, DifferInv
      <3> QED
        BY <3>1, <3>2, DifferentElements DEF MasksOf
    <2>4. \A f \in Paths : Alone(f) /\ f # e => MasksOf(e) \cap MasksOf(f) = {}
      BY DEF FreshInv, DifferInv, MasksOf
    <2> QED
      BY <2>2, <2>3, <2>4
  <1> QED
    BY <1>1, FreshInvariant, PoolsAreWhole, PTL
============================================================================
