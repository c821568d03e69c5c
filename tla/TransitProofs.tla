--------------------------- MODULE TransitProofs ---------------------------
(***************************************************************************)
(* Proofs about Transit, for paths of any length, any primes and points.   *)
(*                                                                         *)
(* The coefficients lpc are the Lagrange basis polynomials at zero; that   *)
(* they add up to 1 modulo the prime is shown for every set of positions   *)
(* by Neville's recursion, which takes the basis of a set from those of    *)
(* the sets without one and without another of its positions.  What a      *)
(* packet carries is then s times that sum, and the errors on its way.     *)
(***************************************************************************)
EXTENDS Transit, TLAPS, WellFoundedInduction, FiniteSetTheorems

-----------------------------------------------------------------------------
(* Induction.  The library states its principles for operators; these are  *)
(* for sets, which the provers can instantiate.                            *)

LEMMA NatOrder ==
    \E R : IsWellFoundedOn(R, Nat) /\ \A x, y \in Nat : x < y => <<x, y>> \in R
<1>1. \A x, y \in Nat : x < y => <<x, y>> \in OpToRel(<, Nat)
  BY DEF OpToRel
<1> QED BY <1>1, NatLessThanWellFounded

LEMMA LeastNumber ==
    ASSUME NEW T, T \subseteq Nat, T # {}
    PROVE  \E n \in T : \A m \in T : n <= m
<1>1. PICK R : IsWellFoundedOn(R, Nat) /\ \A x, y \in Nat : x < y => <<x, y>> \in R
  BY NatOrder
<1>2. IsWellFoundedOn(R, Nat)
  BY <1>1
<1>3. \E n \in T : \A m \in T : ~ (<<m, n>> \in R)
  BY <1>2, WFMin
<1>4. PICK n \in T : \A m \in T : ~ (<<m, n>> \in R)
  BY <1>3
<1>5. ASSUME NEW m \in T PROVE n <= m
  <2>1. n \in Nat /\ m \in Nat
    OBVIOUS
  <2>2. ~(m < n)
    BY <2>1, <1>1, <1>4
  <2> QED BY <2>1, <2>2
<1> QED BY <1>5

\* A set that holds zero, and every position with the one before, holds all.
LEMMA Upwards ==
    ASSUME NEW W, 0 \in W, \A i \in Nodes : i - 1 \in W => i \in W
    PROVE  0..N \subseteq W
<1> DEFINE T == (0..N) \ W
<1>1. SUFFICES ASSUME T # {} PROVE FALSE
  OBVIOUS
<1>0. T \subseteq Nat
  BY NodesAssumption
<1>2. PICK n \in T : \A m \in T : n <= m
  <2> HIDE DEF T
  <2> QED BY <1>0, <1>1, LeastNumber
<1>3. n \in Nodes /\ n - 1 \in 0..N /\ n - 1 \notin T
  BY <1>2, NodesAssumption DEF Nodes
<1> QED BY <1>2, <1>3

\* So does a family of sets of positions: it holds a set if it holds all that
\* have one position less.
LEMMA SmallerFirst ==
    ASSUME NEW W,
           \A s \in SUBSET Nodes : (\A a \in s : s \ {a} \in W) => s \in W
    PROVE  SUBSET Nodes \subseteq W
<1> DEFINE T == {Cardinality(s) : s \in (SUBSET Nodes) \ W}
<1>1. SUFFICES ASSUME T # {} PROVE FALSE
  OBVIOUS
<1>2. ASSUME NEW s \in SUBSET Nodes
      PROVE  /\ IsFiniteSet(s) /\ Cardinality(s) \in Nat
             /\ \A a \in s : Cardinality(s \ {a}) = Cardinality(s) - 1
  <2>1. IsFiniteSet(s)
    <3>1. IsFiniteSet(Nodes)
      BY FS_Interval, NodesAssumption DEF Nodes
    <3> QED BY <3>1, FS_Subset
  <2> QED BY <2>1, FS_CardinalityType, FS_RemoveElement
<1>3. T \subseteq Nat
  BY <1>2
<1>4. PICK n \in T : \A m \in T : n <= m
  <2> HIDE DEF T
  <2> QED BY <1>1, <1>3, LeastNumber
<1>5. PICK s \in (SUBSET Nodes) \ W : n = Cardinality(s)
  BY <1>4
<1>6. ASSUME NEW a \in s PROVE s \ {a} \in W
  <2>1. s \ {a} \in SUBSET Nodes /\ Cardinality(s \ {a}) < n
    BY <1>2, <1>5
  <2>2. ASSUME Cardinality(s \ {a}) \in T PROVE FALSE
    <3>1. n <= Cardinality(s \ {a}) /\ n \in Nat /\ Cardinality(s \ {a}) \in Nat
      BY <1>3, <1>4, <2>2
    <3> QED BY <3>1, <2>1
  <2>3. s \ {a} \notin W => Cardinality(s \ {a}) \in T
    BY <2>1
  <2> QED BY <2>2, <2>3
<1> QED BY <1>5, <1>6

\* A function that is defined from position to position exists.
LEMMA Recursion ==
    ASSUME NEW e \in Int, NEW op \in [Nodes -> [Int -> Int]]
    PROVE  \E h \in [0..N -> Int] : /\ h[0] = e
                                    /\ \A i \in Nodes : h[i] = op[i][h[i - 1]]
<1> DEFINE W == {n \in 0..N : \E h \in [0..n -> Int] :
                    h[0] = e /\ \A i \in 1..n : h[i] = op[i][h[i - 1]]}
<1>1. 0 \in W
  <2> DEFINE h == [i \in 0..0 |-> e]
  <2>1. h \in [0..0 -> Int] /\ h[0] = e
    OBVIOUS
  <2>2. 1..0 = {} /\ 0 \in 0..N
    BY NodesAssumption
  <2> HIDE DEF h
  <2> QED BY <2>1, <2>2
<1>2. ASSUME NEW n \in Nodes, n - 1 \in W PROVE n \in W
  <2>1. PICK g \in [0..(n - 1) -> Int] :
            g[0] = e /\ \A i \in 1..(n - 1) : g[i] = op[i][g[i - 1]]
    BY <1>2
  <2>2. n \in Nat /\ n >= 1 /\ n - 1 \in 0..(n - 1) /\ n \in 0..N
    BY NodesAssumption DEF Nodes
  <2>3. op[n][g[n - 1]] \in Int
    BY <2>2
  <2> DEFINE h == [i \in 0..n |-> IF i = n THEN op[n][g[n - 1]] ELSE g[i]]
  <2>4. \A i \in 0..n : i # n => i \in 0..(n - 1)
    BY <2>2
  <2>5. h \in [0..n -> Int]
    BY <2>3, <2>4
  <2>6. \A i \in 0..(n - 1) : i \in 0..n /\ i # n
    BY <2>2
  <2>7. \A i \in 0..(n - 1) : h[i] = g[i]
    BY <2>6
  <2>8. n \in 0..n /\ 0 \in 0..(n - 1)
    BY <2>2
  <2>9. h[n] = op[n][g[n - 1]]
    BY <2>8
  <2> HIDE DEF h
  <2>10. ASSUME NEW i \in 1..n PROVE h[i] = op[i][h[i - 1]]
    <3>1. i - 1 \in 0..(n - 1) /\ (i # n => i \in 1..(n - 1) /\ i \in 0..(n - 1))
      BY <2>2
    <3>2. h[i - 1] = g[i - 1]
      BY <3>1, <2>7
    <3> QED BY <3>1, <3>2, <2>1, <2>7, <2>9
  <2>11. h[0] = e
    BY <2>1, <2>7, <2>8
  <2> QED BY <2>2, <2>5, <2>10, <2>11
<1>3. N \in W
  <2> HIDE DEF W
  <2> QED BY <1>1, <1>2, Upwards, NodesAssumption
<1> QED BY <1>3 DEF Nodes

-----------------------------------------------------------------------------
(* Sums and products over the positions *)

IsSum(h, f) == /\ h \in [0..N -> Int]
               /\ h[0] = 0
               /\ \A i \in Nodes : h[i] = h[i - 1] + f[i]
SumTo(f) == CHOOSE h : IsSum(h, f)

IsProduct(h, f) == /\ h \in [0..N -> Int]
                   /\ h[0] = 1
                   /\ \A i \in Nodes : h[i] = h[i - 1] * f[i]
ProductTo(f) == CHOOSE h : IsProduct(h, f)

Sum(f) == SumTo(f)[N]
Prod(f) == ProductTo(f)[N]

LEMMA SumExists == ASSUME NEW f \in [Nodes -> Int] PROVE IsSum(SumTo(f), f)
<1> DEFINE op == [i \in Nodes |-> [x \in Int |-> x + f[i]]]
<1>0. 0 \in Int
  OBVIOUS
<1>1. op \in [Nodes -> [Int -> Int]]
  OBVIOUS
<1>2. \A i \in Nodes, x \in Int : op[i][x] = x + f[i]
  OBVIOUS
<1> HIDE DEF op
<1>3. PICK h \in [0..N -> Int] : h[0] = 0 /\ \A i \in Nodes : h[i] = op[i][h[i - 1]]
  BY <1>0, <1>1, Recursion, Zenon
<1>4. \A i \in Nodes : i - 1 \in 0..N
  BY NodesAssumption DEF Nodes
<1>5. IsSum(h, f)
  BY <1>2, <1>3, <1>4 DEF IsSum
<1> QED BY <1>5 DEF SumTo

LEMMA ProductExists == ASSUME NEW f \in [Nodes -> Int] PROVE IsProduct(ProductTo(f), f)
<1> DEFINE op == [i \in Nodes |-> [x \in Int |-> x * f[i]]]
<1>0. 1 \in Int
  OBVIOUS
<1>1. op \in [Nodes -> [Int -> Int]]
  OBVIOUS
<1>2. \A i \in Nodes, x \in Int : op[i][x] = x * f[i]
  OBVIOUS
<1> HIDE DEF op
<1>3. PICK h \in [0..N -> Int] : h[0] = 1 /\ \A i \in Nodes : h[i] = op[i][h[i - 1]]
  BY <1>0, <1>1, Recursion, Zenon
<1>4. \A i \in Nodes : i - 1 \in 0..N
  BY NodesAssumption DEF Nodes
<1>5. IsProduct(h, f)
  BY <1>2, <1>3, <1>4 DEF IsProduct
<1> QED BY <1>5 DEF ProductTo

LEMMA Before == \A i \in Nodes : i - 1 \in 0..N /\ i \in 0..N
  BY NodesAssumption DEF Nodes

LEMMA Assoc ==
    \A x, y, z \in Int : x * y * z = x * (y * z) /\ x * y = y * x /\ x * y \in Int
  OBVIOUS

\* Two products that differ in one factor.
LEMMA OneFactor ==
    ASSUME NEW f \in [Nodes -> Int], NEW g \in [Nodes -> Int], NEW a \in Nodes,
           g[a] = 1, \A j \in Nodes \ {a} : f[j] = g[j]
    PROVE  Prod(f) = f[a] * Prod(g)
<1> DEFINE F == ProductTo(f)
           G == ProductTo(g)
           W == {n \in 0..N : F[n] = IF n < a THEN G[n] ELSE f[a] * G[n]}
<1>1. IsProduct(F, f) /\ IsProduct(G, g)
  BY ProductExists
<1> HIDE DEF F, G
<1>2. 0 \in W
  <2>1. 0 \in 0..N /\ F[0] = 1 /\ G[0] = 1 /\ 0 < a
    BY <1>1, NodesAssumption DEF IsProduct, Nodes
  <2> QED BY <2>1
<1>3. ASSUME NEW i \in Nodes, i - 1 \in W PROVE i \in W
  <2>1. /\ F[i] = F[i - 1] * f[i] /\ G[i] = G[i - 1] * g[i]
        /\ i - 1 \in 0..N /\ i \in 0..N
        /\ G[i - 1] \in Int /\ F[i - 1] \in Int /\ f[i] \in Int /\ f[a] \in Int
    BY <1>1, Before DEF IsProduct
  <2>2. CASE i < a
    BY <2>1, <2>2, <1>3 DEF Nodes
  <2>3. CASE i = a
    <3>1. F[i - 1] = G[i - 1] /\ G[i] = G[i - 1]
      BY <2>1, <2>3, <1>3 DEF Nodes
    <3>2. F[i] = f[a] * G[i]
      BY <3>1, <2>1, <2>3, Assoc
    <3> QED BY <3>2, <2>1, <2>3 DEF Nodes
  <2>4. CASE i > a
    <3>1. F[i - 1] = f[a] * G[i - 1] /\ g[i] = f[i]
      BY <2>1, <2>4, <1>3 DEF Nodes
    <3>2. F[i] = f[a] * G[i]
      BY <3>1, <2>1, Assoc
    <3> QED BY <3>2, <2>1, <2>4 DEF Nodes
  <2> QED BY <2>2, <2>3, <2>4 DEF Nodes
<1>4. N \in W
  <2> HIDE DEF W
  <2> QED BY <1>2, <1>3, Upwards, NodesAssumption
<1> QED BY <1>4, NodesAssumption DEF Nodes, Prod, F, G

\* The product of the factors at the positions of s.
Over(s, f) == [j \in Nodes |-> IF j \in s THEN f[j] ELSE 1]

LEMMA NoFactor == ASSUME NEW f \in [Nodes -> Int] PROVE Prod(Over({}, f)) = 1
<1> DEFINE F == ProductTo(Over({}, f))
           W == {n \in 0..N : F[n] = 1}
<1>1. Over({}, f) \in [Nodes -> Int] /\ \A i \in Nodes : Over({}, f)[i] = 1
  BY DEF Over
<1>2. IsProduct(F, Over({}, f))
  BY <1>1, ProductExists
<1> HIDE DEF F
<1>3. 0 \in W
  BY <1>2, NodesAssumption DEF IsProduct
<1>4. ASSUME NEW i \in Nodes, i - 1 \in W PROVE i \in W
  BY <1>1, <1>2, <1>4, Before DEF IsProduct
<1>5. N \in W
  <2> HIDE DEF W
  <2> QED BY <1>3, <1>4, Upwards, NodesAssumption
<1> QED BY <1>5 DEF Prod, F

LEMMA TakeFactor ==
    ASSUME NEW f \in [Nodes -> Int], NEW s \in SUBSET Nodes, NEW a \in s
    PROVE  Prod(Over(s, f)) = f[a] * Prod(Over(s \ {a}, f))
<1> DEFINE F == Over(s, f)
           G == Over(s \ {a}, f)
<1>1. /\ F \in [Nodes -> Int] /\ G \in [Nodes -> Int] /\ a \in Nodes
      /\ F[a] = f[a] /\ G[a] = 1
      /\ \A j \in Nodes \ {a} : F[j] = G[j]
  BY DEF Over
<1> HIDE DEF F, G
<1>2. Prod(F) = F[a] * Prod(G)
  BY <1>1, OneFactor
<1> QED BY <1>1, <1>2 DEF F, G

LEMMA ProdType ==
    ASSUME NEW f \in [Nodes -> Int], NEW s
    PROVE  Prod(Over(s, f)) \in Int
<1>1. Over(s, f) \in [Nodes -> Int]
  BY DEF Over
<1> QED BY <1>1, ProductExists, NodesAssumption DEF Prod, IsProduct

\* The order in which the fold takes its factors does not matter.
LEMMA FoldIsProduct ==
    ASSUME NEW f \in [Nodes -> Int], NEW i \in Nodes
    PROVE  Product(f, i) = Prod(Over(Nodes \ {i}, f))
<1> DEFINE S == Nodes \ {i}
           first(s) == CHOOSE x \in s : TRUE
           fold(h) == [s \in SUBSET S |->
                          IF s = {} THEN 1 ELSE f[first(s)] * h[s \ {first(s)}]]
           iter == CHOOSE h : h = fold(h)
           g == [s \in SUBSET S |-> Prod(Over(s, f))]
<1>1. Product(f, i) = iter[S]
  BY DEF Product, FoldFunctionOnSet, MapThenFoldSet
<1>2. \A s \in SUBSET S : /\ s \in SUBSET Nodes
                           /\ s # {} => first(s) \in s
  OBVIOUS
<1> HIDE DEF first
<1>3. ASSUME NEW s \in SUBSET S
      PROVE  g[s] = IF s = {} THEN 1 ELSE f[first(s)] * g[s \ {first(s)}]
  <2>1. CASE s = {}
    BY <2>1, NoFactor
  <2>2. CASE s # {}
    <3>1. s \ {first(s)} \in SUBSET S
      OBVIOUS
    <3>2. Prod(Over(s, f)) = f[first(s)] * Prod(Over(s \ {first(s)}, f))
      BY <1>2, <2>2, TakeFactor
    <3> QED BY <2>2, <3>1, <3>2
  <2> QED BY <2>1, <2>2
<1>4. g = fold(g)
  BY <1>3
<1>5. iter = fold(iter)
  BY <1>4
<1> HIDE DEF g, iter
<1> DEFINE W == {s \in SUBSET Nodes : s \subseteq S => iter[s] = g[s]}
<1>6. ASSUME NEW s \in SUBSET Nodes, \A a \in s : s \ {a} \in W
      PROVE  s \in W
  <2> SUFFICES ASSUME s \subseteq S PROVE iter[s] = g[s]
    OBVIOUS
  <2>1. iter[s] = IF s = {} THEN 1 ELSE f[first(s)] * iter[s \ {first(s)}]
    BY <1>5
  <2>2. s # {} => iter[s \ {first(s)}] = g[s \ {first(s)}]
    BY <1>2, <1>6
  <2> QED BY <2>1, <2>2, <1>3
<1>7. SUBSET Nodes \subseteq W
  <2> HIDE DEF W
  <2> QED BY <1>6, SmallerFirst
<1>8. iter[S] = g[S]
  BY <1>7
<1> QED BY <1>1, <1>8 DEF g

-----------------------------------------------------------------------------
(* Congruence modulo a prime *)

Cong(a, b, p) == \E k \in Int : a - b = k * p

Prime(p) == p \in Nat /\ p >= 2 /\ \A d \in 2..(p - 1) : p % d # 0

LEMMA Distribute ==
    \A x, y, z \in Int : /\ (x + y) * z = x * z + y * z
                         /\ (x - y) * z = x * z - y * z
                         /\ z * (x + y) = z * x + z * y
                         /\ z * (x - y) = z * x - z * y
                         /\ (-x) * z = -(x * z)
  OBVIOUS

LEMMA Multiple ==
    ASSUME NEW p, NEW a, NEW b, NEW k \in Int, a - b = k * p
    PROVE  Cong(a, b, p)
  BY Zenon DEF Cong

LEMMA CongRefl ==
    ASSUME NEW p \in Int, NEW a \in Int PROVE Cong(a, a, p)
<1>1. a - a = 0 * p
  OBVIOUS
<1> QED BY <1>1 DEF Cong

LEMMA CongSym ==
    ASSUME NEW p \in Int, NEW a \in Int, NEW b \in Int, Cong(a, b, p)
    PROVE  Cong(b, a, p)
<1>1. PICK k \in Int : a - b = k * p
  BY DEF Cong
<1>2. b - a = (-k) * p
  BY <1>1, Distribute
<1> QED BY <1>2 DEF Cong

LEMMA CongAdd ==
    ASSUME NEW p \in Int, NEW a \in Int, NEW b \in Int, NEW c \in Int, NEW d \in Int,
           Cong(a, b, p), Cong(c, d, p)
    PROVE  Cong(a + c, b + d, p) /\ Cong(a - c, b - d, p)
<1>1. PICK k \in Int : a - b = k * p
  BY DEF Cong
<1>2. PICK l \in Int : c - d = l * p
  BY DEF Cong
<1>3. (a + c) - (b + d) = (k + l) * p /\ (a - c) - (b - d) = (k - l) * p
  BY <1>1, <1>2, Distribute
<1>4. k + l \in Int /\ k - l \in Int
  OBVIOUS
<1> QED BY <1>3, <1>4, Multiple, Zenon

LEMMA CongTrans ==
    ASSUME NEW p \in Int, NEW a \in Int, NEW b \in Int, NEW c \in Int,
           Cong(a, b, p), Cong(b, c, p)
    PROVE  Cong(a, c, p)
<1>1. PICK k \in Int : a - b = k * p
  BY DEF Cong
<1>2. PICK l \in Int : b - c = l * p
  BY DEF Cong
<1>3. a - c = (k + l) * p /\ k + l \in Int
  BY <1>1, <1>2, Distribute
<1> QED BY <1>3, Multiple, Zenon

LEMMA CongTimes ==
    ASSUME NEW p \in Int, NEW a \in Int, NEW b \in Int, NEW c \in Int, Cong(a, b, p)
    PROVE  Cong(a * c, b * c, p) /\ Cong(c * a, c * b, p)
<1>1. PICK k \in Int : a - b = k * p
  BY DEF Cong
<1>2. a * c - b * c = (a - b) * c
  BY Distribute
<1>3. (k * p) * c = (k * c) * p
  BY Assoc
<1>4. a * c - b * c = (k * c) * p /\ k * c \in Int
  BY <1>1, <1>2, <1>3
<1>5. c * a = a * c /\ c * b = b * c
  BY Assoc
<1> QED BY <1>4, <1>5 DEF Cong

LEMMA CongProduct ==
    ASSUME NEW p \in Int, NEW a \in Int, NEW b \in Int, NEW c \in Int, NEW d \in Int,
           Cong(a, b, p), Cong(c, d, p)
    PROVE  Cong(a * c, b * d, p)
<1>1. Cong(a * c, b * c, p) /\ Cong(b * c, b * d, p)
  BY CongTimes
<1>2. a * c \in Int /\ b * c \in Int /\ b * d \in Int
  OBVIOUS
<1> QED BY <1>1, <1>2, CongTrans

LEMMA CongMod ==
    ASSUME NEW p \in Nat \ {0}, NEW a \in Int
    PROVE  Cong(a % p, a, p) /\ a % p \in 0..(p - 1)
<1>1. a = p * (a \div p) + (a % p) /\ a \div p \in Int /\ a % p \in 0..(p - 1)
  OBVIOUS
<1>2. (a % p) - a = (-(a \div p)) * p
  BY <1>1, Assoc, Distribute
<1>3. -(a \div p) \in Int
  BY <1>1
<1> QED BY <1>1, <1>2, <1>3 DEF Cong

LEMMA CongUnique ==
    ASSUME NEW p \in Nat \ {0}, NEW a \in 0..(p - 1), NEW b \in 0..(p - 1), Cong(a, b, p)
    PROVE  a = b
<1>1. PICK k \in Int : a - b = k * p
  BY DEF Cong
<1>2. ASSUME k >= 1 PROVE FALSE
  <2>1. k * p >= p
    BY <1>2
  <2> QED BY <1>1, <2>1
<1>3. ASSUME k <= -1 PROVE FALSE
  <2>1. k * p <= -p
    BY <1>3
  <2> QED BY <1>1, <2>1
<1>4. k = 0
  BY <1>2, <1>3
<1> QED BY <1>1, <1>4

LEMMA CongMods ==
    ASSUME NEW p \in Nat \ {0}, NEW a \in Int, NEW b \in Int
    PROVE  Cong(a, b, p) <=> a % p = b % p
<1>1. /\ a % p \in 0..(p - 1) /\ b % p \in 0..(p - 1)
      /\ Cong(a % p, a, p) /\ Cong(b % p, b, p)
  BY CongMod
<1>2. a % p \in Int /\ b % p \in Int /\ p \in Int
  BY <1>1
<1>3. Cong(a, a % p, p) /\ Cong(b, b % p, p)
  BY <1>1, <1>2, CongSym
<1>4. ASSUME Cong(a, b, p) PROVE a % p = b % p
  <2>1. Cong(a % p, b, p)
    BY <1>1, <1>2, <1>4, CongTrans
  <2>2. Cong(a % p, b % p, p)
    BY <2>1, <1>2, <1>3, CongTrans
  <2> QED BY <2>2, <1>1, CongUnique
<1>5. ASSUME a % p = b % p PROVE Cong(a, b, p)
  BY <1>1, <1>2, <1>3, <1>5, CongTrans
<1> QED BY <1>4, <1>5

\* What is not a multiple of a prime has an inverse: the least positive
\* combination of both divides both.
LEMMA InverseExists ==
    ASSUME NEW p, Prime(p), NEW a \in Int, a % p # 0
    PROVE  \E w \in 1..(p - 1) : (a * w) % p = 1
<1> DEFINE T == {d \in Nat : d > 0 /\ \E x, y \in Int : d = a * x + p * y}
<1>0. p \in Nat /\ p >= 2 /\ p > 0 /\ p \in Int /\ p \in Nat \ {0} /\ 0 \in Int /\ 1 \in Int
  BY DEF Prime
<1>1. p \in T
  <2>1. p = a * 0 + p * 1
    BY <1>0
  <2>2. \E u, v \in Int : p = a * u + p * v
    BY <2>1, <1>0, Zenon
  <2> QED BY <2>2, <1>0
<1>2. T \subseteq Nat
  OBVIOUS
<1>3. PICK d \in T : \A m \in T : d <= m
  <2> HIDE DEF T
  <2> QED BY <1>1, <1>2, LeastNumber
<1>4. PICK x \in Int, y \in Int : d = a * x + p * y
  OBVIOUS
<1>5. d \in Nat /\ d > 0 /\ d <= p
  BY <1>1, <1>3
<1>6. ASSUME NEW z \in Int, NEW u \in Int, NEW v \in Int, z = a * u + p * v
      PROVE  z % d = 0
  <2> DEFINE q == z \div d
  <2>1. z = d * q + (z % d) /\ q \in Int /\ z % d \in 0..(d - 1)
    BY <1>5
  <2> HIDE DEF q
  <2>2. d * q = a * (x * q) + p * (y * q)
    <3>1. d * q = (a * x) * q + (p * y) * q
      BY <1>0, <1>4, <2>1, Assoc, Distribute
    <3>2. (a * x) * q = a * (x * q) /\ (p * y) * q = p * (y * q)
      BY <1>0, <2>1, Assoc
    <3> QED BY <3>1, <3>2
  <2>3. z % d = a * (u - x * q) + p * (v - y * q)
    <3>1. x * q \in Int /\ y * q \in Int
      BY <2>1
    <3>2. /\ \A w \in Int : a * (u - w) = a * u - a * w
          /\ \A w \in Int : p * (v - w) = p * v - p * w
      BY <1>0, Distribute
    <3>3. a * u \in Int /\ p * v \in Int /\ a * (x * q) \in Int /\ p * (y * q) \in Int
      BY <3>1, <1>0, Assoc
    <3>4. z % d \in Int
      BY <2>1, <1>5
    <3> QED BY <2>1, <2>2, <1>6, <3>2, <3>3, <3>4
  <2>4. u - x * q \in Int /\ v - y * q \in Int
    BY <2>1
  <2>5. ASSUME z % d # 0 PROVE FALSE
    <3>1. z % d \in T
      BY <2>1, <2>3, <2>4, <2>5, <1>5
    <3> QED BY <3>1, <1>3, <2>1, <1>5
  <2> QED BY <2>5
<1>7. p % d = 0 /\ a % d = 0
  <2>1. p = a * 0 + p * 1 /\ a = a * 1 + p * 0
    BY <1>0
  <2>2. p % d = 0
    BY <2>1, <1>0, <1>6, Zenon
  <2>3. a % d = 0
    BY <2>1, <1>0, <1>6, Zenon
  <2> QED BY <2>2, <2>3
<1>8. d = 1
  <2>1. d # p
    BY <1>7
  <2>2. d \notin 2..(p - 1)
    BY <1>7 DEF Prime
  <2> QED BY <2>1, <2>2, <1>5, <1>0
<1>9. PICK r \in 0..(p - 1) : Cong(r, x, p)
  <2>1. x % p \in 0..(p - 1) /\ Cong(x % p, x, p)
    BY <1>0, CongMod
  <2> QED BY <2>1, Zenon
<1>10. r \in Int /\ a * r \in Int /\ a * x \in Int
  BY <1>0
<1>11. Cong(a * x, 1, p)
  <2>1. a * x - 1 = -(p * y)
    BY <1>4, <1>8, <1>0
  <2>2. -(p * y) = (-y) * p
    BY <1>0, Assoc, Distribute
  <2>3. -y \in Int
    OBVIOUS
  <2> QED BY <2>1, <2>2, <2>3, Multiple
<1>12. Cong(a * r, 1, p)
  <2>1. Cong(a * r, a * x, p)
    BY <1>0, <1>9, <1>10, CongTimes
  <2> QED BY <2>1, <1>0, <1>10, <1>11, CongTrans
<1>13. (a * r) % p = 1 % p
  BY <1>0, <1>10, <1>12, CongMods
<1>14. 1 % p = 1 /\ 0 % p = 0
  BY <1>0
<1>15. r # 0
  <2> SUFFICES ASSUME r = 0 PROVE FALSE
    OBVIOUS
  <2>1. a * r = 0
    OBVIOUS
  <2> QED BY <2>1, <1>13, <1>14
<1> QED BY <1>9, <1>13, <1>14, <1>15, <1>0

\* What a prime does not divide can be cancelled.
LEMMA Cancel ==
    ASSUME NEW p, Prime(p), NEW c \in Int, NEW y \in Int, c % p # 0, Cong(c * y, c, p)
    PROVE  Cong(y, 1, p)
<1>0. p \in Nat \ {0} /\ p \in Int /\ 1 % p = 1 /\ 1 \in Int
  BY DEF Prime
<1>1. PICK q \in 1..(p - 1) : (c * q) % p = 1
  BY InverseExists
<1>2. q \in Int /\ c * q \in Int /\ c * y \in Int /\ q * c \in Int
  BY <1>0
<1>3. Cong(q * c, 1, p)
  <2>1. Cong(c * q, 1, p)
    BY <1>0, <1>1, <1>2, CongMods
  <2> QED BY <2>1, <1>2, Assoc
<1>4. Cong((q * c) * y, q * c, p)
  <2>1. Cong(q * (c * y), q * c, p)
    BY <1>0, <1>2, CongTimes
  <2> QED BY <2>1, <1>2, Assoc
<1>5. Cong((q * c) * y, 1 * y, p)
  BY <1>0, <1>2, <1>3, CongTimes
<1>6. 1 * y = y /\ (q * c) * y \in Int
  BY <1>2
<1>7. Cong(y, (q * c) * y, p)
  BY <1>0, <1>5, <1>6, CongSym
<1>8. Cong(y, q * c, p)
  BY <1>0, <1>2, <1>4, <1>6, <1>7, CongTrans
<1> QED BY <1>0, <1>2, <1>3, <1>8, CongTrans

-----------------------------------------------------------------------------
(* Congruences between sums and between products *)

LEMMA SumSteps ==
    ASSUME NEW f \in [Nodes -> Int]
    PROVE  /\ SumTo(f)[0] = 0 /\ Sum(f) \in Int /\ Sum(f) = SumTo(f)[N]
           /\ \A i \in Nodes : /\ SumTo(f)[i] = SumTo(f)[i - 1] + f[i]
                               /\ SumTo(f)[i] \in Int /\ SumTo(f)[i - 1] \in Int
  BY SumExists, Before, NodesAssumption DEF IsSum, Sum

LEMMA OnlyTerm ==
    ASSUME NEW f \in [Nodes -> Int], NEW a \in Nodes, \A i \in Nodes \ {a} : f[i] = 0
    PROVE  Sum(f) = f[a]
<1> DEFINE F == SumTo(f)
           W == {n \in 0..N : F[n] = IF n < a THEN 0 ELSE f[a]}
<1>1. /\ F[0] = 0 /\ Sum(f) = F[N]
      /\ \A i \in Nodes : F[i] = F[i - 1] + f[i]
  BY SumSteps
<1> HIDE DEF F
<1>2. 0 \in W
  BY <1>1, NodesAssumption DEF Nodes
<1>3. ASSUME NEW i \in Nodes, i - 1 \in W PROVE i \in W
  <2>1. F[i] = F[i - 1] + f[i] /\ i \in 0..N /\ f[i] \in Int /\ f[a] \in Int
    BY <1>1, Before
  <2>2. F[i - 1] = IF i - 1 < a THEN 0 ELSE f[a]
    BY <1>3
  <2>3. i # a => f[i] = 0
    OBVIOUS
  <2> QED BY <2>1, <2>2, <2>3 DEF Nodes
<1>4. N \in W
  <2> HIDE DEF W
  <2> QED BY <1>2, <1>3, Upwards, NodesAssumption
<1> QED BY <1>1, <1>4, NodesAssumption DEF Nodes

\* A linear relation between the terms holds between the sums.
LEMMA LinearSums ==
    ASSUME NEW p \in Int, NEW u \in [Nodes -> Int], NEW v \in [Nodes -> Int],
           NEW w \in [Nodes -> Int], NEW c \in Int, NEW d \in Int, NEW e \in Int,
           \A i \in Nodes : Cong(c * u[i], d * w[i] - e * v[i], p)
    PROVE  Cong(c * Sum(u), d * Sum(w) - e * Sum(v), p)
<1> DEFINE U == SumTo(u)
           V == SumTo(v)
           X == SumTo(w)
           S == {n \in 0..N : Cong(c * U[n], d * X[n] - e * V[n], p)}
<1>1. /\ U[0] = 0 /\ V[0] = 0 /\ X[0] = 0
      /\ Sum(u) = U[N] /\ Sum(v) = V[N] /\ Sum(w) = X[N]
  BY SumSteps
<1>2. ASSUME NEW i \in Nodes
      PROVE  /\ U[i] = U[i - 1] + u[i] /\ U[i - 1] \in Int /\ u[i] \in Int
             /\ V[i] = V[i - 1] + v[i] /\ V[i - 1] \in Int /\ v[i] \in Int
             /\ X[i] = X[i - 1] + w[i] /\ X[i - 1] \in Int /\ w[i] \in Int
  BY SumSteps
<1> HIDE DEF U, V, X
<1>3. 0 \in S
  <2>1. c * U[0] = 0 /\ d * X[0] - e * V[0] = 0 /\ 0 \in 0..N
    BY <1>1, NodesAssumption
  <2> QED BY <2>1, CongRefl
<1>4. ASSUME NEW i \in Nodes, i - 1 \in S PROVE i \in S
  <2>1. /\ c * U[i - 1] \in Int /\ d * X[i - 1] - e * V[i - 1] \in Int
        /\ c * u[i] \in Int /\ d * w[i] - e * v[i] \in Int
    BY <1>2
  <2>2. Cong(c * U[i - 1], d * X[i - 1] - e * V[i - 1], p)
    BY <1>4
  <2>3. Cong(c * U[i - 1] + c * u[i],
             (d * X[i - 1] - e * V[i - 1]) + (d * w[i] - e * v[i]), p)
    BY <2>1, <2>2, CongAdd
  <2>4. /\ c * U[i] = c * U[i - 1] + c * u[i]
        /\ d * X[i] = d * X[i - 1] + d * w[i]
        /\ e * V[i] = e * V[i - 1] + e * v[i]
    BY <1>2, Distribute
  <2>5. /\ d * X[i - 1] \in Int /\ d * w[i] \in Int
        /\ e * V[i - 1] \in Int /\ e * v[i] \in Int
    BY <1>2
  <2>6. d * X[i] - e * V[i]
            = (d * X[i - 1] - e * V[i - 1]) + (d * w[i] - e * v[i])
    BY <2>4, <2>5
  <2>7. Cong(c * U[i], d * X[i] - e * V[i], p)
    BY <2>3, <2>4, <2>6
  <2> QED BY <2>7, Before
<1>5. N \in S
  <2> HIDE DEF S
  <2> QED BY <1>3, <1>4, Upwards, NodesAssumption
<1> QED BY <1>1, <1>5

\* Products of congruent factors.
LEMMA FactorWise ==
    ASSUME NEW p \in Int, NEW f \in [Nodes -> Int], NEW g \in [Nodes -> Int],
           NEW h \in [Nodes -> Int], NEW S \in SUBSET Nodes,
           \A j \in S : Cong(f[j] * g[j], h[j], p)
    PROVE  Cong(Prod(Over(S, f)) * Prod(Over(S, g)), Prod(Over(S, h)), p)
<1> DEFINE F(s) == Prod(Over(s, f))
           G(s) == Prod(Over(s, g))
           H(s) == Prod(Over(s, h))
           W == {s \in SUBSET Nodes : s \subseteq S => Cong(F(s) * G(s), H(s), p)}
<1>1. \A s \in SUBSET Nodes : F(s) \in Int /\ G(s) \in Int /\ H(s) \in Int
  BY ProdType
<1>2. F({}) = 1 /\ G({}) = 1 /\ H({}) = 1
  BY NoFactor
<1>3. \A s \in SUBSET Nodes : \A a \in s : /\ F(s) = f[a] * F(s \ {a})
                                           /\ G(s) = g[a] * G(s \ {a})
                                           /\ H(s) = h[a] * H(s \ {a})
  BY TakeFactor
<1> HIDE DEF F, G, H
<1>4. ASSUME NEW s \in SUBSET Nodes, \A a \in s : s \ {a} \in W
      PROVE  s \in W
  <2> SUFFICES ASSUME s \subseteq S PROVE Cong(F(s) * G(s), H(s), p)
    OBVIOUS
  <2>1. CASE s = {}
    <3>1. F(s) * G(s) = 1 /\ H(s) = 1
      BY <1>2, <2>1
    <3> QED BY <3>1, CongRefl
  <2>2. CASE s # {}
    <3>1. PICK a \in s : TRUE
      BY <2>2
    <3> DEFINE t == s \ {a}
    <3>2. t \in SUBSET Nodes /\ Cong(F(t) * G(t), H(t), p)
      BY <1>4
    <3>3. Cong(f[a] * g[a], h[a], p) /\ f[a] \in Int /\ g[a] \in Int /\ h[a] \in Int
      OBVIOUS
    <3>4. F(t) \in Int /\ G(t) \in Int /\ H(t) \in Int
      BY <1>1, <3>2
    <3>5. F(s) = f[a] * F(t) /\ G(s) = g[a] * G(t) /\ H(s) = h[a] * H(t)
      BY <1>3
    <3> HIDE DEF t
    <3>6. Cong((f[a] * g[a]) * (F(t) * G(t)), h[a] * H(t), p)
      <4>1. f[a] * g[a] \in Int /\ F(t) * G(t) \in Int
        BY <3>3, <3>4
      <4> QED BY <4>1, <3>2, <3>3, <3>4, CongProduct
    <3>7. (f[a] * F(t)) * (g[a] * G(t)) = (f[a] * g[a]) * (F(t) * G(t))
      BY <3>3, <3>4
    <3> QED BY <3>5, <3>6, <3>7
  <2> QED BY <2>1, <2>2
<1>5. S \in W
  <2> HIDE DEF W
  <2> QED BY <1>4, SmallerFirst
<1> QED BY <1>5 DEF F, G, H

-----------------------------------------------------------------------------
(***************************************************************************)
(* Lagrange interpolation of the constant one at zero.  R[i][j] is the     *)
(* factor -x[j] / (x[i] - x[j]) and Basis(R, i, s) the polynomial of i for *)
(* the points at the positions of s.                                       *)
(***************************************************************************)
Points == [Nodes -> Int]
Factors == [Nodes -> [Nodes -> Int]]

Apart(x, p) == \A i, j \in Nodes : i # j => (x[i] - x[j]) % p # 0

IsRatio(R, x, p) ==
    \A i, j \in Nodes : i # j => Cong((x[i] - x[j]) * R[i][j], -x[j], p)

Basis(R, i, s) == Prod(Over(s \ {i}, R[i]))
Bases(R, s) == [i \in Nodes |-> IF i \in s THEN Basis(R, i, s) ELSE 0]

LEMMA RatioExists ==
    ASSUME NEW p, Prime(p), NEW x \in Points, Apart(x, p)
    PROVE  \E R \in Factors : IsRatio(R, x, p)
<1> DEFINE Fits(i, j, r) == i # j => Cong((x[i] - x[j]) * r, -x[j], p)
           R == [i \in Nodes |-> [j \in Nodes |-> CHOOSE r \in Int : Fits(i, j, r)]]
<1>0. p \in Nat \ {0} /\ p \in Int /\ 1 \in Int /\ 1 % p = 1
  BY DEF Prime
<1>1. ASSUME NEW i \in Nodes, NEW j \in Nodes PROVE \E r \in Int : Fits(i, j, r)
  <2>1. CASE i = j
    BY <2>1, <1>0
  <2>2. CASE i # j
    <3> DEFINE d == x[i] - x[j]
    <3>1. d \in Int /\ d % p # 0 /\ -x[j] \in Int
      BY <2>2 DEF Apart, Points
    <3> HIDE DEF d
    <3>2. PICK q \in 1..(p - 1) : (d * q) % p = 1
      BY <3>1, InverseExists
    <3>3. q \in Int /\ d * q \in Int /\ q * (-x[j]) \in Int
      BY <1>0, <3>1
    <3>4. Cong(d * q, 1, p)
      BY <1>0, <3>2, <3>3, CongMods
    <3>5. Cong((d * q) * (-x[j]), 1 * (-x[j]), p)
      BY <1>0, <3>1, <3>3, <3>4, CongTimes
    <3>6. (d * q) * (-x[j]) = d * (q * (-x[j])) /\ 1 * (-x[j]) = -x[j]
      BY <3>1, <3>3, Assoc
    <3>7. Cong(d * (q * (-x[j])), -x[j], p)
      BY <3>5, <3>6
    <3> QED BY <3>3, <3>7 DEF d
  <2> QED BY <2>1, <2>2
<1>2. R \in Factors /\ \A i, j \in Nodes : Fits(i, j, R[i][j])
  <2> HIDE DEF Fits
  <2> QED BY <1>1 DEF Factors
<1>3. IsRatio(R, x, p)
  BY <1>2 DEF IsRatio
<1> HIDE DEF R
<1> QED BY <1>2, <1>3

\* The coefficient of a single position.
LEMMA OneBasis ==
    ASSUME NEW R \in Factors, NEW a \in Nodes
    PROVE  Sum(Bases(R, {a})) = 1
<1>1. R[a] \in [Nodes -> Int] /\ {a} \ {a} = {}
  BY DEF Factors
<1>2. Basis(R, a, {a}) = 1
  BY <1>1, NoFactor DEF Basis
<1>3. /\ Bases(R, {a}) \in [Nodes -> Int]
      /\ Bases(R, {a})[a] = 1
      /\ \A i \in Nodes \ {a} : Bases(R, {a})[i] = 0
  BY <1>2 DEF Bases
<1> QED BY <1>3, OnlyTerm

\* Neville's relation between the coefficients for s, and those for s without
\* one of two positions.
LEMMA Neville ==
    ASSUME NEW p, Prime(p), NEW x \in Points, NEW R \in Factors, IsRatio(R, x, p),
           NEW s \in SUBSET Nodes, NEW a \in s, NEW b \in s, a # b, NEW i \in Nodes
    PROVE  Cong((x[b] - x[a]) * Bases(R, s)[i],
                x[b] * Bases(R, s \ {b})[i] - x[a] * Bases(R, s \ {a})[i], p)
<1>0. /\ p \in Int /\ a \in Nodes /\ b \in Nodes
      /\ x[a] \in Int /\ x[b] \in Int /\ x[i] \in Int
      /\ R[i] \in [Nodes -> Int] /\ R[i][a] \in Int /\ R[i][b] \in Int
  BY DEF Prime, Points, Factors
<1>1. \A t \in SUBSET Nodes : Basis(R, i, t) \in Int
  BY <1>0, ProdType DEF Basis
<1>2. ASSUME NEW t \in SUBSET Nodes, NEW c \in t, c # i
      PROVE  Basis(R, i, t) = R[i][c] * Basis(R, i, t \ {c})
  <2>1. t \ {i} \in SUBSET Nodes /\ c \in t \ {i} /\ (t \ {i}) \ {c} = (t \ {c}) \ {i}
    BY <1>2
  <2> QED BY <2>1, <1>0, TakeFactor DEF Basis
<1> DEFINE ra == R[i][a]
           rb == R[i][b]
           ua == (x[i] - x[a]) * ra
           ub == (x[i] - x[b]) * rb
<1>3. /\ i # a => Cong(ua, -x[a], p)
      /\ i # b => Cong(ub, -x[b], p)
  BY <1>0 DEF IsRatio
<1>4. ua \in Int /\ ub \in Int /\ -x[a] \in Int /\ -x[b] \in Int
  BY <1>0
<1>5. CASE i \notin s
  <2>1. Bases(R, s)[i] = 0 /\ Bases(R, s \ {b})[i] = 0 /\ Bases(R, s \ {a})[i] = 0
    BY <1>5 DEF Bases
  <2>2. (x[b] - x[a]) * 0 = 0 /\ x[b] * 0 - x[a] * 0 = 0
    BY <1>0
  <2> QED BY <2>1, <2>2, <1>0, CongRefl
<1>6. CASE i = a
  <2> DEFINE B == Basis(R, i, s \ {b})
  <2>1. /\ Bases(R, s)[i] = rb * B
        /\ Bases(R, s \ {b})[i] = B /\ Bases(R, s \ {a})[i] = 0
    BY <1>6, <1>2 DEF Bases
  <2>2. B \in Int
    BY <1>1
  <2> HIDE DEF B
  <2>3. Cong(ub * B, (-x[b]) * B, p)
    BY <1>3, <1>4, <1>6, <1>0, <2>2, CongTimes
  <2>4. ub * B \in Int /\ (-x[b]) * B \in Int /\ 0 \in Int
    BY <1>4, <2>2
  <2>5. Cong(0 - ub * B, 0 - (-x[b]) * B, p)
    BY <2>3, <2>4, <1>0, CongRefl, CongAdd
  <2>6. 0 - ub * B = (x[b] - x[a]) * (rb * B)
    BY <1>0, <1>6, <2>2
  <2>7. 0 - (-x[b]) * B = x[b] * B - x[a] * 0
    BY <1>0, <2>2
  <2> QED BY <2>1, <2>5, <2>6, <2>7
<1>7. CASE i = b
  <2> DEFINE B == Basis(R, i, s \ {a})
  <2>1. /\ Bases(R, s)[i] = ra * B
        /\ Bases(R, s \ {a})[i] = B /\ Bases(R, s \ {b})[i] = 0
    BY <1>7, <1>2 DEF Bases
  <2>2. B \in Int
    BY <1>1
  <2> HIDE DEF B
  <2>3. Cong(ua * B, (-x[a]) * B, p)
    BY <1>3, <1>4, <1>7, <1>0, <2>2, CongTimes
  <2>6. ua * B = (x[b] - x[a]) * (ra * B)
    BY <1>0, <1>7, <2>2
  <2>7. (-x[a]) * B = x[b] * 0 - x[a] * B
    BY <1>0, <2>2
  <2> QED BY <2>1, <2>3, <2>6, <2>7
<1>8. CASE i \in s /\ i # a /\ i # b
  <2> DEFINE B == Basis(R, i, (s \ {a}) \ {b})
  <2>1. (s \ {b}) \ {a} = (s \ {a}) \ {b}
    OBVIOUS
  <2>2. /\ Bases(R, s \ {a})[i] = rb * B
        /\ Bases(R, s \ {b})[i] = ra * B
        /\ Bases(R, s)[i] = ra * (rb * B)
    BY <1>2, <1>8, <2>1 DEF Bases
  <2>3. B \in Int
    BY <1>1
  <2> HIDE DEF B
  <2>10. rb * B \in Int /\ ra * B \in Int
    BY <1>0, <2>3
  <2>4. Cong(ua * (rb * B), (-x[a]) * (rb * B), p)
    BY <1>0, <1>3, <1>4, <1>8, <2>10, CongTimes
  <2>5. Cong(ub * (ra * B), (-x[b]) * (ra * B), p)
    BY <1>0, <1>3, <1>4, <1>8, <2>10, CongTimes
  <2>6. /\ ua * (rb * B) \in Int /\ (-x[a]) * (rb * B) \in Int
        /\ ub * (ra * B) \in Int /\ (-x[b]) * (ra * B) \in Int
    BY <1>0, <1>4, <2>3
  <2>7. Cong(ua * (rb * B) - ub * (ra * B),
             (-x[a]) * (rb * B) - (-x[b]) * (ra * B), p)
    BY <1>0, <2>4, <2>5, <2>6, CongAdd
  <2>8. ua * (rb * B) - ub * (ra * B) = (x[b] - x[a]) * (ra * (rb * B))
    BY <1>0, <2>3
  <2>9. (-x[a]) * (rb * B) - (-x[b]) * (ra * B) = x[b] * (ra * B) - x[a] * (rb * B)
    BY <1>0, <2>3
  <2> QED BY <2>2, <2>7, <2>8, <2>9
<1> QED BY <1>5, <1>6, <1>7, <1>8

\* The coefficients of any set of points add up to one.
LEMMA BasesAddUp ==
    ASSUME NEW p, Prime(p), NEW x \in Points, Apart(x, p),
           NEW R \in Factors, IsRatio(R, x, p)
    PROVE  \A s \in SUBSET Nodes : s # {} => Cong(Sum(Bases(R, s)), 1, p)
<1> DEFINE W == {s \in SUBSET Nodes : s # {} => Cong(Sum(Bases(R, s)), 1, p)}
<1>0. p \in Int /\ 1 \in Int
  BY DEF Prime
<1>1. \A s \in SUBSET Nodes : Bases(R, s) \in [Nodes -> Int] /\ Sum(Bases(R, s)) \in Int
  <2> SUFFICES ASSUME NEW s \in SUBSET Nodes
               PROVE  Bases(R, s) \in [Nodes -> Int] /\ Sum(Bases(R, s)) \in Int
    OBVIOUS
  <2>1. \A i \in Nodes : R[i] \in [Nodes -> Int]
    BY DEF Factors
  <2>2. \A i \in Nodes : Basis(R, i, s) \in Int
    BY <2>1, ProdType DEF Basis
  <2>3. Bases(R, s) \in [Nodes -> Int]
    BY <2>2 DEF Bases
  <2> QED BY <2>3, SumSteps
<1>2. ASSUME NEW s \in SUBSET Nodes, \A a \in s : s \ {a} \in W
      PROVE  s \in W
  <2> SUFFICES ASSUME s # {} PROVE Cong(Sum(Bases(R, s)), 1, p)
    OBVIOUS
  <2>1. PICK a \in s : TRUE
    OBVIOUS
  <2>2. CASE s = {a}
    <3>1. Sum(Bases(R, s)) = 1
      BY <2>2, OneBasis
    <3> QED BY <3>1, <1>0, CongRefl
  <2>3. CASE s # {a}
    <3>1. PICK b \in s : b # a
      BY <2>3
    <3> DEFINE u == Bases(R, s)
               v == Bases(R, s \ {a})
               w == Bases(R, s \ {b})
               c == x[b] - x[a]
    <3>2. /\ u \in [Nodes -> Int] /\ v \in [Nodes -> Int] /\ w \in [Nodes -> Int]
          /\ Sum(u) \in Int /\ Sum(v) \in Int /\ Sum(w) \in Int
      BY <1>1
    <3>3. Cong(Sum(v), 1, p) /\ Cong(Sum(w), 1, p)
      <4>1. s \ {a} \in W /\ s \ {b} \in W /\ s \ {a} # {} /\ s \ {b} # {}
        BY <1>2, <3>1
      <4> QED BY <4>1
    <3>4. x[a] \in Int /\ x[b] \in Int /\ c \in Int /\ c % p # 0
      BY <3>1 DEF Points, Apart
    <3>5. \A i \in Nodes : Cong(c * u[i], x[b] * w[i] - x[a] * v[i], p)
      BY <3>1, Neville
    <3> HIDE DEF u, v, w, c
    <3>6. Cong(c * Sum(u), x[b] * Sum(w) - x[a] * Sum(v), p)
      BY <3>2, <3>4, <3>5, <1>0, LinearSums
    <3>7. Cong(x[b] * Sum(w) - x[a] * Sum(v), x[b] * 1 - x[a] * 1, p)
      <4>1. Cong(x[b] * Sum(w), x[b] * 1, p) /\ Cong(x[a] * Sum(v), x[a] * 1, p)
        BY <3>2, <3>3, <3>4, <1>0, CongTimes
      <4>2. /\ x[b] * Sum(w) \in Int /\ x[b] * 1 \in Int
            /\ x[a] * Sum(v) \in Int /\ x[a] * 1 \in Int
        BY <3>2, <3>4
      <4> QED BY <4>1, <4>2, <1>0, CongAdd
    <3>8. x[b] * 1 - x[a] * 1 = c
      BY <3>4 DEF c
    <3>9. c * Sum(u) \in Int /\ x[b] * Sum(w) - x[a] * Sum(v) \in Int
      BY <3>2, <3>4
    <3>10. Cong(c * Sum(u), c, p)
      BY <3>4, <3>6, <3>7, <3>8, <3>9, <1>0, CongTrans
    <3>11. Cong(Sum(u), 1, p)
      BY <3>2, <3>4, <3>10, Cancel
    <3> QED BY <3>11 DEF u
  <2> QED BY <2>2, <2>3
<1>3. SUBSET Nodes \subseteq W
  <2> HIDE DEF W
  <2> QED BY <1>2, SmallerFirst
<1> QED BY <1>3

-----------------------------------------------------------------------------
(* The parameters the controller computes *)

PrimeOfPath == prime \in Primes /\ points \in XPoints

LEMMA PathPrime ==
    ASSUME PrimeOfPath
    PROVE  /\ Prime(prime) /\ prime \in Nat \ {0} /\ prime \in Int
           /\ points \in Points
  BY PrimesAssumption, PointsAssumption, NodesAssumption
     DEF PrimeOfPath, Prime, XPoints, Points, Nodes

LEMMA TopAndBottom ==
    ASSUME PrimeOfPath, NEW i \in Nodes
    PROVE  /\ Top(i) = Prod(Over(Nodes \ {i}, [j \in Nodes |-> -points[j]]))
           /\ Bottom(i) = Prod(Over(Nodes \ {i}, [j \in Nodes |-> points[i] - points[j]]))
           /\ Top(i) \in Int /\ Bottom(i) \in Int
<1>1. /\ [j \in Nodes |-> -points[j]] \in [Nodes -> Int]
      /\ [j \in Nodes |-> points[i] - points[j]] \in [Nodes -> Int]
  BY PathPrime DEF Points
<1>2. /\ Top(i) = Prod(Over(Nodes \ {i}, [j \in Nodes |-> -points[j]]))
      /\ Bottom(i) = Prod(Over(Nodes \ {i}, [j \in Nodes |-> points[i] - points[j]]))
  BY <1>1, FoldIsProduct DEF Top, Bottom
<1> QED BY <1>1, <1>2, ProdType

LEMMA PointsApart == ASSUME PrimeOfPath, Solvable PROVE Apart(points, prime)
<1> SUFFICES ASSUME NEW i \in Nodes, NEW j \in Nodes, i # j,
                    (points[i] - points[j]) % prime = 0
             PROVE  FALSE
  BY DEF Apart
<1> DEFINE f == [k \in Nodes |-> points[i] - points[k]]
           rest == Prod(Over((Nodes \ {i}) \ {j}, f))
           d == points[i] - points[j]
<1>1. f \in [Nodes -> Int] /\ d \in Int /\ f[j] = d
  BY PathPrime DEF Points
<1>2. Bottom(i) = d * rest
  BY <1>1, TopAndBottom, TakeFactor
<1>3. rest \in Int
  BY <1>1, ProdType
<1> HIDE DEF rest, d
<1>4. prime \in Nat \ {0} /\ prime \in Int /\ 0 \in Int /\ 0 % prime = 0
  BY PathPrime
<1>5. Cong(d, 0, prime)
  BY <1>1, <1>4, CongMods DEF d
<1>6. PICK k \in Int : d - 0 = k * prime
  BY <1>5 DEF Cong
<1>7. d * rest - 0 = (k * rest) * prime
  <2>1. d = k * prime /\ d * rest - 0 = d * rest
    BY <1>1, <1>3, <1>4, <1>6 DEF d
  <2>2. (k * prime) * rest = (k * rest) * prime
    BY <1>3, <1>4
  <2> QED BY <2>1, <2>2
<1>8. d * rest \in Int /\ k * rest \in Int
  BY <1>1, <1>3 DEF d
<1>9. Cong(d * rest, 0, prime)
  BY <1>7, <1>8, Multiple
<1>10. Bottom(i) % prime = 0
  <2>1. (d * rest) % prime = 0 % prime
    BY <1>4, <1>8, <1>9, CongMods
  <2> QED BY <2>1, <1>2, <1>4
<1> QED BY <1>10 DEF Solvable, Invertible

\* What handle_calculate_lpcs returns for a position is its polynomial at zero.
LEMMA LpcIsBasis ==
    ASSUME PrimeOfPath, Solvable, NEW R \in Factors, IsRatio(R, points, prime),
           NEW i \in Nodes
    PROVE  /\ Lpc(i) \in 0..(prime - 1)
           /\ Basis(R, i, Nodes) \in Int
           /\ Cong(Lpc(i), Basis(R, i, Nodes), prime)
<1> DEFINE f == [j \in Nodes |-> points[i] - points[j]]
           h == [j \in Nodes |-> -points[j]]
           B == Basis(R, i, Nodes)
           bot == Bottom(i)
           inv == ModInverse(bot)
<1>0. /\ Prime(prime) /\ prime \in Nat \ {0} /\ prime \in Int /\ points \in Points
      /\ 1 \in Int /\ 1 % prime = 1
  BY PathPrime DEF Prime
<1>1. /\ f \in [Nodes -> Int] /\ h \in [Nodes -> Int] /\ R[i] \in [Nodes -> Int]
  BY <1>0 DEF Points, Factors
<1>2. /\ Top(i) = Prod(Over(Nodes \ {i}, h)) /\ bot = Prod(Over(Nodes \ {i}, f))
      /\ Top(i) \in Int /\ bot \in Int
      /\ B = Prod(Over(Nodes \ {i}, R[i])) /\ B \in Int
  BY <1>1, TopAndBottom, ProdType DEF Basis
<1>3. \A j \in Nodes \ {i} : Cong(f[j] * R[i][j], h[j], prime)
  BY DEF IsRatio
<1>4. Cong(bot * B, Top(i), prime)
  BY <1>0, <1>1, <1>2, <1>3, FactorWise
<1>5. inv \in 1..(prime - 1) /\ (bot * inv) % prime = 1
  <2>1. \E w \in 1..(prime - 1) : (bot * w) % prime = 1
    BY <1>0, <1>2, InverseExists DEF Solvable, Invertible
  <2> QED BY <2>1 DEF ModInverse
<1>6. Lpc(i) = (Top(i) * inv) % prime
  BY DEF Lpc
<1> HIDE DEF B, bot, inv
<1>7. /\ inv \in Int /\ bot * inv \in Int /\ bot * B \in Int /\ Top(i) * inv \in Int
      /\ (bot * B) * inv \in Int /\ (bot * inv) * B \in Int
  BY <1>0, <1>2, <1>5
<1>8. Cong(bot * inv, 1, prime)
  BY <1>0, <1>5, <1>7, CongMods
<1>9. Cong((bot * inv) * B, B, prime)
  <2>1. Cong((bot * inv) * B, 1 * B, prime) /\ 1 * B = B
    BY <1>0, <1>2, <1>7, <1>8, CongTimes
  <2> QED BY <2>1
<1>10. Cong((bot * B) * inv, Top(i) * inv, prime)
  BY <1>0, <1>2, <1>4, <1>7, CongTimes
<1>11. (bot * inv) * B = (bot * B) * inv
  BY <1>2, <1>7
<1>12. Lpc(i) \in 0..(prime - 1) /\ Cong(Lpc(i), Top(i) * inv, prime)
  BY <1>0, <1>6, <1>7, CongMod
<1>13. Lpc(i) \in Int
  BY <1>12, <1>0
<1>14. Cong(Top(i) * inv, B, prime)
  <2>1. Cong(Top(i) * inv, (bot * B) * inv, prime)
    BY <1>0, <1>7, <1>10, CongSym
  <2> QED BY <2>1, <1>0, <1>2, <1>7, <1>9, <1>11, CongTrans
<1>15. Cong(Lpc(i), B, prime)
  BY <1>0, <1>2, <1>7, <1>12, <1>13, <1>14, CongTrans
<1> QED BY <1>2, <1>12, <1>15 DEF B

\* The coefficients of a path add up to one.
LEMMA LpcsAddUp ==
    ASSUME PrimeOfPath, Solvable, NEW l, l = [i \in Nodes |-> Lpc(i)]
    PROVE  /\ \A i \in Nodes : l[i] \in 0..(prime - 1)
           /\ l \in [Nodes -> Int] /\ Sum(l) \in Int
           /\ Cong(Sum(l), 1, prime)
<1>0. /\ Prime(prime) /\ prime \in Int /\ points \in Points /\ Apart(points, prime)
      /\ 1 \in Int /\ 0 \in Int
  BY PathPrime, PointsApart
<1>1. PICK R \in Factors : IsRatio(R, points, prime)
  BY <1>0, RatioExists
<1> DEFINE u == Bases(R, Nodes)
<1>2. \A i \in Nodes : /\ l[i] \in 0..(prime - 1) /\ l[i] \in Int
                       /\ u[i] \in Int /\ Cong(l[i], u[i], prime)
  BY <1>0, <1>1, LpcIsBasis DEF Bases
<1>3. l \in [Nodes -> Int] /\ u \in [Nodes -> Int]
  BY <1>2 DEF Bases
<1>4. Cong(Sum(u), 1, prime)
  <2>1. Nodes \in SUBSET Nodes /\ Nodes # {}
    BY NodesAssumption DEF Nodes
  <2> QED BY <2>1, <1>0, <1>1, BasesAddUp
<1> HIDE DEF u
<1>5. Sum(l) \in Int /\ Sum(u) \in Int
  BY <1>3, SumSteps
<1>6. \A i \in Nodes : Cong(1 * l[i], 1 * u[i] - 0 * u[i], prime)
  BY <1>2
<1>7. Cong(1 * Sum(l), 1 * Sum(u) - 0 * Sum(u), prime)
  BY <1>0, <1>3, <1>6, LinearSums
<1>8. Cong(Sum(l), Sum(u), prime)
  BY <1>5, <1>7
<1> QED BY <1>0, <1>2, <1>3, <1>4, <1>5, <1>8, CongTrans

-----------------------------------------------------------------------------
(* Values that grow by shares *)

LEMMA GrowsByShare ==
    ASSUME NEW p \in Nat \ {0}, NEW b \in Int, NEW c \in Int, NEW e \in Int,
           NEW a, a = c + ((b + e) % p)
    PROVE  Cong(a, b + (c + e), p)
<1>1. Cong((b + e) % p, b + e, p) /\ (b + e) % p \in Int /\ p \in Int /\ b + e \in Int
  BY CongMod
<1>2. Cong(c, c, p)
  BY <1>1, CongRefl
<1>3. Cong(c + ((b + e) % p), c + (b + e), p)
  BY <1>1, <1>2, CongAdd
<1>4. c + (b + e) = b + (c + e)
  OBVIOUS
<1> QED BY <1>3, <1>4

\* A value to which every node adds its share of s, and one of them an error.
LEMMA Accumulated ==
    ASSUME NEW p, Prime(p), NEW l \in [Nodes -> Int], Cong(Sum(l), 1, p),
           NEW s \in Int, NEW x \in [Nodes -> Int], NEW a \in Nodes,
           \A i \in Nodes \ {a} : x[i] = 0,
           NEW h \in [0..N -> Int], h[0] = 0,
           \A i \in Nodes : Cong(h[i], h[i - 1] + (s * l[i] + x[i]), p)
    PROVE  Cong(h[N], s + x[a], p)
<1> DEFINE f == [i \in Nodes |-> s * l[i] + x[i]]
           F == SumTo(f)
           W == {n \in 0..N : Cong(h[n], F[n], p)}
<1>0. p \in Int /\ 0 \in Int /\ 1 \in Int /\ -1 \in Int
  BY DEF Prime
<1>1. f \in [Nodes -> Int] /\ \A i \in Nodes : f[i] = s * l[i] + x[i]
  OBVIOUS
<1> HIDE DEF f
<1>2. /\ F[0] = 0 /\ Sum(f) \in Int /\ Sum(f) = F[N]
      /\ \A i \in Nodes : /\ F[i] = F[i - 1] + f[i]
                          /\ F[i] \in Int /\ F[i - 1] \in Int
  BY <1>1, SumSteps
<1> HIDE DEF F
<1>3. 0 \in W
  BY <1>0, <1>2, CongRefl, NodesAssumption
<1>4. ASSUME NEW i \in Nodes, i - 1 \in W PROVE i \in W
  <2>0. i \in 0..N /\ i - 1 \in 0..N /\ f[i] \in Int
    BY <1>1, Before
  <2>1. /\ i \in 0..N /\ h[i] \in Int /\ h[i - 1] \in Int /\ f[i] \in Int
        /\ F[i - 1] \in Int /\ F[i] = F[i - 1] + f[i] /\ F[i] \in Int
    BY <2>0, <1>2
  <2>4. h[i - 1] + f[i] \in Int /\ F[i - 1] + f[i] \in Int
    <3>1. \A y, z \in Int : y + z \in Int
      OBVIOUS
    <3> QED BY <3>1, <2>0, <2>1, Zenon
  <2>2. Cong(h[i], h[i - 1] + f[i], p)
    BY <1>1
  <2>3. Cong(h[i - 1] + f[i], F[i - 1] + f[i], p)
    BY <1>4, <2>1, <1>0, CongRefl, CongAdd
  <2>5. Cong(h[i], F[i], p)
    BY <2>1, <2>2, <2>3, <2>4, <1>0, CongTrans
  <2> QED BY <2>1, <2>5
<1>5. Cong(h[N], Sum(f), p)
  <2>1. N \in 0..N
    BY NodesAssumption
  <2>2. 0..N \subseteq W
    <3> HIDE DEF W
    <3> QED BY <1>3, <1>4, Upwards
  <2>3. N \in W
    BY <2>1, <2>2
  <2> QED BY <2>3, <1>2
<1>6. Cong(Sum(f), s * Sum(l) + Sum(x), p)
  <2>1. \A i \in Nodes : Cong(1 * f[i], s * l[i] - (-1) * x[i], p)
    <3> SUFFICES ASSUME NEW i \in Nodes
                 PROVE  Cong(1 * f[i], s * l[i] - (-1) * x[i], p)
      OBVIOUS
    <3>1. 1 * f[i] = s * l[i] + x[i] /\ s * l[i] - (-1) * x[i] = s * l[i] + x[i]
          /\ s * l[i] + x[i] \in Int
      BY <1>1
    <3> QED BY <3>1, <1>0, CongRefl
  <2>2. Cong(1 * Sum(f), s * Sum(l) - (-1) * Sum(x), p)
    BY <1>0, <1>1, <2>1, LinearSums
  <2>3. Sum(l) \in Int /\ Sum(x) \in Int /\ Sum(f) \in Int
    BY <1>1, SumSteps
  <2>4. 1 * Sum(f) = Sum(f) /\ s * Sum(l) - (-1) * Sum(x) = s * Sum(l) + Sum(x)
    BY <2>3
  <2> QED BY <2>2, <2>4
<1>7. Sum(x) = x[a] /\ x[a] \in Int /\ Sum(l) \in Int
  BY OnlyTerm, SumSteps
<1>8. Cong(s * Sum(l) + Sum(x), s + x[a], p)
  <2>1. Cong(s * Sum(l), s * 1, p)
    BY <1>0, <1>7, CongTimes
  <2>2. s * 1 = s /\ s * Sum(l) \in Int
    BY <1>7
  <2>3. Cong(s * Sum(l), s, p) /\ Cong(x[a], x[a], p)
    BY <2>1, <2>2, <1>0, <1>7, CongRefl
  <2> QED BY <2>2, <2>3, <1>0, <1>7, CongAdd
<1>9. h[N] \in Int /\ s * Sum(l) + Sum(x) \in Int /\ s + x[a] \in Int
  BY <1>7, NodesAssumption
<1>10. Cong(h[N], s * Sum(l) + Sum(x), p)
  BY <1>0, <1>2, <1>5, <1>6, <1>9, CongTrans
<1> QED BY <1>0, <1>8, <1>9, <1>10, CongTrans

-----------------------------------------------------------------------------
(* The invariant *)

Carriers == [secret : Int, cml : Int]

\* What a node makes of a value, with and without a random error.
Share(l, p, prev, s, i, err) ==
    IF err THEN (s + 1) * l[i] + ((prev + 1) % p) ELSE s * l[i] + (prev % p)

Previous(i) == IF i = 1 THEN 0 ELSE reports[i - 1]
SecretKept(n) == \A j \in 1..n : <<j, "secret">> \notin flipped

\* The parameters of a path that is used are right.
Parameters ==
    /\ phase # "draw" => PrimeOfPath
    /\ phase \in {"walk", "judged"} =>
          /\ lpcs \in [Nodes -> Int] /\ \A i \in Nodes : lpcs[i] \in 0..(prime - 1)
          /\ Cong(Sum(lpcs), 1, prime)

\* The packet is on its way to the node after the last one that reported.
Way ==
    /\ phase \in {"draw", "invert", "walk", "judged"}
    /\ wire \in Carriers
    /\ reports \in Seq(Int) /\ Len(reports) \in 0..N
    /\ phase \in {"draw", "invert"} => reports = <<>>
    /\ phase = "walk" => Len(reports) < N
    /\ phase = "judged" => Len(reports) = N
    /\ reports # <<>> => secret \in 0..(prime - 1)
    /\ erred \subseteq 1..Len(reports)
    /\ flipped \subseteq (2..N) \X {"secret", "cml"}

\* It carries what was reported and drawn, unless it was altered.
Carried ==
    reports # <<>> =>
        LET n == Len(reports)
        IN  /\ <<n + 1, "cml">> \notin flipped => wire.cml = reports[n]
            /\ SecretKept(n + 1) => wire.secret = secret

\* A node whose packet came unaltered reports its share, or its error.
Told ==
    \A i \in 1..Len(reports) :
        <<i, "cml">> \notin flipped /\ SecretKept(i) =>
            reports[i] = Share(lpcs, prime, Previous(i), secret, i, i \in erred)

Verified ==
    phase = "judged" => verdict = (wire.cml % prime = wire.secret)

IInv == Parameters /\ Way /\ Carried /\ Told /\ Verified

LEMMA ShareOfNode ==
    ASSUME NEW prev \in Int, NEW s \in Int, NEW i \in Nodes, NEW err \in BOOLEAN,
           lpcs \in [Nodes -> Int], prime \in Nat \ {0}
    PROVE  /\ GenerateCmlValue(prev, s, i, err) = Share(lpcs, prime, prev, s, i, err)
           /\ GenerateCmlValue(prev, s, i, err) \in Int
           /\ CalculateNewCml(prev, s, i) = s * lpcs[i] + (prev % prime)
  BY DEF GenerateCmlValue, Share, CalculateNewCml, SecretShare

LEMMA StartHolds == Init => IInv
  BY NodesAssumption
     DEF Init, IInv, Parameters, Way, Carriers, Carried, Told, Verified

LEMMA ProcessStep ==
    ASSUME IInv, NEW s \in Int, NEW prev \in Int, NEW err \in BOOLEAN,
           Process(s, prev, err), At \in Nodes,
           At = 1 => prev = 0 /\ s \in 0..(prime - 1) /\ secret' = s,
           At # 1 => prev = wire.cml /\ s = wire.secret /\ secret' = secret,
           phase' = IF At = N THEN "judged" ELSE "walk"
    PROVE  /\ Parameters' /\ Way' /\ Carried' /\ Told'
           /\ wire'.secret = s /\ wire'.cml \in Int
<1> DEFINE new == GenerateCmlValue(prev, s, At, err)
<1> PICK n \in Nat : n = Len(reports)
  BY DEF IInv, Way
<1>1. /\ phase = "walk" /\ prime' = prime /\ points' = points /\ lpcs' = lpcs
      /\ flipped' = flipped
      /\ erred' = IF err THEN erred \cup {n + 1} ELSE erred
      /\ wire' = [secret |-> s, cml |-> new] /\ reports' = Append(reports, new)
  BY DEF Process, parameters, At
<1>2. /\ PrimeOfPath /\ prime \in Nat \ {0} /\ lpcs \in [Nodes -> Int]
      /\ reports \in Seq(Int) /\ n \in Nat /\ At = n + 1 /\ n < N
      /\ erred \subseteq 1..n
  BY <1>1, PathPrime DEF IInv, Parameters, Way, At
<1>3. new = Share(lpcs, prime, prev, s, n + 1, err) /\ new \in Int
  BY <1>2, ShareOfNode
<1> HIDE DEF new
<1>4. /\ reports' \in Seq(Int) /\ Len(reports') = n + 1 /\ reports' # <<>>
      /\ reports'[n + 1] = new
      /\ \A i \in 1..n : reports'[i] = reports[i]
  BY <1>1, <1>2, <1>3
<1>5. Parameters'
  BY <1>1 DEF IInv, Parameters, PrimeOfPath
<1>6. Way'
  <2>1. secret' \in 0..(prime' - 1)
    BY <1>1, <1>2 DEF IInv, Way
  <2>2. erred' \subseteq 1..(n + 1)
    <3>1. 1..n \subseteq 1..(n + 1) /\ n + 1 \in 1..(n + 1)
      OBVIOUS
    <3> QED BY <3>1, <1>1, <1>2
  <2>3. wire' \in Carriers
    BY <1>1, <1>3 DEF Carriers
  <2>4. phase' \in {"walk", "judged"}
        /\ (phase' = "walk" => n + 1 < N) /\ (phase' = "judged" => n + 1 = N)
    BY <1>2, NodesAssumption
  <2>5. n + 1 \in 0..N
    BY <1>2, NodesAssumption
  <2> QED BY <1>1, <1>4, <2>1, <2>2, <2>3, <2>4, <2>5 DEF IInv, Way
<1>7. Carried'
  <2>1. wire'.cml = reports'[n + 1]
    BY <1>1, <1>4
  <2>2. SecretKept(n + 2)' => wire'.secret = secret'
    <3> SUFFICES ASSUME SecretKept(n + 2)' PROVE s = secret'
      BY <1>1
    <3>1. SecretKept(n + 1)
      <4>1. 1..(n + 1) \subseteq 1..(n + 2)
        OBVIOUS
      <4> QED BY <4>1, <1>1 DEF SecretKept
    <3>2. CASE n = 0
      BY <3>2, <1>2
    <3>3. CASE n # 0
      <4>1. reports # <<>>
        BY <3>3
      <4> QED BY <4>1, <3>1, <3>3, <1>2 DEF IInv, Carried
    <3> QED BY <3>2, <3>3
  <2>3. Len(reports') + 1 = n + 2
    BY <1>4
  <2> QED BY <2>1, <2>2, <2>3, <1>4 DEF Carried
<1>8. Told'
  <2> SUFFICES ASSUME NEW i \in 1..(n + 1), <<i, "cml">> \notin flipped, SecretKept(i)
               PROVE  reports'[i] = Share(lpcs, prime, Previous(i)', secret', i,
                                          i \in erred')
    BY <1>1, <1>4 DEF Told, SecretKept
  <2>1. CASE i = n + 1
    <3>1. i \in erred' <=> err
      BY <1>1, <1>2, <2>1
    <3>2. prev = Previous(i)' /\ s = secret'
      <4>1. CASE n = 0
        BY <4>1, <1>2, <2>1 DEF Previous
      <4>2. CASE n # 0
        <5>1. reports # <<>>
          BY <4>2
        <5>2. wire.cml = reports[n] /\ wire.secret = secret
          BY <5>1, <2>1, <1>2 DEF IInv, Carried
        <5> QED BY <5>2, <4>2, <1>2, <1>4, <2>1 DEF Previous
      <4> QED BY <4>1, <4>2
    <3>3. (i \in erred') = err
      BY <3>1
    <3> QED BY <3>2, <3>3, <1>3, <1>4, <2>1
  <2>2. CASE i # n + 1
    <3>1. i \in 1..n
      BY <2>2, <1>2
    <3>2. (i \in erred') = (i \in erred) /\ secret' = secret
      BY <3>1, <1>1, <1>2
    <3>3. Previous(i)' = Previous(i) /\ reports'[i] = reports[i]
      <4>1. i # 1 => i - 1 \in 1..n
        BY <3>1
      <4> QED BY <3>1, <4>1, <1>4 DEF Previous
    <3>4. reports[i] = Share(lpcs, prime, Previous(i), secret, i, i \in erred)
      BY <3>1 DEF IInv, Told
    <3> QED BY <3>2, <3>3, <3>4
  <2> QED BY <2>1, <2>2
<1>9. wire'.secret = s /\ wire'.cml \in Int
  BY <1>1, <1>3
<1> QED BY <1>5, <1>6, <1>7, <1>8, <1>9

LEMMA StepHolds == IInv /\ [Next]_vars => IInv'
<1> SUFFICES ASSUME IInv, [Next]_vars PROVE IInv'
  OBVIOUS
<1> USE DEF IInv
<1>0. wire.secret \in Int /\ wire.cml \in Int /\ wire = [secret |-> wire.secret, cml |-> wire.cml]
  BY DEF Way, Carriers
<1>1. CASE DrawParameters
  <2>1. reports = <<>> /\ phase' = "invert"
    BY <1>1 DEF DrawParameters, Way
  <2>2. Parameters'
    BY <1>1, <2>1 DEF DrawParameters, Parameters, PrimeOfPath
  <2> QED BY <1>1, <2>1, <2>2 DEF DrawParameters, Way, Carried, Told, Verified
<1>2. CASE CalculateLpcs
  <2>1. PrimeOfPath /\ Solvable /\ lpcs' = [i \in Nodes |-> Lpc(i)] /\ reports = <<>>
        /\ UNCHANGED <<prime, points, wire, secret, reports, verdict, erred, flipped>>
        /\ phase' = "walk"
    BY <1>2 DEF CalculateLpcs, Parameters, Way
  <2>2. /\ \A i \in Nodes : lpcs'[i] \in 0..(prime - 1)
        /\ lpcs' \in [Nodes -> Int] /\ Cong(Sum(lpcs'), 1, prime)
    BY <2>1, LpcsAddUp
  <2>3. Parameters'
    BY <2>1, <2>2 DEF Parameters, PrimeOfPath
  <2>4. Way'
    BY <2>1, NodesAssumption DEF Way
  <2> QED BY <2>1, <2>3, <2>4 DEF Carried, Told, Verified
<1>3. CASE TryAgain
  <2>1. Parameters' /\ Way'
    BY <1>3 DEF TryAgain, Parameters, Way
  <2> QED BY <1>3, <2>1 DEF TryAgain, parameters, Way, Carried, Told, Verified
<1>4. CASE Ingress
  <2>1. PICK s \in 0..(prime - 1), err \in BOOLEAN : Process(s, 0, err) /\ secret' = s
    BY <1>4 DEF Ingress
  <2>2. At = 1 /\ At \in Nodes /\ phase' = "walk" /\ At # N /\ phase = "walk"
    BY <1>4, <2>1, NodesAssumption DEF Ingress, Nodes, Process
  <2>3. s \in Int /\ 0 \in Int
    BY <2>2, PathPrime DEF Parameters
  <2> QED BY <2>1, <2>2, <2>3, ProcessStep DEF Verified
<1>5. CASE Middle
  <2>1. PICK err \in BOOLEAN : Process(wire.secret, wire.cml, err)
    BY <1>5 DEF Middle
  <2>2. At # 1 /\ At \in Nodes /\ phase' = "walk" /\ At # N /\ secret' = secret
    BY <1>5, <2>1, NodesAssumption DEF Middle, Nodes, Process
  <2> QED BY <2>1, <2>2, <1>0, ProcessStep DEF Verified
<1>6. CASE Egress
  <2>1. PICK err \in BOOLEAN : Process(wire.secret, wire.cml, err)
    BY <1>6 DEF Egress
  <2>2. At = N /\ At # 1 /\ At \in Nodes /\ phase' = "judged" /\ secret' = secret
    BY <1>6, NodesAssumption DEF Egress, Nodes
  <2>3. Parameters' /\ Way' /\ Carried' /\ Told' /\ wire'.secret = wire.secret
    BY <2>1, <2>2, <1>0, ProcessStep
  <2>4. verdict' = (wire'.cml % prime = wire.secret)
    BY <1>6, <1>0 DEF Egress, ValidatorKey
  <2>5. prime' = prime
    BY <2>1 DEF Process, parameters
  <2> QED BY <2>3, <2>4, <2>5 DEF Verified
<1>7. ASSUME NEW field \in {"cml", "secret"}, Alter(field) PROVE IInv'
  <2>1. /\ phase = "walk" /\ Len(reports) \in Nat /\ Len(reports) > 0
        /\ UNCHANGED <<phase, prime, points, lpcs, secret, reports, verdict, erred>>
        /\ flipped' = flipped \cup {<<Len(reports) + 1, field>>}
    BY <1>7 DEF Alter, At, parameters, Way
  <2>2. PICK v \in Altered : wire' = [wire EXCEPT ![field] = v]
    BY <1>7 DEF Alter
  <2>3. wire' \in Carriers
    BY <2>2, <1>0, AlteredAssumption DEF Carriers, Way
  <2>4. Parameters'
    BY <2>1 DEF Parameters, PrimeOfPath
  <2>5. Way'
    <3>1. Len(reports) + 1 \in 2..N
      BY <2>1, NodesAssumption DEF Way
    <3> QED BY <2>1, <2>3, <3>1 DEF Way
  <2>6. Carried'
    <3>1. field # "cml" => wire'.cml = wire.cml
      BY <2>2, <1>0
    <3>2. field # "secret" => wire'.secret = wire.secret
      BY <2>2, <1>0
    <3> PICK n \in Nat : n = Len(reports)
      BY <2>1
    <3>3. <<n + 1, "cml">> \notin flipped' => field # "cml" /\ <<n + 1, "cml">> \notin flipped
      BY <2>1
    <3>4. SecretKept(n + 1)' => field # "secret" /\ SecretKept(n + 1)
      <4>1. n + 1 \in 1..(n + 1)
        OBVIOUS
      <4> QED BY <2>1, <4>1 DEF SecretKept
    <3> QED BY <3>1, <3>2, <3>3, <3>4, <2>1 DEF Carried
  <2>7. Told'
    <3> SUFFICES ASSUME NEW i \in 1..Len(reports), <<i, "cml">> \notin flipped',
                        SecretKept(i)'
                 PROVE  reports[i] = Share(lpcs, prime, Previous(i), secret, i, i \in erred)
      BY <2>1 DEF Told, Previous
    <3>1. <<i, "cml">> \notin flipped /\ SecretKept(i)
      BY <2>1 DEF SecretKept
    <3> QED BY <3>1 DEF Told
  <2>8. Verified'
    BY <2>1 DEF Verified
  <2> QED BY <2>4, <2>5, <2>6, <2>7, <2>8
<1>8. CASE UNCHANGED vars
  BY <1>8 DEF vars, parameters, Parameters, PrimeOfPath, Way, Carried, SecretKept,
              Told, Previous, Verified
<1> QED BY <1>1, <1>2, <1>3, <1>4, <1>5, <1>6, <1>7, <1>8 DEF Next

-----------------------------------------------------------------------------
(* What the controller concludes *)

\* Honest[0] = 0, and every honest node adds its share of the secret.
LEMMA HonestValues ==
    ASSUME lpcs \in [Nodes -> Int], prime \in Nat \ {0}, secret \in Int
    PROVE  /\ Honest[0] = 0 /\ \A i \in 0..N : Honest[i] \in Int
           /\ \A i \in Nodes :
                Honest[i] = secret * lpcs[i] + (Honest[i - 1] % prime)
<1> DEFINE op == [i \in Nodes |-> [x \in Int |-> secret * lpcs[i] + (x % prime)]]
           H(h) == [i \in 0..N |-> IF i = 0 THEN 0
                                   ELSE CalculateNewCml(h[i - 1], secret, i)]
<1>1. op \in [Nodes -> [Int -> Int]]
  <2>1. \A i \in Nodes, x \in Int : secret * lpcs[i] + (x % prime) \in Int
    OBVIOUS
  <2> QED BY <2>1
<1>2. \A i \in Nodes : i - 1 \in 0..N /\ i \in 0..N /\ i # 0
  BY Before DEF Nodes
<1>3. \A i \in 0..N : i # 0 => i \in Nodes
  BY NodesAssumption DEF Nodes
<1>4. \E h : h = H(h)
  <2>1. PICK h \in [0..N -> Int] : h[0] = 0 /\ \A i \in Nodes : h[i] = op[i][h[i - 1]]
    <3>1. 0 \in Int
      OBVIOUS
    <3> HIDE DEF op
    <3> QED BY <3>1, <1>1, Recursion
  <2>2. ASSUME NEW i \in 0..N
        PROVE  h[i] = IF i = 0 THEN 0 ELSE CalculateNewCml(h[i - 1], secret, i)
    <3>1. CASE i = 0
      BY <3>1, <2>1
    <3>2. CASE i # 0
      <4>1. i \in Nodes /\ h[i - 1] \in Int
        BY <3>2, <1>2, <1>3
      <4>2. h[i] = secret * lpcs[i] + (h[i - 1] % prime)
        BY <4>1, <2>1
      <4>3. CalculateNewCml(h[i - 1], secret, i) = secret * lpcs[i] + (h[i - 1] % prime)
        BY <4>1, ShareOfNode
      <4> QED BY <3>2, <4>2, <4>3
    <3> QED BY <3>1, <3>2
  <2> QED BY <2>2
<1>5. Honest = H(Honest)
  <2>1. Honest = CHOOSE h : h = H(h)
    BY DEF Honest
  <2> HIDE DEF H
  <2> QED BY <1>4, <2>1
<1>6. Honest[0] = 0 /\ \A i \in Nodes : Honest[i] = CalculateNewCml(Honest[i - 1], secret, i)
  <2>1. 0 \in 0..N
    BY NodesAssumption
  <2> QED BY <2>1, <1>2, <1>5
<1>7. ASSUME NEW i \in Nodes, Honest[i - 1] \in Int
      PROVE  Honest[i] \in Int /\ Honest[i] = secret * lpcs[i] + (Honest[i - 1] % prime)
  <2>1. CalculateNewCml(Honest[i - 1], secret, i)
          = secret * lpcs[i] + (Honest[i - 1] % prime)
    BY <1>7, ShareOfNode
  <2> QED BY <2>1, <1>6, <1>7
<1>8. \A i \in 0..N : Honest[i] \in Int
  <2> DEFINE W == {i \in 0..N : Honest[i] \in Int}
  <2>1. 0 \in W
    BY <1>6, NodesAssumption
  <2>2. \A i \in Nodes : i - 1 \in W => i \in W
    BY <1>2, <1>7
  <2>3. 0..N \subseteq W
    <3> HIDE DEF W
    <3> QED BY <2>1, <2>2, Upwards
  <2> QED BY <2>3
<1>9. \A i \in Nodes : Honest[i] = secret * lpcs[i] + (Honest[i - 1] % prime)
  BY <1>2, <1>7, <1>8
<1> QED BY <1>6, <1>8, <1>9

\* What the invariant says when the packet has arrived.
LEMMA Arrived ==
    ASSUME IInv, Judged
    PROVE  /\ Prime(prime) /\ prime \in Nat \ {0} /\ prime \in Int
           /\ lpcs \in [Nodes -> Int] /\ \A i \in Nodes : lpcs[i] \in 0..(prime - 1)
           /\ Cong(Sum(lpcs), 1, prime)
           /\ secret \in 0..(prime - 1) /\ secret \in Int
           /\ \A i \in Nodes : /\ reports[i] \in Int /\ Previous(i) \in Int
                               /\ <<i, "cml">> \notin flipped /\ SecretKept(i) =>
                                    reports[i] = Share(lpcs, prime, Previous(i),
                                                       secret, i, i \in erred)
           /\ wire.cml = reports[N]
           /\ SecretIntact => wire.secret = secret
           /\ verdict = (wire.cml % prime = wire.secret)
<1>1. /\ PrimeOfPath /\ lpcs \in [Nodes -> Int]
      /\ \A i \in Nodes : lpcs[i] \in 0..(prime - 1)
      /\ Cong(Sum(lpcs), 1, prime)
  BY DEF IInv, Parameters, Judged
<1>2. Len(reports) = N /\ reports \in Seq(Int) /\ reports # <<>>
  BY NodesAssumption DEF IInv, Way, Judged
<1>3. secret \in 0..(prime - 1) /\ Prime(prime) /\ prime \in Nat \ {0} /\ prime \in Int
  BY <1>1, <1>2, PathPrime DEF IInv, Way
<1>4. \A i \in Nodes : reports[i] \in Int
  BY <1>2 DEF Nodes
<1>5. \A i \in Nodes : i # 1 => i - 1 \in Nodes
  BY NodesAssumption DEF Nodes
<1>6. \A i \in Nodes : Previous(i) \in Int
  BY <1>4, <1>5 DEF Previous
<1>7. \A i \in Nodes : <<i, "cml">> \notin flipped /\ SecretKept(i) =>
          reports[i] = Share(lpcs, prime, Previous(i), secret, i, i \in erred)
  BY <1>2 DEF IInv, Told, Nodes
<1>8. <<N + 1, "cml">> \notin flipped /\ <<N + 1, "secret">> \notin flipped
  <2>1. N + 1 \notin 2..N
    BY NodesAssumption
  <2> QED BY <2>1 DEF IInv, Way
<1>9. wire.cml = reports[N]
  BY <1>2, <1>8 DEF IInv, Carried
<1>10. SecretIntact => wire.secret = secret
  <2>1. \A j \in 1..(N + 1) : j \in Nodes \/ j = N + 1
    BY NodesAssumption DEF Nodes
  <2>2. SecretIntact => SecretKept(N + 1)
    BY <2>1, <1>8 DEF SecretIntact, SecretKept
  <2> QED BY <2>2, <1>2 DEF IInv, Carried
<1>11. verdict = (wire.cml % prime = wire.secret)
  BY DEF IInv, Verified, Judged
<1>12. secret \in Int
  BY <1>3
<1> QED BY <1>1, <1>3, <1>4, <1>6, <1>7, <1>9, <1>10, <1>11, <1>12

\* The values of honest nodes add up to the secret.
LEMMA HonestAddUp == ASSUME IInv, Judged PROVE Honest[N] % prime = secret
<1>1. /\ Prime(prime) /\ prime \in Nat \ {0} /\ prime \in Int /\ secret \in Int
      /\ lpcs \in [Nodes -> Int] /\ Cong(Sum(lpcs), 1, prime)
      /\ secret \in 0..(prime - 1)
  BY Arrived
<1>2. /\ Honest[0] = 0 /\ \A i \in 0..N : Honest[i] \in Int
      /\ \A i \in Nodes : Honest[i] = secret * lpcs[i] + (Honest[i - 1] % prime)
  BY <1>1, HonestValues
<1> DEFINE x == [i \in Nodes |-> 0]
           h == [i \in 0..N |-> Honest[i]]
<1>3. x \in [Nodes -> Int] /\ \A i \in Nodes : x[i] = 0
  OBVIOUS
<1>4. h \in [0..N -> Int] /\ \A i \in 0..N : h[i] = Honest[i]
  BY <1>2
<1> HIDE DEF x, h
<1>5. ASSUME NEW i \in Nodes PROVE Cong(h[i], h[i - 1] + (secret * lpcs[i] + x[i]), prime)
  <2>1. i - 1 \in 0..N /\ i \in 0..N
    BY Before
  <2>2. h[i - 1] \in Int /\ h[i] = secret * lpcs[i] + (h[i - 1] % prime)
    BY <2>1, <1>2, <1>4
  <2>3. /\ h[i - 1] + 0 = h[i - 1] /\ secret * lpcs[i] \in Int
        /\ x[i] = 0 /\ 0 \in Int
    BY <2>2, <1>1, <1>3
  <2>4. h[i] = secret * lpcs[i] + ((h[i - 1] + 0) % prime)
    BY <2>2, <2>3
  <2> QED BY <2>2, <2>3, <2>4, <1>1, GrowsByShare
<1>6. N \in Nodes /\ 0 \in 0..N /\ N \in 0..N
  BY NodesAssumption DEF Nodes
<1>7. \A i \in Nodes \ {N} : x[i] = 0
  BY <1>3
<1>8. h[0] = 0
  BY <1>2, <1>4, <1>6
<1>9. Cong(h[N], secret + x[N], prime)
  BY <1>1, <1>3, <1>4, <1>5, <1>6, <1>7, <1>8, Accumulated
<1>10. secret + x[N] = secret /\ h[N] = Honest[N] /\ Honest[N] \in Int
  BY <1>1, <1>2, <1>3, <1>4, <1>6
<1>11. Honest[N] % prime = secret % prime
  BY <1>1, <1>9, <1>10, CongMods
<1> QED BY <1>1, <1>11

\* locate_error names the first report that is not what it should be.
LEMMA FirstDeviating ==
    /\ LocateError = None <=> Deviating = {}
    /\ LocateError # None =>
          /\ LocateError \in Nodes /\ Honest[LocateError] # reports[LocateError]
          /\ \A j \in Nodes : j < LocateError => Honest[j] = reports[j]
<1>1. Deviating \subseteq Nat /\ Deviating \subseteq Nodes
  BY NodesAssumption DEF Deviating, Nodes
<1>2. CASE Deviating = {}
  BY <1>2 DEF LocateError
<1>3. CASE Deviating # {}
  <2>1. \E n \in Deviating : \A m \in Deviating : n <= m
    BY <1>1, <1>3, LeastNumber
  <2>2. LocateError = CHOOSE x \in Deviating : \A y \in Deviating : x <= y
    BY <1>3 DEF LocateError, Min
  <2>3. LocateError \in Deviating /\ \A m \in Deviating : LocateError <= m
    BY <2>1, <2>2
  <2>4. LocateError # None
    BY <2>3, <1>1, NoneAssumption
  <2>5. ASSUME NEW j \in Nodes, j < LocateError PROVE Honest[j] = reports[j]
    <3>1. j \in Nat /\ LocateError \in Nat /\ ~(LocateError <= j)
      BY <2>3, <2>5, <1>1, NodesAssumption DEF Nodes
    <3> QED BY <2>3, <3>1 DEF Deviating
  <2> QED BY <1>3, <2>3, <2>4, <2>5 DEF Deviating
<1> QED BY <1>2, <1>3

\* A node that came to no harm, behind nodes whose reports are right, reports
\* the right value.
LEMMA HonestNode ==
    ASSUME IInv, Judged, NEW i \in Nodes, ~FaultAt(i), SecretKept(i),
           i # 1 => reports[i - 1] = Honest[i - 1]
    PROVE  reports[i] = Honest[i]
<1>1. /\ lpcs \in [Nodes -> Int] /\ prime \in Nat \ {0} /\ secret \in Int
      /\ reports[i] = Share(lpcs, prime, Previous(i), secret, i, i \in erred)
  BY Arrived DEF FaultAt
<1>2. reports[i] = secret * lpcs[i] + (Previous(i) % prime)
  BY <1>1 DEF Share, FaultAt
<1>3. /\ Honest[i] = secret * lpcs[i] + (Honest[i - 1] % prime)
      /\ Honest[0] = 0
  BY <1>1, HonestValues
<1>4. Previous(i) = Honest[i - 1]
  <2>1. CASE i = 1
    <3>1. i - 1 = 0
      BY <2>1
    <3> QED BY <2>1, <3>1, <1>3 DEF Previous
  <2>2. CASE i # 1
    BY <2>2 DEF Previous
  <2> QED BY <2>1, <2>2
<1> QED BY <1>2, <1>3, <1>4

LEMMA RightReportVerifies ==
    ASSUME IInv, Judged, SecretIntact, reports[N] = Honest[N]
    PROVE  verdict
<1>1. wire.cml = reports[N] /\ wire.secret = secret
      /\ verdict = (wire.cml % prime = wire.secret)
  BY Arrived
<1> QED BY <1>1, HonestAddUp

LEMMA Unaltered == IInv => UnalteredVerifies
<1> SUFFICES ASSUME IInv, Judged, erred = {}, flipped = {}
             PROVE  verdict /\ LocateError = None
  BY DEF UnalteredVerifies
<1> DEFINE W == {i \in 0..N : i # 0 => reports[i] = Honest[i]}
<1>1. 0 \in W
  BY NodesAssumption
<1>2. ASSUME NEW i \in Nodes, i - 1 \in W PROVE i \in W
  <2>1. i \in 0..N /\ (i # 1 => i - 1 # 0)
    BY Before DEF Nodes
  <2>2. ~FaultAt(i) /\ SecretKept(i)
    BY DEF FaultAt, SecretKept
  <2>3. i # 1 => reports[i - 1] = Honest[i - 1]
    BY <1>2, <2>1
  <2> QED BY <2>1, <2>2, <2>3, HonestNode
<1>3. 0..N \subseteq W
  <2> HIDE DEF W
  <2> QED BY <1>1, <1>2, Upwards
<1>4. \A i \in Nodes : reports[i] = Honest[i]
  <2>1. \A i \in Nodes : i \in 0..N /\ i # 0
    BY Before DEF Nodes
  <2> QED BY <1>3, <2>1
<1>5. Deviating = {}
  BY <1>4 DEF Deviating
<1>6. N \in Nodes /\ SecretIntact
  BY NodesAssumption DEF Nodes, SecretIntact
<1>7. verdict
  BY <1>4, <1>6, RightReportVerifies
<1> QED BY <1>5, <1>7, FirstDeviating

LEMMA Rejected == IInv => RejectedIsLocated
<1> SUFFICES ASSUME IInv, Judged, ~verdict, SecretIntact, LocateError = None
             PROVE  FALSE
  BY DEF RejectedIsLocated
<1>1. N \in Nodes /\ Deviating = {}
  BY NodesAssumption, FirstDeviating DEF Nodes
<1>2. reports[N] = Honest[N]
  BY <1>1 DEF Deviating
<1> QED BY <1>2, RightReportVerifies

LEMMA Founded == IInv => BlameIsFounded
<1> SUFFICES ASSUME IInv, Judged, LocateError # None, ~FaultAt(LocateError),
                    SecretKept(LocateError)
             PROVE  FALSE
  BY DEF BlameIsFounded, SecretKept
<1>1. PICK i \in Nodes : i = LocateError
  BY FirstDeviating
<1>2. Honest[i] # reports[i] /\ \A j \in Nodes : j < i => Honest[j] = reports[j]
  BY <1>1, FirstDeviating
<1>3. i # 1 => i - 1 \in Nodes /\ i - 1 < i
  BY NodesAssumption DEF Nodes
<1>4. i # 1 => reports[i - 1] = Honest[i - 1]
  BY <1>2, <1>3
<1> QED BY <1>1, <1>2, <1>4, HonestNode

\* One random error moves the last value by the coefficient and one.
LEMMA OneErrorMoves ==
    ASSUME IInv, Judged, NEW a \in Nodes, erred = {a}, flipped = {}
    PROVE  /\ Cong(wire.cml, secret + (lpcs[a] + 1), prime)
           /\ wire.cml \in Int
<1>1. /\ Prime(prime) /\ prime \in Nat \ {0} /\ prime \in Int /\ secret \in Int
      /\ lpcs \in [Nodes -> Int] /\ Cong(Sum(lpcs), 1, prime)
      /\ wire.cml = reports[N]
      /\ \A i \in Nodes : reports[i] \in Int /\ Previous(i) \in Int
  BY Arrived
<1>2. ASSUME NEW i \in Nodes
      PROVE  reports[i] = Share(lpcs, prime, Previous(i), secret, i, i = a)
  <2>1. <<i, "cml">> \notin flipped /\ SecretKept(i) /\ (i \in erred) = (i = a)
    BY DEF SecretKept
  <2>2. reports[i] = Share(lpcs, prime, Previous(i), secret, i, i \in erred)
    BY <2>1, Arrived
  <2> QED BY <2>1, <2>2
<1> DEFINE x == [i \in Nodes |-> IF i = a THEN lpcs[a] + 1 ELSE 0]
           h == [i \in 0..N |-> IF i = 0 THEN 0 ELSE reports[i]]
<1>3. x \in [Nodes -> Int] /\ x[a] = lpcs[a] + 1 /\ \A i \in Nodes \ {a} : x[i] = 0
  BY <1>1
<1>4. \A i \in Nodes : i - 1 \in 0..N /\ i \in 0..N /\ i # 0 /\ (i # 1 => i - 1 # 0)
  BY Before DEF Nodes
<1>5. \A i \in 0..N : i # 0 => i \in Nodes
  BY DEF Nodes
<1>6. h \in [0..N -> Int] /\ h[0] = 0
  BY <1>1, <1>5, NodesAssumption
<1>7. \A i \in Nodes : h[i] = reports[i] /\ h[i - 1] = Previous(i)
  <2> SUFFICES ASSUME NEW i \in Nodes PROVE h[i] = reports[i] /\ h[i - 1] = Previous(i)
    OBVIOUS
  <2>1. h[i] = reports[i]
    BY <1>4
  <2>2. CASE i = 1
    BY <2>1, <2>2, <1>6 DEF Previous
  <2>3. CASE i # 1
    BY <2>1, <2>3, <1>4 DEF Previous
  <2> QED BY <2>1, <2>2, <2>3
<1> HIDE DEF x, h
<1>8. ASSUME NEW i \in Nodes PROVE Cong(h[i], h[i - 1] + (secret * lpcs[i] + x[i]), prime)
  <2> DEFINE b == h[i - 1]
             c == IF i = a THEN (secret + 1) * lpcs[i] ELSE secret * lpcs[i]
             e == IF i = a THEN 1 ELSE 0
  <2>1. b \in Int /\ lpcs[i] \in Int /\ secret * lpcs[i] \in Int
    BY <1>1, <1>7
  <2>2. c \in Int /\ e \in Int
    BY <2>1, <1>1
  <2>3. h[i] = c + ((b + e) % prime)
    <3>1. b + 0 = b
      BY <2>1
    <3> QED BY <3>1, <1>2, <1>7 DEF Share
  <2>4. c + e = secret * lpcs[i] + x[i]
    <3>1. (secret + 1) * lpcs[i] = secret * lpcs[i] + lpcs[i]
      <4>1. 1 \in Int /\ 1 * lpcs[i] = lpcs[i]
        BY <2>1
      <4> QED BY <4>1, <2>1, <1>1, Distribute
    <3> QED BY <3>1, <2>1, <1>3
  <2>5. Cong(h[i], b + (c + e), prime)
    <3> HIDE DEF b, c, e
    <3> QED BY <2>1, <2>2, <2>3, <1>1, GrowsByShare
  <2> QED BY <2>4, <2>5
<1>9. N \in Nodes
  BY NodesAssumption DEF Nodes
<1>10. Cong(h[N], secret + x[a], prime)
  BY <1>1, <1>3, <1>6, <1>8, Accumulated
<1> QED BY <1>1, <1>3, <1>7, <1>9, <1>10

LEMMA SingleError == IInv => SingleErrorIsCaught
<1> SUFFICES ASSUME IInv, Judged, NEW a \in Nodes, erred = {a}, flipped = {}
             PROVE  verdict <=> lpcs[a] = prime - 1
  BY DEF SingleErrorIsCaught
<1>1. /\ prime \in Nat \ {0} /\ prime \in Int /\ secret \in 0..(prime - 1)
      /\ lpcs[a] \in 0..(prime - 1) /\ lpcs[a] \in Int
      /\ SecretIntact => wire.secret = secret
      /\ verdict = (wire.cml % prime = wire.secret)
  BY Arrived
<1>2. SecretIntact
  BY DEF SecretIntact
<1>3. wire.cml % prime = (secret + (lpcs[a] + 1)) % prime
  <2>1. secret + (lpcs[a] + 1) \in Int
    BY <1>1
  <2> QED BY <2>1, <1>1, OneErrorMoves, CongMods
<1>4. secret = secret % prime
  BY <1>1
<1>5. CASE lpcs[a] = prime - 1
  <2>1. secret + (lpcs[a] + 1) = secret + prime
    BY <1>5, <1>1
  <2>2. (secret + prime) - secret = 1 * prime /\ secret + prime \in Int /\ secret \in Int
    BY <1>1
  <2>3. Cong(secret + prime, secret, prime)
    BY <2>2 DEF Cong
  <2>4. (secret + prime) % prime = secret % prime
    BY <2>2, <2>3, <1>1, CongMods
  <2> QED BY <2>1, <2>4, <1>1, <1>2, <1>3, <1>4, <1>5
<1>6. CASE lpcs[a] # prime - 1
  <2> SUFFICES ASSUME (secret + (lpcs[a] + 1)) % prime = secret % prime PROVE FALSE
    BY <1>1, <1>2, <1>3, <1>4, <1>6
  <2>1. secret + (lpcs[a] + 1) \in Int /\ secret \in Int /\ lpcs[a] + 1 \in 0..(prime - 1)
        /\ 0 \in 0..(prime - 1) /\ lpcs[a] + 1 \in Int
    <3> DEFINE l == lpcs[a]
    <3>1. l \in 0..(prime - 1) /\ l # prime - 1 /\ l \in Int
      BY <1>1, <1>6
    <3> HIDE DEF l
    <3>2. l + 1 \in 0..(prime - 1) /\ l + 1 \in Int /\ 0 \in 0..(prime - 1)
      BY <3>1, <1>1
    <3>3. secret \in Int /\ secret + (l + 1) \in Int
      BY <3>2, <1>1
    <3> QED BY <3>2, <3>3 DEF l
  <2>2. Cong(secret + (lpcs[a] + 1), secret, prime)
    BY <2>1, <1>1, CongMods
  <2>3. PICK k \in Int : (secret + (lpcs[a] + 1)) - secret = k * prime
    BY <2>2 DEF Cong
  <2>4. (lpcs[a] + 1) - 0 = k * prime
    <3>1. (secret + (lpcs[a] + 1)) - secret = (lpcs[a] + 1) - 0
      BY <2>1
    <3> QED BY <3>1, <2>3
  <2>5. Cong(lpcs[a] + 1, 0, prime)
    BY <2>4 DEF Cong
  <2>6. lpcs[a] + 1 = 0
    BY <2>1, <2>5, <1>1, CongUnique
  <2> QED BY <2>6, <1>1
<1> QED BY <1>5, <1>6

-----------------------------------------------------------------------------
(***************************************************************************)
(* The parameters the controller hands out and the values on the way are   *)
(* right in every reachable state: the coefficients add up to 1, and every *)
(* report is the share or the error of its node.                           *)
(***************************************************************************)
THEOREM WayIsRight == Spec => []IInv
  BY StartHolds, StepHolds, PTL DEF Spec

(***************************************************************************)
(* A packet that nobody altered verifies, and locate_error finds nothing,  *)
(* for every number of nodes, every prime and every draw of points and     *)
(* secret.                                                                 *)
(***************************************************************************)
THEOREM UnalteredHolds == Spec => []UnalteredVerifies
  BY WayIsRight, Unaltered, PTL

(***************************************************************************)
(* A single random error is caught unless the coefficient of the node is   *)
(* the prime minus one.                                                    *)
(***************************************************************************)
THEOREM SingleErrorHolds == Spec => []SingleErrorIsCaught
  BY WayIsRight, SingleError, PTL

(***************************************************************************)
(* locate_error names a node whenever a packet is rejected whose secret    *)
(* was not altered.                                                        *)
(***************************************************************************)
THEOREM RejectedHolds == Spec => []RejectedIsLocated
  BY WayIsRight, Rejected, PTL

(***************************************************************************)
(* The node locate_error names had a fault, or the secret was altered      *)
(* before.                                                                 *)
(***************************************************************************)
THEOREM BlameHolds == Spec => []BlameIsFounded
  BY WayIsRight, Founded, PTL
=============================================================================
