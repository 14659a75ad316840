---------------------------- MODULE ArrayProxy_proofs ----------------------------
(***************************************************************************)
(* A JavaScript Array as a Python list (ArrayProxy) meets the promises of  *)
(* Python's list (ListStandard), for every array, every index, slice and   *)
(* operand.  For each operation there is a lemma ...Answers, which rests   *)
(* on lemmas about the places a slice takes, the loops that walk them, and *)
(* the one arrangement a sort can end in; the invariant joins them.        *)
(***************************************************************************)
EXTENDS ArrayProxy, SequenceTheorems, FiniteSetTheorems, WellFoundedInduction, TLAPS

-----------------------------------------------------------------------------
(* Induction, loops, counting, and sequences.                              *)

\* A set of natural numbers that is not empty has a least element.
LEMMA LeastNat ==
    ASSUME NEW T, T \subseteq Nat, T # {}
    PROVE  \E x \in T : \A y \in T : x <= y
<1> DEFINE R == OpToRel(<, Nat)
<1>0. IsWellFoundedOn(R, Nat)
  BY NatLessThanWellFounded
<1> HIDE DEF R
<1>1. \E x \in T : \A y \in T : ~(<<y, x>> \in R)
  BY <1>0, WFMin
<1>2. \A x, y \in Nat : x < y => <<x, y>> \in R
  BY DEF R, OpToRel
<1>3. PICK x \in T : \A y \in T : ~(<<y, x>> \in R)
  BY <1>1
<1>4. ASSUME NEW y \in T PROVE x <= y
  <2>1. x \in Nat /\ y \in Nat
    OBVIOUS
  <2>2. ~(y < x)
    BY <1>2, <1>3, <2>1
  <2> QED BY <2>1, <2>2
<1> QED BY <1>4

\* A set that holds 0 and the successor of each of its numbers holds them all.
LEMMA NatInd ==
    ASSUME NEW T, 0 \in T, \A n \in Nat : n \in T => n + 1 \in T
    PROVE  Nat \subseteq T
<1> SUFFICES ASSUME Nat \ T # {}
             PROVE  FALSE
  OBVIOUS
<1>1. PICK x \in Nat \ T : \A y \in Nat \ T : x <= y
  BY LeastNat
<1>2. x # 0 /\ x - 1 \in Nat
  BY <1>1
<1>3. x - 1 \in T
  BY <1>1, <1>2
<1>4. x - 1 + 1 \in T
  BY <1>2, <1>3
<1> QED BY <1>1, <1>4, <1>2

\* Step k leads from D[k - 1] into D[k].
Leads(n, D, G) == \A k \in 1..n : \A g \in D[k - 1] : G[k][g] \in D[k]
\* f goes from h by the steps.
Path(f, n, h, G) == f = [k \in 0..n |-> IF k = 0 THEN h ELSE G[k][f[k - 1]]]
Stays(f, n, D) == \A k \in 0..n : f[k] \in D[k]

LEMMA LoopExists ==
    ASSUME NEW n \in Nat, NEW h, NEW D, NEW G, h \in D[0], Leads(n, D, G)
    PROVE  \E f : Path(f, n, h, G) /\ Stays(f, n, D)
<1> DEFINE Course(f, m) == /\ f = [k \in 0..m |-> IF k = 0 THEN h ELSE G[k][f[k - 1]]]
                           /\ \A k \in 0..m : f[k] \in D[k]
           T == {m \in Nat : m <= n => \E f : Course(f, m)}
<1>1. 0 \in T
  <2> DEFINE f == [k \in 0..0 |-> h]
  <2>1. f = [k \in 0..0 |-> IF k = 0 THEN h ELSE G[k][f[k - 1]]]
    OBVIOUS
  <2>2. \A k \in 0..0 : f[k] \in D[k]
    OBVIOUS
  <2> QED BY <2>1, <2>2
<1>2. ASSUME NEW m \in Nat, m \in T PROVE m + 1 \in T
  <2> SUFFICES ASSUME m + 1 <= n
               PROVE  \E f : Course(f, m + 1)
    OBVIOUS
  <2>1. PICK f : Course(f, m)
    BY <1>2
  <2> DEFINE g == [k \in 0..(m + 1) |-> IF k <= m THEN f[k] ELSE G[m + 1][f[m]]]
  <2>2. g = [k \in 0..(m + 1) |-> IF k = 0 THEN h ELSE G[k][g[k - 1]]]
    <3>1. f[0] = h /\ \A k \in 1..m : f[k] = G[k][f[k - 1]]
      BY <2>1
    <3>2. /\ g = [k \in 0..(m + 1) |-> g[k]]
          /\ \A k \in 0..m : g[k] = f[k]
          /\ g[m + 1] = G[m + 1][f[m]]
      OBVIOUS
    <3> HIDE DEF g
    <3>3. ASSUME NEW k \in 0..(m + 1) PROVE g[k] = IF k = 0 THEN h ELSE G[k][g[k - 1]]
      <4>1. CASE k = 0
        <5>1. k \in 0..m /\ f[k] = h
          BY <3>1, <4>1
        <5>2. g[k] = h
          BY <3>2, <5>1
        <5> QED BY <4>1, <5>2
      <4>2. CASE k \in 1..m
        <5>1. k \in 0..m /\ k - 1 \in 0..m /\ k # 0
          BY <4>2
        <5> QED BY <3>1, <3>2, <4>2, <5>1
      <4>3. CASE k = m + 1
        <5>1. k # 0 /\ k - 1 = m /\ m \in 0..m
          BY <4>3
        <5>2. g[m] = f[m]
          BY <3>2, <5>1
        <5> QED BY <3>2, <4>3, <5>1, <5>2
      <4> QED BY <4>1, <4>2, <4>3
    <3> QED BY <3>2, <3>3
  <2>3. \A k \in 0..(m + 1) : g[k] \in D[k]
    <3>1. m + 1 \in 1..n /\ f[m] \in D[(m + 1) - 1]
      BY <2>1
    <3>2. G[m + 1][f[m]] \in D[m + 1]
      BY <3>1 DEF Leads
    <3> QED BY <2>1, <3>2
  <2>4. Course(g, m + 1)
    BY <2>2, <2>3
  <2> HIDE DEF g, Course
  <2> QED BY <2>4
<1>3. n \in T
  <2> HIDE DEF T
  <2> QED BY <1>1, <1>2, NatInd
<1> QED BY <1>3 DEF Path, Stays

\* The least and the greatest of some places.
LEMMA MinFacts ==
    ASSUME NEW T, T \subseteq Nat, T # {}
    PROVE  Min(T) \in T /\ \A y \in T : Min(T) <= y
<1>1. \E x \in T : \A y \in T : x <= y
  BY LeastNat
<1> QED BY <1>1 DEF Min

LEMMA MaxFacts ==
    ASSUME NEW n \in Nat, NEW T, T \subseteq 0..n, T # {}
    PROVE  Max(T) \in T /\ \A y \in T : y <= Max(T)
<1> DEFINE U == {n - x : x \in T}
<1>1. U \subseteq Nat /\ U # {}
  OBVIOUS
<1>2. PICK u \in U : \A y \in U : u <= y
  <2> HIDE DEF U
  <2> QED BY <1>1, LeastNat
<1>3. PICK x \in T : u = n - x
  OBVIOUS
<1>4. ASSUME NEW y \in T PROVE y <= x
  <2>1. n - y \in U
    OBVIOUS
  <2>2. n - x <= n - y /\ x \in Int /\ y \in Int
    BY <1>2, <1>3, <2>1
  <2> QED BY <2>2
<1>5. \E z \in T : \A y \in T : y <= z
  BY <1>4
<1> QED BY <1>5 DEF Max

-----------------------------------------------------------------------------
(* The elements of an array, counted from 0.                               *)

Arrays == Seq(Items)
\* The places of a.
Spots(a) == 0..(Len(a) - 1)

LEMMA ElementFacts ==
    ASSUME NEW a \in Arrays
    PROVE  /\ Len(a) \in Nat /\ DOMAIN a = 1..Len(a)
           /\ \A i \in Int : GetElement(a, i) \in Items
           /\ \A i \in Spots(a) : GetElement(a, i) = a[i + 1] /\ i \in Nat
           /\ \A i \in 1..Len(a) : a[i] = GetElement(a, i - 1) /\ a[i] \in Items
<1>1. Len(a) \in Nat /\ DOMAIN a = 1..Len(a) /\ \A i \in 1..Len(a) : a[i] \in Items
  BY DEF Arrays
<1>2. None \in Items
  BY ArrayAssumption
<1>3. ASSUME NEW i \in Int PROVE GetElement(a, i) \in Items
  <2>1. CASE i \in 0..(Len(a) - 1)
    <3>1. i + 1 \in 1..Len(a)
      BY <1>1, <2>1
    <3> QED BY <1>1, <2>1, <3>1 DEF GetElement
  <2>2. CASE i \notin 0..(Len(a) - 1)
    BY <1>2, <2>2 DEF GetElement
  <2> QED BY <2>1, <2>2
<1>4. ASSUME NEW i \in 1..Len(a) PROVE a[i] = GetElement(a, i - 1)
  <2>1. i - 1 \in 0..(Len(a) - 1) /\ (i - 1) + 1 = i
    BY <1>1
  <2> QED BY <2>1 DEF GetElement
<1> QED BY <1>1, <1>3, <1>4 DEF GetElement, Spots

\* Arrays with the same elements are the same.
LEMMA SameArray ==
    ASSUME NEW a \in Arrays, NEW b \in Arrays, Len(a) = Len(b),
           \A i \in Spots(a) : GetElement(a, i) = GetElement(b, i)
    PROVE  a = b
<1>1. Len(a) \in Nat
  BY ElementFacts
<1>2. ASSUME NEW i \in 1..Len(a) PROVE a[i] = b[i]
  <2>1. i - 1 \in Spots(a)
    BY <1>1 DEF Spots
  <2>2. a[i] = GetElement(a, i - 1) /\ b[i] = GetElement(b, i - 1)
    BY ElementFacts
  <2> QED BY <2>1, <2>2
<1>3. a \in Seq(Items) /\ b \in Seq(Items)
  BY DEF Arrays
<1> QED BY <1>2, <1>3, SeqEqual

\* A function on 1..n that holds items is an array.
LEMMA ArrayOf ==
    ASSUME NEW n \in Nat, NEW f, f = [k \in 1..n |-> f[k]], \A k \in 1..n : f[k] \in Items
    PROVE  /\ f \in Arrays /\ Len(f) = n
           /\ \A i \in 0..(n - 1) : GetElement(f, i) = f[i + 1]
<1>1. f \in [1..n -> Items]
  BY SMT
<1>2. f \in Arrays /\ Len(f) = n
  BY <1>1, SeqDef, LenProperties DEF Arrays
<1> QED BY <1>2, ElementFacts DEF Spots

LEMMA ResizeFacts ==
    ASSUME NEW a \in Arrays, NEW n \in Nat
    PROVE  /\ SetArrayLength(a, n) \in Arrays /\ Len(SetArrayLength(a, n)) = n
           /\ \A i \in 0..(n - 1) : GetElement(SetArrayLength(a, n), i) = GetElement(a, i)
<1> DEFINE b == SetArrayLength(a, n)
<1>1. b = [k \in 1..n |-> b[k]] /\ \A k \in 1..n : b[k] = IF k <= Len(a) THEN a[k] ELSE None
  BY DEF SetArrayLength
<1> HIDE DEF b
<1>2. ASSUME NEW k \in 1..n PROVE b[k] \in Items /\ b[k] = GetElement(a, k - 1)
  <2>1. CASE k <= Len(a)
    <3>1. k \in 1..Len(a)
      BY <2>1, ElementFacts
    <3> QED BY <1>1, <2>1, <3>1, ElementFacts
  <2>2. CASE ~(k <= Len(a))
    <3>1. k - 1 \notin 0..(Len(a) - 1) /\ None \in Items
      BY <2>2, ElementFacts, ArrayAssumption
    <3> QED BY <1>1, <2>2, <3>1 DEF GetElement
  <2> QED BY <2>1, <2>2
<1>3. b \in Arrays /\ Len(b) = n /\ \A i \in 0..(n - 1) : GetElement(b, i) = b[i + 1]
  BY <1>1, <1>2, ArrayOf
<1>4. \A i \in 0..(n - 1) : GetElement(b, i) = GetElement(a, i)
  <2> TAKE i \in 0..(n - 1)
  <2>1. i + 1 \in 1..n /\ (i + 1) - 1 = i
    OBVIOUS
  <2> QED BY <1>2, <1>3, <2>1
<1> QED BY <1>3, <1>4 DEF b

\* An element inside of the array is set.
LEMMA SetFacts ==
    ASSUME NEW a \in Arrays, NEW i \in Spots(a), NEW v \in Items
    PROVE  /\ SetElement(a, i, v) \in Arrays /\ Len(SetElement(a, i, v)) = Len(a)
           /\ \A j \in Spots(a) : GetElement(SetElement(a, i, v), j) = IF j = i THEN v ELSE GetElement(a, j)
<1>1. Len(a) \in Nat /\ i \in Int /\ 0 <= i /\ i < Len(a)
  BY ElementFacts DEF Spots
<1>2. Most(Len(a), i + 1) = Len(a)
  BY <1>1 DEF Most
<1> DEFINE c == SetArrayLength(a, Len(a))
           b == SetElement(a, i, v)
           n == Len(a)
<1>3. c \in Arrays /\ Len(c) = n /\ \A j \in 0..(n - 1) : GetElement(c, j) = GetElement(a, j)
  BY <1>1, ResizeFacts
<1>4. b = [c EXCEPT ![i + 1] = v]
  BY <1>2 DEF SetElement
<1> HIDE DEF c
<1>5. c \in [1..n -> Items]
  BY <1>3, ElementFacts DEF Arrays
<1>6. b = [k \in 1..n |-> b[k]] /\ \A k \in 1..n : b[k] = IF k = i + 1 THEN v ELSE c[k]
  BY <1>4, <1>5
<1> HIDE DEF b
<1>7. \A k \in 1..n : b[k] \in Items
  BY <1>5, <1>6
<1>8. b \in Arrays /\ Len(b) = n /\ \A j \in 0..(n - 1) : GetElement(b, j) = b[j + 1]
  BY <1>1, <1>6, <1>7, ArrayOf
<1>9. \A j \in Spots(a) : GetElement(b, j) = IF j = i THEN v ELSE GetElement(a, j)
  <2> TAKE j \in Spots(a)
  <2>1. j \in 0..(n - 1) /\ j + 1 \in 1..n /\ (j + 1 = i + 1 <=> j = i) /\ j \in Spots(c)
    BY <1>1, <1>3 DEF Spots
  <2>2. GetElement(c, j) = c[j + 1]
    BY <1>3, <2>1, ElementFacts
  <2> QED BY <1>3, <1>6, <1>8, <2>1, <2>2
<1> QED BY <1>8, <1>9 DEF b

LEMMA CutFacts ==
    ASSUME NEW a \in Arrays, NEW p \in Int, NEW q \in Int, 0 <= p, p <= q, q <= Len(a)
    PROVE  /\ SubSeq(a, p + 1, q) \in Arrays /\ Len(SubSeq(a, p + 1, q)) = q - p
           /\ \A i \in 0..(q - p - 1) : GetElement(SubSeq(a, p + 1, q), i) = GetElement(a, p + i)
<1> DEFINE b == SubSeq(a, p + 1, q)
<1>1. Len(a) \in Nat /\ a \in Seq(Items)
  BY ElementFacts DEF Arrays
<1>2. q - p \in Nat
  OBVIOUS
<1>3. b = [k \in 1..(q - p) |-> a[p + k]]
  <2>1. 1..(q - (p + 1) + 1) = 1..(q - p) /\ \A k \in 1..(q - p) : (p + 1) + k - 1 = p + k
    OBVIOUS
  <2>2. b = [k \in 1..(q - (p + 1) + 1) |-> a[(p + 1) + k - 1]]
    BY <1>1
  <2> QED BY <2>1, <2>2
<1> HIDE DEF b
<1>4. \A k \in 1..(q - p) : b[k] = GetElement(a, p + k - 1) /\ b[k] \in Items
  <2> TAKE k \in 1..(q - p)
  <2>1. p + k \in 1..Len(a)
    BY <1>1
  <2> QED BY <1>3, <2>1, ElementFacts
<1>5. b \in Arrays /\ Len(b) = q - p /\ \A i \in 0..(q - p - 1) : GetElement(b, i) = b[i + 1]
  BY <1>2, <1>3, <1>4, ArrayOf
<1>6. \A i \in 0..(q - p - 1) : GetElement(b, i) = GetElement(a, p + i)
  <2> TAKE i \in 0..(q - p - 1)
  <2>1. i + 1 \in 1..(q - p) /\ p + (i + 1) - 1 = p + i
    OBVIOUS
  <2> QED BY <1>4, <1>5, <2>1
<1> QED BY <1>5, <1>6 DEF b

LEMMA JoinFacts ==
    ASSUME NEW a \in Arrays, NEW b \in Arrays
    PROVE  /\ a \o b \in Arrays /\ Len(a \o b) = Len(a) + Len(b)
           /\ \A i \in 0..(Len(a) + Len(b) - 1) :
                 GetElement(a \o b, i) = IF i < Len(a) THEN GetElement(a, i) ELSE GetElement(b, i - Len(a))
<1>1. Len(a) \in Nat /\ Len(b) \in Nat /\ a \in Seq(Items) /\ b \in Seq(Items)
  BY ElementFacts DEF Arrays
<1> DEFINE c == a \o b
           n == Len(a) + Len(b)
<1>2. c \in Seq(Items) /\ Len(c) = n /\ \A k \in 1..n : c[k] = IF k <= Len(a) THEN a[k] ELSE b[k - Len(a)]
  BY <1>1, ConcatProperties
<1> HIDE DEF c
<1>3. c \in Arrays /\ Spots(c) = 0..(n - 1)
  BY <1>2 DEF Arrays, Spots
<1>4. ASSUME NEW i \in 0..(n - 1)
      PROVE  GetElement(c, i) = IF i < Len(a) THEN GetElement(a, i) ELSE GetElement(b, i - Len(a))
  <2>1. i + 1 \in 1..n /\ GetElement(c, i) = c[i + 1]
    <3>1. i \in Spots(c)
      BY <1>3
    <3> HIDE DEF n
    <3>2. i \in 0..(n - 1) /\ n \in Nat
      BY <1>1 DEF n
    <3> QED BY <1>3, <3>1, <3>2, ElementFacts
  <2>2. CASE i < Len(a)
    <3>1. i \in Spots(a) /\ i + 1 <= Len(a)
      BY <1>1, <2>2 DEF Spots
    <3>2. GetElement(a, i) = a[i + 1]
      BY <3>1, ElementFacts
    <3> QED BY <1>2, <2>1, <2>2, <3>1, <3>2
  <2>3. CASE ~(i < Len(a))
    <3>1. i - Len(a) \in Spots(b) /\ ~(i + 1 <= Len(a)) /\ (i + 1) - Len(a) = (i - Len(a)) + 1
      BY <1>1, <2>3 DEF Spots
    <3>2. GetElement(b, i - Len(a)) = b[(i - Len(a)) + 1]
      BY <3>1, ElementFacts
    <3> QED BY <1>2, <2>1, <2>3, <3>1, <3>2
  <2> QED BY <2>2, <2>3
<1> QED BY <1>2, <1>3, <1>4 DEF c

-----------------------------------------------------------------------------
(* The loops that move elements and that store them.                       *)

\* The places that a loop counts.
LEMMA UptoFacts ==
    ASSUME NEW p \in Int, NEW q \in Int, p <= q
    PROVE  /\ Len(Upto(p, q)) = q - p
           /\ \A k \in 1..(q - p) : Upto(p, q)[k] = p + k - 1
<1>1. Most(0, q - p) = q - p /\ q - p \in Nat
  BY DEF Most
<1>2. Upto(p, q) = [k \in 1..(q - p) |-> p + k - 1]
  BY <1>1 DEF Upto
<1> DEFINE u == [k \in 1..(q - p) |-> p + k - 1]
<1>3. u \in [1..(q - p) -> Int] /\ \A k \in 1..(q - p) : u[k] = p + k - 1
  OBVIOUS
<1> HIDE DEF u
<1>4. u \in Seq(Int) /\ Len(u) = q - p
  BY <1>1, <1>3, SeqDef, LenProperties
<1> QED BY <1>2, <1>3, <1>4 DEF u

LEMMA UptoNone ==
    ASSUME NEW p \in Int, NEW q \in Int, q <= p
    PROVE  Len(Upto(p, q)) = 0
<1>1. Most(0, q - p) = 0
  BY DEF Most
<1>2. Upto(p, q) = [k \in 1..0 |-> p + k - 1]
  BY <1>1 DEF Upto
<1> DEFINE u == [k \in 1..0 |-> p + k - 1]
<1>3. u \in [1..0 -> Int]
  OBVIOUS
<1> HIDE DEF u
<1>4. u \in Seq(Int) /\ Len(u) = 0
  BY <1>3, SeqDef, LenProperties
<1> QED BY <1>2, <1>4 DEF u

\* What every step keeps holds after every step.
LEMMA LoopKeeps ==
    ASSUME NEW n \in Nat, NEW f, NEW D, f[0] \in D[0],
           \A k \in 1..n : f[k - 1] \in D[k - 1] => f[k] \in D[k]
    PROVE  \A k \in 0..n : f[k] \in D[k]
<1> DEFINE T == {m \in Nat : m <= n => f[m] \in D[m]}
<1>1. 0 \in T
  OBVIOUS
<1>2. ASSUME NEW m \in Nat, m \in T PROVE m + 1 \in T
  <2> SUFFICES ASSUME m + 1 <= n PROVE f[m + 1] \in D[m + 1]
    OBVIOUS
  <2>1. m + 1 \in 1..n /\ (m + 1) - 1 = m /\ f[m] \in D[m]
    BY <1>2
  <2> QED BY <2>1
<1>3. Nat \subseteq T
  <2> HIDE DEF T
  <2> QED BY <1>1, <1>2, NatInd
<1> QED BY <1>3

\* The elements p..q-1 move to the left, or to where none of them is.
Shifts(a, b, p, q, d) ==
    /\ b \in Arrays /\ Len(b) = Len(a)
    /\ \A i \in Spots(a) : GetElement(b, i) = IF p + d <= i /\ i < q + d THEN GetElement(a, i - d)
                                              ELSE GetElement(a, i)

LEMMA MoveOne ==
    ASSUME NEW a \in Arrays, NEW p \in Int, NEW q \in Int, NEW d \in Int, NEW b,
           0 <= p, p <= q, p + d >= 0, q < Len(a), q + d < Len(a), d <= 0 \/ q < p + d,
           Shifts(a, b, p, q, d)
    PROVE  Shifts(a, SetElement(b, q + d, GetElement(b, q)), p, q + 1, d)
<1>1. Len(a) \in Nat /\ b \in Arrays /\ Len(b) = Len(a) /\ Spots(b) = Spots(a)
  BY ElementFacts DEF Shifts, Spots
<1>2. q \in Spots(a) /\ q + d \in Spots(a)
  BY <1>1 DEF Spots
<1>3. GetElement(b, q) = GetElement(a, q)
  <2>1. ~(p + d <= q /\ q < q + d)
    OBVIOUS
  <2> QED BY <1>2, <2>1 DEF Shifts
<1> DEFINE v == GetElement(b, q)
           c == SetElement(b, q + d, v)
<1>4. v \in Items
  BY <1>1, ElementFacts
<1> HIDE DEF v
<1>5. /\ c \in Arrays /\ Len(c) = Len(a)
      /\ \A j \in Spots(a) : GetElement(c, j) = IF j = q + d THEN v ELSE GetElement(b, j)
  BY <1>1, <1>2, <1>4, SetFacts
<1> HIDE DEF c
<1>6. ASSUME NEW j \in Spots(a)
      PROVE  GetElement(c, j) = IF p + d <= j /\ j < (q + 1) + d THEN GetElement(a, j - d) ELSE GetElement(a, j)
  <2>1. j \in Int
    BY DEF Spots
  <2>2. CASE j = q + d
    <3>1. j - d = q /\ p + d <= j /\ j < (q + 1) + d
      BY <2>2
    <3> QED BY <1>3, <1>5, <2>2, <3>1 DEF v
  <2>3. CASE j # q + d
    <3>1. (p + d <= j /\ j < (q + 1) + d) <=> (p + d <= j /\ j < q + d)
      BY <2>1, <2>3
    <3> QED BY <1>5, <2>3, <3>1 DEF Shifts
  <2> QED BY <2>2, <2>3
<1> QED BY <1>5, <1>6 DEF Shifts, c, v

LEMMA MovedFacts ==
    ASSUME NEW a \in Arrays, NEW p \in Int, NEW q \in Int, NEW d \in Int,
           0 <= p, p + d >= 0, q <= Len(a), q + d <= Len(a), d <= 0 \/ q <= p + d
    PROVE  Shifts(a, Moved(a, p, q, d), p, q, d)
<1> DEFINE s == Upto(p, q)
           n == Len(s)
           Body(b, i) == SetElement(b, i + d, GetElement(b, i))
           after[k \in 0..n] == IF k = 0 THEN a ELSE Body(after[k - 1], s[k])
           D == [k \in 0..n |-> {b \in Arrays : Shifts(a, b, p, p + k, d)}]
           G == [k \in 1..n |-> [b \in D[k - 1] |-> Body(b, s[k])]]
<1>1. Moved(a, p, q, d) = after[n]
  BY DEF Moved, Walk
<1>2. n \in Nat /\ (p <= q => n = q - p) /\ (q <= p => n = 0) /\ \A k \in 1..n : s[k] = p + k - 1
  <2>1. CASE p <= q
    <3>1. n = q - p /\ \A k \in 1..(q - p) : s[k] = p + k - 1
      BY <2>1, UptoFacts
    <3> HIDE DEF s, n
    <3> QED BY <2>1, <3>1
  <2>2. CASE ~(p <= q)
    BY <2>2, UptoNone
  <2> QED BY <2>1, <2>2
<1>3. a \in D[0]
  <2>1. Shifts(a, a, p, p + 0, d)
    BY DEF Shifts, Spots
  <2> QED BY <1>2, <2>1
<1> HIDE DEF s
<1>4. ASSUME NEW k \in 1..n, NEW b \in D[k - 1] PROVE Body(b, s[k]) \in D[k]
  <2>1. k - 1 \in 0..n /\ k \in 0..n /\ n = q - p /\ k <= q - p
    BY <1>2
  <2>2. b \in Arrays /\ Shifts(a, b, p, p + (k - 1), d)
    BY <2>1
  <2> DEFINE r == p + (k - 1)
  <2>3. s[k] = r /\ p <= r /\ r < q /\ r + 1 = p + k /\ r \in Int
    BY <1>2, <2>1
  <2>4. r < Len(a) /\ r + d < Len(a) /\ (d <= 0 \/ r < p + d)
    BY <2>3, ElementFacts
  <2> HIDE DEF r
  <2>5. Shifts(a, SetElement(b, r + d, GetElement(b, r)), p, r + 1, d)
    BY <2>2, <2>3, <2>4, MoveOne DEF r
  <2>6. Shifts(a, Body(b, s[k]), p, p + k, d)
    BY <2>3, <2>5
  <2>7. Body(b, s[k]) \in Arrays
    BY <2>6 DEF Shifts
  <2> QED BY <2>1, <2>6, <2>7
<1> HIDE DEF Body
<1>5. \A k \in 1..n : \A b \in D[k - 1] : G[k][b] = Body(b, s[k])
  OBVIOUS
<1>6. Leads(n, D, G)
  BY <1>4, <1>5 DEF Leads
<1>7. \E f : f = [k \in 0..n |-> IF k = 0 THEN a ELSE Body(f[k - 1], s[k])]
  <2> HIDE DEF D, G, n, after
  <2>1. PICK f : Path(f, n, a, G) /\ Stays(f, n, D)
    BY <1>2, <1>3, <1>6, LoopExists
  <2>2. \A k \in 1..n : G[k][f[k - 1]] = Body(f[k - 1], s[k])
    <3> TAKE k \in 1..n
    <3>1. k - 1 \in 0..n
      BY <1>2
    <3> QED BY <1>5, <2>1, <3>1 DEF Stays
  <2>3. \A k \in 0..n : k # 0 => k \in 1..n
    BY <1>2
  <2>4. f = [k \in 0..n |-> IF k = 0 THEN a ELSE Body(f[k - 1], s[k])]
    BY <2>1, <2>2, <2>3 DEF Path
  <2> QED BY <2>4
<1>8. after[n] \in D[n]
  <2>1. after = [k \in 0..n |-> IF k = 0 THEN a ELSE Body(after[k - 1], s[k])]
    BY <1>7
  <2> HIDE DEF after
  <2> HIDE DEF n, D, G
  <2>2. after[0] = a /\ \A k \in 1..n : after[k] = Body(after[k - 1], s[k])
    <3>1. 0 \in 0..n /\ \A k \in 1..n : k \in 0..n /\ k # 0
      BY <1>2
    <3> QED BY <2>1, <3>1
  <2>3. \A k \in 1..n : after[k - 1] \in D[k - 1] => after[k] \in D[k]
    BY <1>4, <2>2
  <2>4. after[0] \in D[0]
    BY <1>3, <2>2
  <2>5. \A k \in 0..n : after[k] \in D[k]
    BY <1>2, <2>3, <2>4, LoopKeeps
  <2> QED BY <1>2, <2>5
<1>9. Shifts(a, after[n], p, p + n, d)
  <2> HIDE DEF after
  <2>1. n \in 0..n
    BY <1>2
  <2> QED BY <1>8, <2>1
<1> HIDE DEF after
<1>10. CASE p <= q
  <2>1. p + n = q
    BY <1>2, <1>10
  <2> QED BY <1>1, <1>9, <2>1
<1>11. CASE ~(p <= q)
  <2>1. n = 0
    BY <1>2, <1>11
  <2> DEFINE c == after[n]
  <2>2. Shifts(a, c, p, p, d)
    BY <1>9, <2>1
  <2>3. Moved(a, p, q, d) = c
    BY <1>1
  <2> HIDE DEF c, n
  <2>4. \A i \in Spots(a) : ~(p + d <= i /\ i < p + d) /\ ~(p + d <= i /\ i < q + d)
    BY <1>11 DEF Spots
  <2>5. Shifts(a, c, p, q, d)
    BY <2>2, <2>4 DEF Shifts
  <2> QED BY <2>3, <2>5
<1> QED BY <1>10, <1>11

LEMMA ProductInj ==
    ASSUME NEW m \in Int, m # 0, NEW j \in Int, NEW k \in Int, j * m = k * m
    PROVE  j = k
<1>1. (j - k) * m = 0 /\ j - k \in Int
  BY SMT
<1>2. ASSUME NEW x \in Int, x * m = 0 PROVE x = 0
  BY <1>2, SMT
<1>3. j - k = 0
  BY <1>1, <1>2
<1> QED BY <1>3

\* The first m elements of s lie at the places at, at + step, ...
Fills(a, b, at, step, s, m) ==
    /\ b \in Arrays /\ Len(b) = Len(a)
    /\ \A k \in 0..(m - 1) : GetElement(b, at + k * step) = s[k + 1]
    /\ \A i \in Spots(a) : (\A k \in 0..(m - 1) : i # at + k * step) => GetElement(b, i) = GetElement(a, i)

LEMMA StoreOne ==
    ASSUME NEW a \in Arrays, NEW at \in Int, NEW step \in Int, step # 0, NEW s \in Arrays, NEW b,
           NEW m \in Nat, m < Len(s), \A k \in 0..(Len(s) - 1) : at + k * step \in Spots(a),
           Fills(a, b, at, step, s, m)
    PROVE  Fills(a, SetElement(b, at + m * step, s[m + 1]), at, step, s, m + 1)
<1> DEFINE w == [k \in 0..(Len(s) - 1) |-> at + k * step]
           v == s[m + 1]
           c == SetElement(b, w[m], v)
<1>1. Len(s) \in Nat /\ b \in Arrays /\ Len(b) = Len(a) /\ Spots(b) = Spots(a)
  BY ElementFacts DEF Fills, Spots
<1>2. m \in 0..(Len(s) - 1) /\ m + 1 \in 1..Len(s) /\ 0..((m + 1) - 1) = 0..m
      /\ \A k \in 0..m : k \in 0..(Len(s) - 1)
  BY <1>1
<1>3. \A k \in 0..(Len(s) - 1) : w[k] \in Spots(a) /\ w[k] = at + k * step
  OBVIOUS
<1>4. \A j, k \in 0..(Len(s) - 1) : w[j] = w[k] => j = k
  <2> TAKE j, k \in 0..(Len(s) - 1)
  <2> HAVE w[j] = w[k]
  <2>1. j * step \in Int /\ k * step \in Int /\ j \in Int /\ k \in Int
    BY SMT
  <2>2. at + j * step = at + k * step
    BY <1>3
  <2>3. j * step = k * step
    BY <2>1, <2>2
  <2> QED BY <2>1, <2>3, ProductInj
<1>5. v \in Items
  BY <1>2, ElementFacts
<1>6. /\ \A k \in 0..(m - 1) : GetElement(b, w[k]) = s[k + 1]
      /\ \A i \in Spots(a) : (\A k \in 0..(m - 1) : i # w[k]) => GetElement(b, i) = GetElement(a, i)
  <2>1. \A k \in 0..(m - 1) : k \in 0..(Len(s) - 1)
    BY <1>1
  <2> QED BY <1>3, <2>1 DEF Fills
<1> HIDE DEF w, v
<1>7. /\ c \in Arrays /\ Len(c) = Len(a)
      /\ \A j \in Spots(a) : GetElement(c, j) = IF j = w[m] THEN v ELSE GetElement(b, j)
  BY <1>1, <1>2, <1>3, <1>5, SetFacts
<1> HIDE DEF c
<1>8. ASSUME NEW k \in 0..m PROVE GetElement(c, w[k]) = s[k + 1]
  <2>1. w[k] \in Spots(a) /\ (w[k] = w[m] => k = m)
    BY <1>2, <1>3, <1>4
  <2>2. CASE k = m
    BY <1>7, <2>1, <2>2 DEF v
  <2>3. CASE k # m
    <3>1. k \in 0..(m - 1) /\ w[k] # w[m]
      BY <2>1, <2>3
    <3> QED BY <1>6, <1>7, <2>1, <3>1
  <2> QED BY <2>2, <2>3
<1>9. ASSUME NEW i \in Spots(a), \A k \in 0..m : i # w[k] PROVE GetElement(c, i) = GetElement(a, i)
  <2>1. i # w[m] /\ \A k \in 0..(m - 1) : i # w[k]
    BY <1>9
  <2> QED BY <1>6, <1>7, <2>1
<1>10. Fills(a, c, at, step, s, m + 1)
  <2>1. \A k \in 0..((m + 1) - 1) : k \in 0..m /\ w[k] = at + k * step
    BY <1>2, <1>3
  <2>2. \A k \in 0..((m + 1) - 1) : GetElement(c, at + k * step) = s[k + 1]
    BY <1>8, <2>1
  <2>3. ASSUME NEW i \in Spots(a), \A k \in 0..((m + 1) - 1) : i # at + k * step
        PROVE  GetElement(c, i) = GetElement(a, i)
    <3>1. \A k \in 0..m : i # w[k]
      BY <1>2, <2>1, <2>3
    <3> QED BY <1>9, <3>1
  <2> QED BY <1>7, <2>2, <2>3 DEF Fills
<1>11. SetElement(b, at + m * step, s[m + 1]) = c
  BY <1>2, <1>3 DEF c, v
<1> QED BY <1>10, <1>11

LEMMA StoredFacts ==
    ASSUME NEW a \in Arrays, NEW at \in Int, NEW step \in Int, step # 0, NEW s \in Arrays,
           \A k \in 0..(Len(s) - 1) : at + k * step \in Spots(a)
    PROVE  Fills(a, Stored(a, at, step, s), at, step, s, Len(s))
<1> DEFINE u == Upto(0, Len(s))
           n == Len(u)
           Body(b, k) == SetElement(b, at + k * step, s[k + 1])
           after[k \in 0..n] == IF k = 0 THEN a ELSE Body(after[k - 1], u[k])
           D == [k \in 0..n |-> {b \in Arrays : Fills(a, b, at, step, s, k)}]
           G == [k \in 1..n |-> [b \in D[k - 1] |-> Body(b, u[k])]]
<1>1. Stored(a, at, step, s) = after[n]
  BY DEF Stored, Walk
<1>2. n \in Nat /\ n = Len(s) /\ \A k \in 1..n : u[k] = k - 1
  <2>1. Len(s) \in Nat /\ Len(s) - 0 = Len(s) /\ \A k \in 1..Len(s) : 0 + k - 1 = k - 1
    BY ElementFacts
  <2>2. n = Len(s) /\ \A k \in 1..Len(s) : u[k] = 0 + k - 1
    <3>1. 0 \in Int /\ Len(s) \in Int /\ 0 <= Len(s)
      BY <2>1
    <3>2. Len(Upto(0, Len(s))) = Len(s) - 0 /\ \A k \in 1..(Len(s) - 0) : Upto(0, Len(s))[k] = 0 + k - 1
      BY <3>1, UptoFacts
    <3> QED BY <2>1, <3>2, Zenon DEF n, u
  <2> HIDE DEF n, u
  <2> QED BY <2>1, <2>2
<1>3. a \in D[0]
  <2>1. Fills(a, a, at, step, s, 0)
    BY DEF Fills
  <2> QED BY <1>2, <2>1
<1> HIDE DEF u
<1>4. ASSUME NEW k \in 1..n, NEW b \in D[k - 1] PROVE Body(b, u[k]) \in D[k]
  <2>1. k - 1 \in 0..n /\ k \in 0..n /\ k - 1 \in Nat /\ k - 1 < Len(s) /\ (k - 1) + 1 = k
    BY <1>2
  <2>2. b \in Arrays /\ Fills(a, b, at, step, s, k - 1)
    BY <2>1
  <2>3. Fills(a, SetElement(b, at + (k - 1) * step, s[(k - 1) + 1]), at, step, s, (k - 1) + 1)
    BY <2>1, <2>2, StoreOne
  <2>4. Fills(a, Body(b, u[k]), at, step, s, k)
    BY <1>2, <2>1, <2>3, Zenon
  <2>5. Body(b, u[k]) \in Arrays
    BY <2>4 DEF Fills
  <2> QED BY <2>1, <2>4, <2>5
<1> HIDE DEF Body
<1>5. \A k \in 1..n : \A b \in D[k - 1] : G[k][b] = Body(b, u[k])
  OBVIOUS
<1>6. Leads(n, D, G)
  BY <1>4, <1>5 DEF Leads
<1>7. \E f : f = [k \in 0..n |-> IF k = 0 THEN a ELSE Body(f[k - 1], u[k])]
  <2> HIDE DEF D, G, n, after
  <2>1. PICK f : Path(f, n, a, G) /\ Stays(f, n, D)
    BY <1>2, <1>3, <1>6, LoopExists
  <2>2. \A k \in 1..n : G[k][f[k - 1]] = Body(f[k - 1], u[k])
    <3> TAKE k \in 1..n
    <3>1. k - 1 \in 0..n
      BY <1>2
    <3> QED BY <1>5, <2>1, <3>1 DEF Stays
  <2>3. \A k \in 0..n : k # 0 => k \in 1..n
    BY <1>2
  <2>4. f = [k \in 0..n |-> IF k = 0 THEN a ELSE Body(f[k - 1], u[k])]
    BY <2>1, <2>2, <2>3 DEF Path
  <2> QED BY <2>4
<1>8. after[n] \in D[n]
  <2>1. after = [k \in 0..n |-> IF k = 0 THEN a ELSE Body(after[k - 1], u[k])]
    BY <1>7
  <2> HIDE DEF after
  <2> HIDE DEF n, D, G
  <2>2. after[0] = a /\ \A k \in 1..n : after[k] = Body(after[k - 1], u[k])
    <3>1. 0 \in 0..n /\ \A k \in 1..n : k \in 0..n /\ k # 0
      BY <1>2
    <3> QED BY <2>1, <3>1
  <2>3. \A k \in 1..n : after[k - 1] \in D[k - 1] => after[k] \in D[k]
    BY <1>4, <2>2
  <2>4. after[0] \in D[0]
    BY <1>3, <2>2
  <2>5. \A k \in 0..n : after[k] \in D[k]
    BY <1>2, <2>3, <2>4, LoopKeeps
  <2> QED BY <1>2, <2>5
<1>9. Fills(a, after[n], at, step, s, n)
  <2> HIDE DEF after
  <2>1. n \in 0..n
    BY <1>2
  <2> QED BY <1>8, <2>1
<1> HIDE DEF after
<1> QED BY <1>1, <1>2, <1>9, Zenon

-----------------------------------------------------------------------------
(* Ranks: the places of a set of integers in their order.                  *)

LEMMA FirstFew ==
    ASSUME NEW n \in Nat
    PROVE  IsFiniteSet(0..(n - 1)) /\ Cardinality(0..(n - 1)) = n
<1>1. 0 \in Int /\ n - 1 \in Int
  OBVIOUS
<1>2. IsFiniteSet(0..(n - 1)) /\ Cardinality(0..(n - 1)) = IF 0 > n - 1 THEN 0 ELSE (n - 1) - 0 + 1
  BY <1>1, FS_Interval
<1> DEFINE c == Cardinality(0..(n - 1))
<1>3. c = IF 0 > n - 1 THEN 0 ELSE (n - 1) - 0 + 1
  BY <1>2
<1> HIDE DEF c
<1>4. c = n
  BY <1>3
<1> QED BY <1>2, <1>4 DEF c

\* A function that takes each value once counts its range.
LEMMA ImageCount ==
    ASSUME NEW n \in Nat, NEW f, NEW S,
           \A k \in 1..n : f[k] \in S, \A x \in S : \E k \in 1..n : x = f[k],
           \A j, k \in 1..n : f[j] = f[k] => j = k
    PROVE  IsFiniteSet(S) /\ Cardinality(S) = n
<1> DEFINE g == [k \in 1..n |-> f[k]]
<1>1. g \in Bijection(1..n, S)
  <2>1. g \in [1..n -> S] /\ \A k \in 1..n : g[k] = f[k]
    OBVIOUS
  <2> HIDE DEF g
  <2>2. \A j, k \in 1..n : g[j] = g[k] => j = k
    BY <2>1
  <2>3. \A s \in S : \E k \in 1..n : g[k] = s
    BY <2>1
  <2> QED BY <2>1, <2>2, <2>3 DEF Bijection, Injection, Surjection, IsInjective
<1>2. ExistsBijection(1..n, S)
  BY <1>1 DEF ExistsBijection
<1> QED BY <1>2, FS_CountingElements, FS_NatBijection

\* What lies below x in a finite set.
Below(x, S) == {y \in S : y < x}

LEMMA RankFacts ==
    ASSUME NEW S, S \subseteq Int, IsFiniteSet(S)
    PROVE  /\ \A x \in S : /\ Rank(x, S) \in 1..Cardinality(S)
                           /\ Rank(x, S) = Cardinality(Below(x, S)) + 1
           /\ \A x, y \in S : x < y => Rank(x, S) < Rank(y, S)
           /\ \A x, y \in S : Rank(x, S) = Rank(y, S) => x = y
<1>1. ASSUME NEW x \in S
      PROVE  /\ IsFiniteSet(Below(x, S)) /\ Cardinality(Below(x, S)) \in Nat
             /\ Rank(x, S) = Cardinality(Below(x, S)) + 1 /\ Rank(x, S) \in 1..Cardinality(S)
  <2>1. Below(x, S) \subseteq S \ {x}
    BY DEF Below
  <2>2. IsFiniteSet(S \ {x}) /\ Cardinality(S \ {x}) = Cardinality(S) - 1
    BY FS_RemoveElement
  <2>3. IsFiniteSet(Below(x, S)) /\ Cardinality(Below(x, S)) <= Cardinality(S) - 1
    BY <2>1, <2>2, FS_Subset
  <2>4. Cardinality(Below(x, S)) \in Nat /\ Cardinality(S) \in Nat
    BY <2>3, FS_CardinalityType
  <2>5. Rank(x, S) = Cardinality(Below(x, S)) + 1
    BY DEF Rank, Below
  <2> QED BY <2>3, <2>4, <2>5
<1>2. ASSUME NEW x \in S, NEW y \in S, x < y PROVE Rank(x, S) < Rank(y, S)
  <2>0. x \in Int /\ y \in Int
    OBVIOUS
  <2>1. Below(x, S) \cup {x} \subseteq Below(y, S) /\ x \notin Below(x, S)
    <3>1. ASSUME NEW z \in Below(x, S) PROVE z \in Below(y, S)
      <4>1. z \in S /\ z < x /\ z \in Int
        BY DEF Below
      <4>2. z < y
        BY <1>2, <2>0, <4>1
      <4> QED BY <4>1, <4>2 DEF Below
    <3>2. x \in Below(y, S) /\ x \notin Below(x, S)
      BY <1>2, <2>0 DEF Below
    <3> QED BY <3>1, <3>2
  <2>2. /\ IsFiniteSet(Below(x, S) \cup {x})
        /\ Cardinality(Below(x, S) \cup {x}) = Cardinality(Below(x, S)) + 1
    BY <1>1, <2>1, FS_AddElement
  <2>3. Cardinality(Below(x, S) \cup {x}) <= Cardinality(Below(y, S))
    BY <1>1, <2>1, FS_Subset
  <2> QED BY <1>1, <2>2, <2>3
<1>3. ASSUME NEW x \in S, NEW y \in S, Rank(x, S) = Rank(y, S) PROVE x = y
  <2>1. Rank(x, S) \in Int /\ x \in Int /\ y \in Int
    BY <1>1
  <2>2. ~(x < y) /\ ~(y < x)
    BY <1>2, <1>3, <2>1
  <2> QED BY <2>1, <2>2
<1> QED BY <1>1, <1>2, <1>3

LEMMA KthFacts ==
    ASSUME NEW S, S \subseteq Int, IsFiniteSet(S)
    PROVE  /\ \A k \in 1..Cardinality(S) : Kth(S, k) \in S /\ Rank(Kth(S, k), S) = k
           /\ \A x \in S : Kth(S, Rank(x, S)) = x
<1>1. Cardinality(S) \in Nat
  BY FS_CardinalityType
<1> DEFINE r == [x \in S |-> Rank(x, S)]
           T == 1..Cardinality(S)
<1>2. r \in Injection(S, T)
  <2>1. r \in [S -> T] /\ \A x \in S : r[x] = Rank(x, S)
    BY RankFacts
  <2> HIDE DEF r
  <2>2. \A x, y \in S : r[x] = r[y] => x = y
    <3>1. \A x, y \in S : Rank(x, S) = Rank(y, S) => x = y
      BY RankFacts
    <3> QED BY <2>1, <3>1
  <2> QED BY <2>1, <2>2 DEF Injection, IsInjective
<1>3. IsFiniteSet(T) /\ Cardinality(T) = Cardinality(S)
  <2>1. IsFiniteSet(1..Cardinality(S)) /\ Cardinality(1..Cardinality(S)) = Cardinality(S)
    BY <1>1, FS_Interval
  <2> QED BY <2>1
<1>4. r \in Surjection(S, T)
  <2> HIDE DEF r, T
  <2> QED BY <1>2, <1>3, FS_Injection
<1>5. \A k \in T : \E x \in S : Rank(x, S) = k
  BY <1>4 DEF Surjection
<1>6. ASSUME NEW k \in T PROVE Kth(S, k) \in S /\ Rank(Kth(S, k), S) = k
  BY <1>5 DEF Kth
<1>7. ASSUME NEW x \in S PROVE Kth(S, Rank(x, S)) = x
  <2>1. Rank(x, S) \in T
    BY RankFacts
  <2>2. Kth(S, Rank(x, S)) \in S /\ Rank(Kth(S, Rank(x, S)), S) = Rank(x, S)
    BY <1>6, <2>1
  <2> QED BY <2>2, RankFacts
<1> QED BY <1>6, <1>7

\* The range of an ascending function is in its order.
LEMMA Enumerates ==
    ASSUME NEW n \in Nat, NEW f, \A k \in 1..n : f[k] \in Int,
           \A j, k \in 1..n : j < k => f[j] < f[k], NEW S,
           \A k \in 1..n : f[k] \in S, \A x \in S : \E k \in 1..n : x = f[k]
    PROVE  /\ IsFiniteSet(S) /\ S \subseteq Int /\ Cardinality(S) = n
           /\ \A k \in 1..n : Kth(S, k) = f[k]
<1>1. \A j, k \in 1..n : f[j] = f[k] => j = k
  <2> TAKE j, k \in 1..n
  <2>1. f[j] \in Int /\ f[k] \in Int /\ (j < k => f[j] < f[k]) /\ (k < j => f[k] < f[j])
    OBVIOUS
  <2> QED BY <2>1
<1>2. IsFiniteSet(S) /\ Cardinality(S) = n /\ S \subseteq Int
  BY <1>1, ImageCount
<1>3. ASSUME NEW k \in 1..n PROVE Rank(f[k], S) = k
  <2>1. Below(f[k], S) = {f[j] : j \in 1..(k - 1)}
    <3>1. ASSUME NEW j \in 1..(k - 1) PROVE f[j] \in Below(f[k], S)
      <4>1. j \in 1..n /\ j < k
        OBVIOUS
      <4> QED BY <4>1 DEF Below
    <3>2. ASSUME NEW y \in Below(f[k], S) PROVE \E j \in 1..(k - 1) : y = f[j]
      <4>1. PICK j \in 1..n : y = f[j]
        BY DEF Below
      <4>2. f[j] < f[k] /\ f[j] \in Int /\ f[k] \in Int
        BY <4>1 DEF Below
      <4>3. ~(k < j) /\ j # k
        BY <4>2
      <4>4. j \in 1..(k - 1)
        BY <4>3
      <4> QED BY <4>1, <4>4
    <3> QED BY <3>1, <3>2
  <2>2. Cardinality(Below(f[k], S)) = k - 1
    <3>1. k - 1 \in Nat /\ \A i, j \in 1..(k - 1) : f[i] = f[j] => i = j
      BY <1>1
    <3> QED BY <2>1, <3>1, ImageCount
  <2>3. f[k] \in S /\ k \in Int
    OBVIOUS
  <2>4. Rank(f[k], S) = Cardinality(Below(f[k], S)) + 1
    BY <1>2, <2>3, RankFacts
  <2> QED BY <2>2, <2>3, <2>4
<1>4. \A k \in 1..n : Kth(S, k) = f[k]
  <2> TAKE k \in 1..n
  <2>1. f[k] \in S /\ Rank(f[k], S) = k
    BY <1>3
  <2> QED BY <1>2, <2>1, KthFacts
<1> QED BY <1>2, <1>4

\* The array b is a without the elements at the places in P.
LEMMA WithoutIs ==
    ASSUME NEW a \in Arrays, NEW P, P \subseteq Spots(a), NEW b \in Arrays,
           Len(b) = Len(a) - Cardinality(P),
           \A y \in Spots(a) \ P : GetElement(b, y - Cardinality(Below(y, P))) = GetElement(a, y)
    PROVE  Without(a, P) = b
<1>1. Len(a) \in Nat /\ Len(b) \in Nat
  BY ElementFacts
<1>2. IsFiniteSet(Spots(a)) /\ Cardinality(Spots(a)) = Len(a) /\ Spots(a) \subseteq Int
  <2>1. IsFiniteSet(0..(Len(a) - 1)) /\ Cardinality(0..(Len(a) - 1)) = Len(a)
    BY <1>1, FirstFew
  <2> QED BY <2>1 DEF Spots
<1>3. IsFiniteSet(P) /\ Cardinality(P) \in Nat
  BY <1>2, FS_Subset, FS_CardinalityType
<1> DEFINE rest == (0..(Len(a) - 1)) \ P
<1>4. IsFiniteSet(rest) /\ rest \subseteq Int /\ Cardinality(rest) = Len(b) /\ rest = Spots(a) \ P
  <2>1. rest = Spots(a) \ P
    BY DEF Spots
  <2>2. Spots(a) \cap P = P
    OBVIOUS
  <2>3. IsFiniteSet(Spots(a) \ P) /\ Cardinality(Spots(a) \ P) = Cardinality(Spots(a)) - Cardinality(P)
    <3>1. IsFiniteSet(Spots(a) \ P) /\ Cardinality(Spots(a) \ P) = Cardinality(Spots(a)) - Cardinality(Spots(a) \cap P)
      BY <1>2, FS_Difference
    <3> QED BY <2>2, <3>1, Zenon
  <2> QED BY <1>2, <2>1, <2>3
<1> HIDE DEF rest
<1>5. ASSUME NEW y \in rest PROVE Rank(y, rest) = (y - Cardinality(Below(y, P))) + 1
  <2>1. y \in Spots(a) /\ y \in Nat /\ y < Len(a)
    BY <1>1, <1>4 DEF Spots
  <2>2. Below(y, rest) = (0..(y - 1)) \ Below(y, P)
    BY <1>1, <1>4, <2>1 DEF Below, Spots
  <2>3. (0..(y - 1)) \cap Below(y, P) = Below(y, P)
    <3>1. ASSUME NEW z \in Below(y, P) PROVE z \in 0..(y - 1)
      <4>1. z \in Spots(a) /\ z < y
        BY DEF Below
      <4> QED BY <2>1, <4>1 DEF Spots
    <3> QED BY <3>1
  <2>4. IsFiniteSet(0..(y - 1)) /\ Cardinality(0..(y - 1)) = y
    BY <2>1, FirstFew
  <2>5. Cardinality(Below(y, rest)) = y - Cardinality(Below(y, P))
    <3> DEFINE A == 0..(y - 1)
               B == Below(y, P)
    <3>1. A \cap B = B /\ IsFiniteSet(A) /\ Cardinality(A) = y
      BY <2>3, <2>4
    <3> HIDE DEF A, B
    <3>2. Cardinality(A \ B) = Cardinality(A) - Cardinality(A \cap B)
      BY <3>1, FS_Difference
    <3>3. Cardinality(A \ B) = y - Cardinality(B)
      BY <3>1, <3>2, Zenon
    <3> QED BY <2>2, <3>3 DEF A, B
  <2> QED BY <1>4, <2>5, RankFacts
<1>6. ASSUME NEW k \in 1..Len(b) PROVE a[Kth(rest, k) + 1] = b[k]
  <2> DEFINE y == Kth(rest, k)
  <2>1. y \in rest /\ Rank(y, rest) = k
    BY <1>4, KthFacts
  <2> HIDE DEF y
  <2>2. y \in Spots(a) \ P /\ y \in Int
    BY <1>4, <2>1
  <2>3. Cardinality(Below(y, P)) \in Nat
    BY <1>3, FS_Subset, FS_CardinalityType DEF Below
  <2>4. y - Cardinality(Below(y, P)) = k - 1
    BY <1>5, <2>1, <2>2, <2>3
  <2>5. GetElement(b, k - 1) = GetElement(a, y)
    BY <2>2, <2>4
  <2> QED BY <2>2, <2>5, ElementFacts DEF y
<1>7. Without(a, P) = [k \in 1..Len(b) |-> a[Kth(rest, k) + 1]]
  BY <1>4 DEF Without, rest
<1>8. b = [k \in 1..Len(b) |-> b[k]]
  BY <1>1 DEF Arrays
<1> QED BY <1>6, <1>7, <1>8

-----------------------------------------------------------------------------
(* Slices.                                                                 *)

LEMMA Divided ==
    ASSUME NEW x \in Nat, NEW m \in Nat \ {0}
    PROVE  /\ x \div m \in Nat /\ x % m \in 0..(m - 1)
           /\ x = (x \div m) * m + (x % m)
OBVIOUS

LEMMA ProductOrder ==
    ASSUME NEW m \in Nat \ {0}, NEW j \in Int, NEW k \in Int
    PROVE  /\ j <= k => j * m <= k * m
           /\ j < k => j * m + m <= k * m
           /\ j * m \in Int /\ (j >= 0 => j * m >= 0) /\ (-j) * m = -(j * m) /\ (j + 1) * m = j * m + m
<1>1. ASSUME NEW i \in Nat PROVE i * m >= 0
  BY <1>1, SMT
<1>2. (k - j) * m = k * m - j * m /\ (k - j - 1) * m = k * m - j * m - m
  BY SMT
<1>3. j * m \in Int /\ k * m \in Int /\ (-j) * m = -(j * m) /\ (j + 1) * m = j * m + m
  BY SMT
<1>4. j <= k => (k - j) \in Nat
  OBVIOUS
<1>5. j < k => (k - j - 1) \in Nat
  OBVIOUS
<1>6. j >= 0 => j \in Nat
  OBVIOUS
<1> QED BY <1>1, <1>2, <1>3, <1>4, <1>5, <1>6

\* The multiples of m up to d.
LEMMA Multiples ==
    ASSUME NEW m \in Nat \ {0}, NEW d \in Nat
    PROVE  /\ d \div m \in Nat
           /\ \A k \in 0..(d \div m) : k * m \in 0..d /\ (k * m) % m = 0
           /\ \A y \in 0..d : y % m = 0 => \E k \in 0..(d \div m) : y = k * m
<1> DEFINE e == d \div m
<1>1. e \in Nat /\ d % m \in 0..(m - 1) /\ d = e * m + (d % m)
  BY Divided
<1>2. e * m \in Nat /\ e * m <= d /\ d < e * m + m
  <2>1. e * m >= 0 /\ e * m \in Int
    BY <1>1, ProductOrder
  <2> HIDE DEF e
  <2> QED BY <1>1, <2>1
<1> HIDE DEF e
<1>3. ASSUME NEW k \in 0..e PROVE k * m \in 0..d /\ (k * m) % m = 0
  <2>1. k \in Nat /\ k <= e /\ k \in Int /\ e \in Int
    BY <1>1
  <2>2. k * m <= e * m /\ k * m >= 0 /\ k * m \in Int
    BY <2>1, ProductOrder
  <2>3. k * m \in 0..d
    BY <1>2, <2>2
  <2> DEFINE y == k * m
             q == y \div m
             r == y % m
  <2>4. q \in Nat /\ r \in 0..(m - 1) /\ y = q * m + r
    <3>1. y \in Nat
      BY <2>2
    <3> HIDE DEF y
    <3> QED BY <3>1, Divided
  <2>5. q * m \in Int /\ (q < k => q * m + m <= k * m) /\ (k < q => k * m + m <= q * m)
    BY <2>1, <2>4, ProductOrder
  <2>6. q = k
    <3>1. k * m = q * m + r
      BY <2>4
    <3> HIDE DEF q, r, y
    <3>2. ~(q < k) /\ ~(k < q)
      BY <2>2, <2>4, <2>5, <3>1
    <3> QED BY <2>1, <2>4, <3>2
  <2>7. r = 0
    <3>1. y = y + r
      BY <2>4, <2>6
    <3> HIDE DEF q, r
    <3> QED BY <2>2, <2>4, <3>1
  <2> QED BY <2>3, <2>7
<1>4. ASSUME NEW y \in 0..d, y % m = 0 PROVE \E k \in 0..e : y = k * m
  <2> DEFINE k == y \div m
  <2>1. k \in Nat /\ y = k * m + (y % m)
    BY Divided
  <2>2. y = k * m
    <3>1. k * m \in Int
      BY <2>1, ProductOrder
    <3> HIDE DEF k
    <3> QED BY <1>4, <2>1, <3>1
  <2>3. ~(e < k)
    <3>1. e < k => e * m + m <= k * m
      BY <1>1, <2>1, ProductOrder
    <3> HIDE DEF k
    <3> QED BY <1>2, <2>2, <3>1
  <2> HIDE DEF k
  <2>4. k \in 0..e
    BY <1>1, <2>1, <2>3
  <2> QED BY <2>2, <2>4
<1> QED BY <1>1, <1>3, <1>4 DEF e

LEMMA TwoFacts ==
    ASSUME NEW x \in Int, NEW y \in Int
    PROVE  Min({x, y}) = Least(x, y) /\ Max({x, y}) = Most(x, y)
<1>1. Least(x, y) \in {x, y} /\ \A z \in {x, y} : Least(x, y) <= z
  BY DEF Least
<1>2. Most(x, y) \in {x, y} /\ \A z \in {x, y} : z <= Most(x, y)
  BY DEF Most
<1>3. \A u, v \in {x, y} : u <= v /\ v <= u => u = v
  OBVIOUS
<1>4. Min({x, y}) \in {x, y} /\ \A z \in {x, y} : Min({x, y}) <= z
  <2>1. \E u \in {x, y} : \A z \in {x, y} : u <= z
    BY <1>1
  <2> QED BY <2>1 DEF Min
<1>5. Max({x, y}) \in {x, y} /\ \A z \in {x, y} : z <= Max({x, y})
  <2>1. \E u \in {x, y} : \A z \in {x, y} : z <= u
    BY <1>2
  <2> QED BY <2>1 DEF Max
<1> QED BY <1>1, <1>2, <1>3, <1>4, <1>5

LEMMA SliceTypes ==
    ASSUME NEW sl \in Slices
    PROVE  /\ sl.start \in Int \/ sl.start = Missing
           /\ sl.stop \in Int \/ sl.stop = Missing
           /\ sl.step \in Int /\ sl.step # 0
BY ArrayAssumption DEF Slices

\* Both standards bring an index into the array in the same way.
LEMMA BoundIs ==
    ASSUME NEW a \in Arrays, NEW i, i \in Int \/ i = Missing, NEW default \in Int,
           NEW low \in Int, NEW high \in Int, low <= high, low <= default, default <= high
    PROVE  /\ i = Missing => Bound(i, default, a, low, high) = default
           /\ i # Missing => Bound(i, default, a, low, high) = Adjusted(i, Len(a), low, high)
           /\ Bound(i, default, a, low, high) \in low..high
<1>1. Len(a) \in Nat
  BY ElementFacts
<1>2. CASE i = Missing
  BY <1>2 DEF Bound
<1>3. CASE i # Missing
  <2> DEFINE x == i + (IF i < 0 THEN Len(a) ELSE 0)
  <2>1. i \in Int /\ x \in Int /\ x = IF i < 0 THEN i + Len(a) ELSE i
    BY <1>1, <1>3
  <2>2. Max({low, x}) = Most(low, x) /\ Most(low, x) = Most(x, low) /\ Most(x, low) \in Int
    <3> HIDE DEF x
    <3>1. Max({low, x}) = Most(low, x)
      BY <2>1, TwoFacts
    <3> QED BY <2>1, <3>1 DEF Most
  <2>3. Min({high, Most(x, low)}) = Least(high, Most(x, low))
    BY <2>2, TwoFacts
  <2>4. /\ Least(high, Most(x, low)) = Least(Most(x, low), high)
        /\ Least(Most(x, low), high) \in low..high
    <3> HIDE DEF x
    <3> QED BY <2>1, <2>2 DEF Least, Most
  <2>5. Bound(i, default, a, low, high) = Min({high, Max({low, x})})
    BY <1>3 DEF Bound
  <2>6. Adjusted(i, Len(a), low, high) = Least(Most(x, low), high)
    BY <2>1 DEF Adjusted
  <2> QED BY <1>3, <2>2, <2>3, <2>4, <2>5, <2>6
<1> QED BY <1>2, <1>3

Begin(sl, a) == AdjustIndices(sl, Len(a)).start
Finish(sl, a) == AdjustIndices(sl, Len(a)).stop
Count(sl, a) == AdjustIndices(sl, Len(a)).n

\* Where a slice begins and ends.
LEMMA EndsFacts ==
    ASSUME NEW a \in Arrays, NEW sl \in Slices
    PROVE  LET n == Len(a)
           IN  /\ sl.step > 0 =>
                   /\ Begin(sl, a) \in 0..n /\ Begin(sl, a) = Bound(sl.start, 0, a, 0, n)
                   /\ Finish(sl, a) \in 0..n /\ Finish(sl, a) = Bound(sl.stop, n, a, 0, n)
                   /\ Count(sl, a) = IF Begin(sl, a) < Finish(sl, a)
                                     THEN (Finish(sl, a) - Begin(sl, a) - 1) \div sl.step + 1 ELSE 0
               /\ sl.step < 0 =>
                   /\ Begin(sl, a) \in -1..(n - 1) /\ Begin(sl, a) = Bound(sl.start, n - 1, a, -1, n - 1)
                   /\ Finish(sl, a) \in -1..(n - 1) /\ Finish(sl, a) = Bound(sl.stop, -1, a, -1, n - 1)
                   /\ Count(sl, a) = IF Finish(sl, a) < Begin(sl, a)
                                     THEN (Begin(sl, a) - Finish(sl, a) - 1) \div (-sl.step) + 1 ELSE 0
<1> DEFINE n == Len(a)
<1>1. n \in Nat
  BY ElementFacts
<1>2. /\ sl.start \in Int \/ sl.start = Missing
      /\ sl.stop \in Int \/ sl.stop = Missing
      /\ sl.step \in Int
  BY SliceTypes
<1> HIDE DEF n
<1>3. CASE sl.step > 0
  <2>1. ~(sl.step < 0)
    BY <1>2, <1>3
  <2>2. /\ Begin(sl, a) = IF sl.start = Missing THEN 0 ELSE Adjusted(sl.start, n, 0, n)
        /\ Finish(sl, a) = IF sl.stop = Missing THEN n ELSE Adjusted(sl.stop, n, 0, n)
    BY <2>1 DEF Begin, Finish, AdjustIndices, n
  <2>3. Count(sl, a) = IF Begin(sl, a) < Finish(sl, a)
                       THEN (Finish(sl, a) - Begin(sl, a) - 1) \div sl.step + 1 ELSE 0
    BY <2>1 DEF Begin, Finish, Count, AdjustIndices, n
  <2>4. /\ Bound(sl.start, 0, a, 0, n) = IF sl.start = Missing THEN 0 ELSE Adjusted(sl.start, n, 0, n)
        /\ Bound(sl.start, 0, a, 0, n) \in 0..n
    <3>1. 0 \in Int /\ n \in Int /\ 0 <= n /\ 0 <= 0
      BY <1>1
    <3>2. Len(a) = n
      BY DEF n
    <3> DEFINE i == sl.start
               low == 0
               high == n
               default == 0
    <3>3. (i \in Int \/ i = Missing) /\ low \in Int /\ high \in Int /\ default \in Int
          /\ low <= high /\ low <= default /\ default <= high
      BY <1>2, <3>1
    <3> HIDE DEF i, low, high, default
    <3>4. /\ i = Missing => Bound(i, default, a, low, high) = default
          /\ i # Missing => Bound(i, default, a, low, high) = Adjusted(i, Len(a), low, high)
          /\ Bound(i, default, a, low, high) \in low..high
      BY <3>3, BoundIs
    <3> QED BY <3>2, <3>4, Zenon DEF i, low, high, default
  <2>5. /\ Bound(sl.stop, n, a, 0, n) = IF sl.stop = Missing THEN n ELSE Adjusted(sl.stop, n, 0, n)
        /\ Bound(sl.stop, n, a, 0, n) \in 0..n
    <3>1. 0 \in Int /\ n \in Int /\ 0 <= n /\ n <= n
      BY <1>1
    <3>2. Len(a) = n
      BY DEF n
    <3> DEFINE i == sl.stop
               low == 0
               high == n
               default == n
    <3>3. (i \in Int \/ i = Missing) /\ low \in Int /\ high \in Int /\ default \in Int
          /\ low <= high /\ low <= default /\ default <= high
      BY <1>2, <3>1
    <3> HIDE DEF i, low, high, default
    <3>4. /\ i = Missing => Bound(i, default, a, low, high) = default
          /\ i # Missing => Bound(i, default, a, low, high) = Adjusted(i, Len(a), low, high)
          /\ Bound(i, default, a, low, high) \in low..high
      BY <3>3, BoundIs
    <3> QED BY <3>2, <3>4, Zenon DEF i, low, high, default
  <2> QED BY <1>2, <1>3, <2>1, <2>2, <2>3, <2>4, <2>5, Zenon DEF n
<1>4. CASE sl.step < 0
  <2>1. ~(sl.step > 0)
    BY <1>2, <1>4
  <2>2. /\ Begin(sl, a) = IF sl.start = Missing THEN n - 1 ELSE Adjusted(sl.start, n, -1, n - 1)
        /\ Finish(sl, a) = IF sl.stop = Missing THEN -1 ELSE Adjusted(sl.stop, n, -1, n - 1)
    BY <1>4 DEF Begin, Finish, AdjustIndices, n
  <2>3. Count(sl, a) = IF Finish(sl, a) < Begin(sl, a)
                       THEN (Begin(sl, a) - Finish(sl, a) - 1) \div (-sl.step) + 1 ELSE 0
    BY <1>4 DEF Begin, Finish, Count, AdjustIndices, n
  <2>4. /\ Bound(sl.start, n - 1, a, -1, n - 1)
             = IF sl.start = Missing THEN n - 1 ELSE Adjusted(sl.start, n, -1, n - 1)
        /\ Bound(sl.start, n - 1, a, -1, n - 1) \in -1..(n - 1)
    <3>1. -1 \in Int /\ n - 1 \in Int /\ -1 <= n - 1 /\ n - 1 <= n - 1
      BY <1>1
    <3>2. Len(a) = n
      BY DEF n
    <3> DEFINE i == sl.start
               low == -1
               high == n - 1
               default == n - 1
    <3>3. (i \in Int \/ i = Missing) /\ low \in Int /\ high \in Int /\ default \in Int
          /\ low <= high /\ low <= default /\ default <= high
      BY <1>2, <3>1
    <3> HIDE DEF i, low, high, default
    <3>4. /\ i = Missing => Bound(i, default, a, low, high) = default
          /\ i # Missing => Bound(i, default, a, low, high) = Adjusted(i, Len(a), low, high)
          /\ Bound(i, default, a, low, high) \in low..high
      BY <3>3, BoundIs
    <3> QED BY <3>2, <3>4, Zenon DEF i, low, high, default
  <2>5. /\ Bound(sl.stop, -1, a, -1, n - 1)
             = IF sl.stop = Missing THEN -1 ELSE Adjusted(sl.stop, n, -1, n - 1)
        /\ Bound(sl.stop, -1, a, -1, n - 1) \in -1..(n - 1)
    <3>1. -1 \in Int /\ n - 1 \in Int /\ -1 <= n - 1 /\ -1 <= -1
      BY <1>1
    <3>2. Len(a) = n
      BY DEF n
    <3> DEFINE i == sl.stop
               low == -1
               high == n - 1
               default == -1
    <3>3. (i \in Int \/ i = Missing) /\ low \in Int /\ high \in Int /\ default \in Int
          /\ low <= high /\ low <= default /\ default <= high
      BY <1>2, <3>1
    <3> HIDE DEF i, low, high, default
    <3>4. /\ i = Missing => Bound(i, default, a, low, high) = default
          /\ i # Missing => Bound(i, default, a, low, high) = Adjusted(i, Len(a), low, high)
          /\ Bound(i, default, a, low, high) \in low..high
      BY <3>3, BoundIs
    <3> QED BY <3>2, <3>4, Zenon DEF i, low, high, default
  <2> QED BY <1>2, <1>4, <2>1, <2>2, <2>3, <2>4, <2>5, Zenon DEF n
<1> QED
  <2>1. sl.step > 0 \/ sl.step < 0
    BY <1>2, SliceTypes
  <2> QED BY <1>3, <1>4, <2>1 DEF n

LEMMA SmallMultiple ==
    ASSUME NEW m \in Nat \ {0}, NEW t \in Int, NEW r \in 0..(m - 1), t * m = -r
    PROVE  r = 0
<1>1. (t < 0 => t * m + m <= 0 * m) /\ (t >= 0 => t * m >= 0) /\ t * m \in Int
  BY ProductOrder
<1>2. 0 * m = 0
  OBVIOUS
<1> DEFINE z == t * m
<1>3. (t < 0 => z + m <= 0) /\ (t >= 0 => z >= 0) /\ z = -r
  BY <1>1, <1>2
<1> HIDE DEF z
<1> QED BY <1>3

LEMMA ModuloNegative ==
    ASSUME NEW y \in Nat, NEW m \in Nat \ {0}
    PROVE  (-y) % m = 0 <=> y % m = 0
<1> DEFINE q == y \div m
           r == y % m
           p == (-y) \div m
           u == (-y) % m
<1>1. q \in Int /\ r \in 0..(m - 1) /\ y = q * m + r
  BY Divided
<1>2. p \in Int /\ u \in 0..(m - 1) /\ -y = p * m + u
  <2>1. -y \in Int
    OBVIOUS
  <2> DEFINE x == -y
  <2> HIDE DEF x
  <2>2. x \in Int => x \div m \in Int /\ x % m \in 0..(m - 1) /\ x = (x \div m) * m + (x % m)
    OBVIOUS
  <2> QED BY <2>1, <2>2 DEF x
<1> HIDE DEF q, r, p, u
<1>3. (q + p) * m = q * m + p * m /\ q * m \in Int /\ p * m \in Int
  BY <1>1, <1>2, SMT
<1>4. (q + p) * m = -(r + u) /\ q + p \in Int
  BY <1>1, <1>2, <1>3
<1>5. ASSUME r = 0 PROVE u = 0
  <2>1. (q + p) * m = -u
    BY <1>2, <1>4, <1>5
  <2> QED BY <1>2, <1>4, <2>1, SmallMultiple
<1>6. ASSUME u = 0 PROVE r = 0
  <2>1. (q + p) * m = -r
    BY <1>1, <1>4, <1>6
  <2> QED BY <1>1, <1>4, <2>1, SmallMultiple
<1> QED BY <1>5, <1>6 DEF r, u

\* The places of a slice, in the order in which the code visits them.
LEMMA PlacesFacts ==
    ASSUME NEW a \in Arrays, NEW sl \in Slices
    PROVE  /\ Count(sl, a) \in Nat /\ Begin(sl, a) \in Int
           /\ \A k \in 0..(Count(sl, a) - 1) : Begin(sl, a) + k * sl.step \in Spots(a)
           /\ Places(sl, a) = {Begin(sl, a) + k * sl.step : k \in 0..(Count(sl, a) - 1)}
<1> DEFINE n == Len(a)
           i == Begin(sl, a)
           j == Finish(sl, a)
           c == Count(sl, a)
           s == sl.step
<1>1. n \in Nat
  BY ElementFacts
<1>2. s \in Int /\ s # 0
  BY SliceTypes
<1>3. CASE s > 0
  <2>1. /\ i \in 0..n /\ i = Bound(sl.start, 0, a, 0, n)
        /\ j \in 0..n /\ j = Bound(sl.stop, n, a, 0, n)
        /\ c = IF i < j THEN (j - i - 1) \div s + 1 ELSE 0
    BY <1>3, EndsFacts
  <2>2. Places(sl, a) = {x \in 0..(n - 1) : i <= x /\ x < j /\ (x - i) % s = 0}
    <3> HIDE DEF i, j
    <3> QED BY <1>3, <2>1 DEF Places
  <2> HIDE DEF n, i, j, c, s
  <2>3. CASE i < j
    <3> DEFINE d == j - i - 1
               e == d \div s
    <3>1. d \in Nat /\ s \in Nat \ {0} /\ i \in Nat /\ j \in Nat /\ j <= n
      BY <1>1, <1>2, <1>3, <2>1, <2>3
    <3>2. /\ e \in Nat
          /\ \A k \in 0..e : k * s \in 0..d /\ (k * s) % s = 0
          /\ \A y \in 0..d : y % s = 0 => \E k \in 0..e : y = k * s
      <4> HIDE DEF d
      <4> QED BY <3>1, Multiples
    <3>3. c = e + 1
      BY <2>1, <2>3
    <3> HIDE DEF e
    <3>4. c \in Nat /\ 0..(c - 1) = 0..e
      BY <3>2, <3>3
    <3>5. ASSUME NEW k \in 0..e PROVE i + k * s \in 0..(n - 1) /\ i + k * s \in Places(sl, a)
      <4> DEFINE y == k * s
      <4>1. y \in 0..d /\ y % s = 0
        BY <3>2
      <4> HIDE DEF y
      <4>2. i + y \in 0..(n - 1) /\ i <= i + y /\ i + y < j /\ (i + y) - i = y
        BY <1>1, <3>1, <4>1
      <4> QED BY <2>2, <4>1, <4>2 DEF y
    <3>6. ASSUME NEW x \in Places(sl, a) PROVE \E k \in 0..e : x = i + k * s
      <4>1. x \in Nat /\ i <= x /\ x < j /\ (x - i) % s = 0
        BY <1>1, <2>2
      <4>2. x - i \in 0..d
        BY <3>1, <4>1
      <4>3. PICK k \in 0..e : x - i = k * s
        BY <3>2, <4>1, <4>2
      <4>4. x = i + k * s
        BY <3>1, <4>1, <4>3
      <4> QED BY <4>4
    <3>7. Places(sl, a) = {i + k * s : k \in 0..e}
      BY <3>5, <3>6
    <3>8. \A k \in 0..e : i + k * s \in 0..(n - 1)
      BY <3>5
    <3> HIDE DEF d
    <3>9. i \in Int
      BY <3>1
    <3> QED BY <3>4, <3>7, <3>8, <3>9 DEF Spots, n, i, c, s
  <2>4. CASE ~(i < j)
    <3>1. c = 0 /\ i \in Int /\ j \in Int
      BY <2>1, <2>4
    <3>2. Places(sl, a) = {}
      BY <1>1, <2>2, <2>4, <3>1
    <3>3. 0..(c - 1) = {}
      BY <3>1
    <3> QED BY <3>1, <3>2, <3>3 DEF i, c, s
  <2> QED BY <2>3, <2>4
<1>4. CASE s < 0
  <2>1. /\ i \in -1..(n - 1) /\ i = Bound(sl.start, n - 1, a, -1, n - 1)
        /\ j \in -1..(n - 1) /\ j = Bound(sl.stop, -1, a, -1, n - 1)
        /\ c = IF j < i THEN (i - j - 1) \div (-s) + 1 ELSE 0
    BY <1>4, EndsFacts
  <2>0. ~(s > 0)
    BY <1>2, <1>4
  <2>2. Places(sl, a) = {x \in 0..(n - 1) : j < x /\ x <= i /\ (x - i) % (-s) = 0}
    <3> HIDE DEF i, j
    <3> QED BY <2>0, <2>1 DEF Places
  <2> HIDE DEF n, i, j, c, s
  <2>3. CASE j < i
    <3> DEFINE d == i - j - 1
               m == -s
               e == d \div m
    <3>1. d \in Nat /\ m \in Nat \ {0} /\ i \in Nat /\ j \in Int /\ -1 <= j /\ i < n /\ s = -m
      BY <1>1, <1>2, <1>4, <2>1, <2>3
    <3>2. /\ e \in Nat
          /\ \A k \in 0..e : k * m \in 0..d /\ (k * m) % m = 0
          /\ \A y \in 0..d : y % m = 0 => \E k \in 0..e : y = k * m
      <4> HIDE DEF d, m
      <4> QED BY <3>1, Multiples
    <3>3. c = e + 1
      BY <2>1, <2>3
    <3>10. \A k \in Int : k * s = -(k * m)
      BY <1>2, SMT
    <3> HIDE DEF e
    <3>4. c \in Nat /\ 0..(c - 1) = 0..e
      BY <3>2, <3>3
    <3>11. Places(sl, a) = {x \in 0..(n - 1) : j < x /\ x <= i /\ (x - i) % m = 0}
      BY <2>2
    <3> HIDE DEF m
    <3>5. ASSUME NEW k \in 0..e PROVE i + k * s \in 0..(n - 1) /\ i + k * s \in Places(sl, a)
      <4> DEFINE y == k * m
                 z == k * s
      <4>1. y \in 0..d /\ y % m = 0 /\ z = -y
        BY <3>2, <3>10
      <4> HIDE DEF y, z
      <4>2. i + z \in 0..(n - 1) /\ i + z <= i /\ j < i + z /\ (i + z) - i = -y /\ y \in Nat
        BY <1>1, <3>1, <4>1
      <4>3. (-y) % m = 0
        BY <3>1, <4>1, <4>2, ModuloNegative
      <4>4. ((i + z) - i) % m = 0
        BY <4>2, <4>3
      <4> QED BY <3>11, <4>2, <4>4 DEF z
    <3>6. ASSUME NEW x \in Places(sl, a) PROVE \E k \in 0..e : x = i + k * s
      <4>1. x \in Nat /\ x <= i /\ j < x /\ (x - i) % m = 0
        BY <1>1, <3>11
      <4> DEFINE y == i - x
      <4>2. y \in 0..d /\ x - i = -y /\ y \in Nat
        BY <3>1, <4>1
      <4>3. y % m = 0
        <5>1. (-y) % m = 0
          BY <4>1, <4>2
        <5> HIDE DEF y
        <5> QED BY <3>1, <4>2, <5>1, ModuloNegative
      <4>4. PICK k \in 0..e : y = k * m
        <5> HIDE DEF y
        <5> QED BY <3>2, <4>2, <4>3
      <4>5. k * s = -y
        BY <3>10, <4>4
      <4> DEFINE z == k * s
      <4>6. z = -y
        BY <4>5
      <4> HIDE DEF z
      <4>7. x = i + z
        BY <3>1, <4>1, <4>6
      <4> QED BY <4>7 DEF z
    <3>7. Places(sl, a) = {i + k * s : k \in 0..e}
      BY <3>5, <3>6
    <3>8. \A k \in 0..e : i + k * s \in 0..(n - 1)
      BY <3>5
    <3> HIDE DEF d
    <3>9. i \in Int
      BY <3>1
    <3> QED BY <3>4, <3>7, <3>8, <3>9 DEF Spots, n, i, c, s
  <2>4. CASE ~(j < i)
    <3>1. c = 0 /\ i \in Int /\ j \in Int
      BY <1>1, <2>1, <2>4
    <3>2. Places(sl, a) = {}
      BY <1>1, <2>2, <2>4, <3>1
    <3>3. 0..(c - 1) = {}
      BY <3>1
    <3> QED BY <3>1, <3>2, <3>3 DEF i, c, s
  <2> QED BY <2>3, <2>4
<1> QED BY <1>2, <1>3, <1>4

\* The slice visits Count places, one step from each to the next.
LEMMA VisitedIs ==
    ASSUME NEW a \in Arrays, NEW sl \in Slices
    PROVE  /\ IsFiniteSet(Places(sl, a)) /\ Cardinality(Places(sl, a)) = Count(sl, a)
           /\ Places(sl, a) \subseteq Spots(a)
           /\ Visited(sl, a) = [k \in 1..Count(sl, a) |-> Begin(sl, a) + (k - 1) * sl.step]
<1> DEFINE P == Places(sl, a)
           i == Begin(sl, a)
           c == Count(sl, a)
           s == sl.step
           w == [k \in 0..(c - 1) |-> i + k * s]
           up == [k \in 1..Cardinality(P) |-> Kth(P, k)]
<1>1. /\ c \in Nat /\ i \in Int
      /\ \A k \in 0..(c - 1) : i + k * s \in Spots(a)
      /\ P = {i + k * s : k \in 0..(c - 1)}
  BY PlacesFacts
<1>2. s \in Int /\ s # 0
  BY SliceTypes
<1>3. Visited(sl, a) = IF s > 0 THEN up ELSE Reverse(up)
  BY DEF Visited
<1> HIDE DEF P, i, c, s
<1>4. /\ \A k \in 0..(c - 1) : w[k] = i + k * s /\ w[k] \in Spots(a) /\ w[k] \in Int
      /\ P = {w[k] : k \in 0..(c - 1)}
  <2>1. \A k \in 0..(c - 1) : w[k] = i + k * s /\ w[k] \in Spots(a)
    BY <1>1
  <2>2. \A x \in Spots(a) : x \in Int
    BY DEF Spots
  <2>3. P = {w[k] : k \in 0..(c - 1)}
    <3> HIDE DEF w
    <3> QED BY <1>1, <2>1
  <2> HIDE DEF w
  <2> QED BY <2>1, <2>2, <2>3
<1>5. P \subseteq Spots(a)
  BY <1>4
<1>6. \A j, k \in 0..(c - 1) : j < k => IF s > 0 THEN w[j] < w[k] ELSE w[k] < w[j]
  <2> TAKE j, k \in 0..(c - 1)
  <2> HAVE j < k
  <2>1. j \in Int /\ k \in Int /\ j * s \in Int /\ k * s \in Int
    BY <1>2, SMT
  <2>2. CASE s > 0
    <3>1. j * s + s <= k * s
      <4>1. s \in Nat \ {0}
        BY <1>2, <2>2
      <4> QED BY <2>1, <4>1, ProductOrder
    <3>2. w[j] = i + j * s /\ w[k] = i + k * s
      BY <1>4
    <3> HIDE DEF w
    <3> QED BY <1>1, <1>2, <2>1, <2>2, <3>1, <3>2
  <2>3. CASE ~(s > 0)
    <3> DEFINE m == -s
    <3>1. m \in Nat \ {0}
      BY <1>2, <2>3
    <3>2. j * s = -(j * m) /\ k * s = -(k * m) /\ j * m \in Int /\ k * m \in Int
      BY <1>2, <2>1, SMT
    <3> HIDE DEF m
    <3>3. j * m + m <= k * m
      BY <2>1, <3>1, ProductOrder
    <3>4. w[j] = i + j * s /\ w[k] = i + k * s
      BY <1>4
    <3> HIDE DEF w
    <3>5. w[k] < w[j]
      BY <1>1, <2>1, <3>1, <3>2, <3>3, <3>4
    <3> QED BY <2>3, <3>5
  <2> QED BY <2>2, <2>3
<1> HIDE DEF w
<1>7. CASE s > 0
  <2> DEFINE f == [k \in 1..c |-> w[k - 1]]
  <2>1. \A k \in 1..c : f[k] = w[k - 1] /\ k - 1 \in 0..(c - 1)
    BY <1>1
  <2>2. (\A k \in 1..c : f[k] \in P) /\ \A x \in P : \E k \in 1..c : x = f[k]
    <3>1. \A k \in 0..(c - 1) : k + 1 \in 1..c /\ (k + 1) - 1 = k
      BY <1>1
    <3> HIDE DEF f
    <3>2. \A k \in 0..(c - 1) : \E q \in 1..c : w[k] = f[q]
      <4> TAKE k \in 0..(c - 1)
      <4>1. w[k] = f[k + 1]
        BY <2>1, <3>1
      <4> QED BY <3>1, <4>1
    <3> QED BY <1>4, <2>1, <3>2
  <2> HIDE DEF f
  <2>3. \A j, k \in 1..c : j < k => f[j] < f[k]
    <3> TAKE j, k \in 1..c
    <3> HAVE j < k
    <3>1. j - 1 \in 0..(c - 1) /\ k - 1 \in 0..(c - 1) /\ j - 1 < k - 1
      BY <1>1
    <3>2. w[j - 1] < w[k - 1]
      BY <1>6, <1>7, <3>1
    <3> QED BY <2>1, <3>2
  <2>4. c \in Nat /\ \A k \in 1..c : f[k] \in Int
    BY <1>1, <1>4, <2>1
  <2>5. IsFiniteSet(P) /\ Cardinality(P) = c /\ \A k \in 1..c : Kth(P, k) = f[k]
    BY <2>2, <2>3, <2>4, Enumerates
  <2>6. Visited(sl, a) = [k \in 1..c |-> i + (k - 1) * s]
    <3>1. \A k \in 1..c : Kth(P, k) = i + (k - 1) * s
      BY <1>4, <2>1, <2>5
    <3>2. up = [k \in 1..c |-> i + (k - 1) * s]
      BY <2>5, <3>1
    <3> QED BY <1>3, <1>7, <3>2
  <2> QED BY <1>5, <2>5, <2>6 DEF P, i, c, s
<1>8. CASE ~(s > 0)
  <2> DEFINE f == [k \in 1..c |-> w[c - k]]
  <2>1. \A k \in 1..c : f[k] = w[c - k] /\ c - k \in 0..(c - 1)
    BY <1>1
  <2>2. (\A k \in 1..c : f[k] \in P) /\ \A x \in P : \E k \in 1..c : x = f[k]
    <3>1. \A k \in 0..(c - 1) : c - k \in 1..c /\ c - (c - k) = k
      BY <1>1
    <3> HIDE DEF f
    <3>2. \A k \in 0..(c - 1) : \E q \in 1..c : w[k] = f[q]
      <4> TAKE k \in 0..(c - 1)
      <4>1. w[k] = f[c - k]
        BY <2>1, <3>1
      <4> QED BY <3>1, <4>1
    <3> QED BY <1>4, <2>1, <3>2
  <2> HIDE DEF f
  <2>3. \A j, k \in 1..c : j < k => f[j] < f[k]
    <3> TAKE j, k \in 1..c
    <3> HAVE j < k
    <3>1. c - j \in 0..(c - 1) /\ c - k \in 0..(c - 1) /\ c - k < c - j
      BY <1>1
    <3>2. w[c - j] < w[c - k]
      BY <1>6, <1>8, <3>1
    <3> QED BY <2>1, <3>2
  <2>4. c \in Nat /\ \A k \in 1..c : f[k] \in Int
    BY <1>1, <1>4, <2>1
  <2>5. IsFiniteSet(P) /\ Cardinality(P) = c /\ \A k \in 1..c : Kth(P, k) = f[k]
    BY <2>2, <2>3, <2>4, Enumerates
  <2>6. up \in Seq(Int) /\ Len(up) = c /\ \A k \in 1..c : up[k] = f[k]
    <3>1. up \in [1..c -> Int] /\ \A k \in 1..c : up[k] = f[k]
      BY <2>4, <2>5
    <3> HIDE DEF up
    <3> QED BY <1>1, <3>1, SeqDef, LenProperties
  <2> HIDE DEF up
  <2>7. Visited(sl, a) = [k \in 1..c |-> i + (k - 1) * s]
    <3>1. Reverse(up) = [k \in 1..c |-> up[(c - k) + 1]]
      BY <2>6 DEF Reverse
    <3>2. ASSUME NEW k \in 1..c PROVE up[(c - k) + 1] = i + (k - 1) * s
      <4>1. (c - k) + 1 \in 1..c /\ c - ((c - k) + 1) = k - 1 /\ k - 1 \in 0..(c - 1)
        BY <1>1
      <4> QED BY <1>4, <2>1, <2>6, <4>1
    <3>3. Reverse(up) = [k \in 1..c |-> i + (k - 1) * s]
      BY <3>1, <3>2
    <3> QED BY <1>3, <1>8, <3>3
  <2> QED BY <1>5, <2>5, <2>7 DEF P, i, c, s
<1> QED BY <1>7, <1>8

\* With a step of 1 the places are those from one end to the other.
LEMMA PlainSlice ==
    ASSUME NEW a \in Arrays, NEW sl \in Slices, sl.step = 1
    PROVE  /\ Begin(sl, a) \in 0..Len(a) /\ Begin(sl, a) = Gap(sl, a)
           /\ Finish(sl, a) \in 0..Len(a)
           /\ Begin(sl, a) < Finish(sl, a) => Count(sl, a) = Finish(sl, a) - Begin(sl, a)
           /\ ~(Begin(sl, a) < Finish(sl, a)) => Count(sl, a) = 0
<1> DEFINE i == Begin(sl, a)
           j == Finish(sl, a)
<1>1. sl.step > 0
  OBVIOUS
<1>2. /\ i \in 0..Len(a) /\ i = Bound(sl.start, 0, a, 0, Len(a))
      /\ j \in 0..Len(a)
      /\ Count(sl, a) = IF i < j THEN (j - i - 1) \div sl.step + 1 ELSE 0
  BY <1>1, EndsFacts
<1>3. i = Gap(sl, a)
  BY <1>2 DEF Gap
<1> HIDE DEF i, j
<1>4. Len(a) \in Nat
  BY ElementFacts
<1>5. i < j => (j - i - 1) \div 1 = j - i - 1
  <2>1. i < j => j - i - 1 \in Nat
    BY <1>2, <1>4
  <2>2. \A d \in Nat : d \div 1 = d
    OBVIOUS
  <2> QED BY <2>1, <2>2
<1>6. i < j => Count(sl, a) = j - i
  BY <1>2, <1>4, <1>5
<1> QED BY <1>2, <1>3, <1>6 DEF i, j

LEMMA GetSliceIs ==
    ASSUME NEW a \in Arrays, NEW sl \in Slices
    PROVE  GetSlice(a, sl) = Ok(a, [k \in 1..Count(sl, a) |-> a[Visited(sl, a)[k] + 1]])
<1> DEFINE i == Begin(sl, a)
           c == Count(sl, a)
           s == sl.step
           v == Visited(sl, a)
           r == [k \in 1..c |-> GetElement(a, i + (k - 1) * s)]
<1>1. /\ c \in Nat /\ i \in Int
      /\ \A k \in 0..(c - 1) : i + k * s \in Spots(a)
  BY PlacesFacts
<1>2. v = [k \in 1..c |-> i + (k - 1) * s]
  BY VisitedIs
<1>3. GetSlice(a, sl) = CASE c <= 0 -> Ok(a, <<>>)
                          [] c > 0 /\ s = 1 -> Ok(a, JSSlice(a, i, Finish(sl, a)))
                          [] OTHER -> Ok(a, r)
  BY DEF GetSlice, Begin, Finish, Count
<1> HIDE DEF i, c, s, v
<1>4. \A k \in 1..c : v[k] = i + (k - 1) * s /\ v[k] \in Spots(a)
  <2>1. \A k \in 1..c : k - 1 \in 0..(c - 1)
    BY <1>1
  <2> QED BY <1>1, <1>2, <2>1
<1>5. r = [k \in 1..c |-> a[v[k] + 1]]
  <2>1. \A k \in 1..c : GetElement(a, i + (k - 1) * s) = a[v[k] + 1]
    BY <1>4, ElementFacts
  <2> QED BY <2>1
<1>6. CASE c <= 0
  <2>1. c = 0
    BY <1>1, <1>6
  <2>2. [k \in 1..c |-> a[v[k] + 1]] = <<>>
    BY <2>1
  <2>3. GetSlice(a, sl) = Ok(a, <<>>)
    <3>1. ~(c > 0)
      BY <2>1
    <3> HIDE DEF r
    <3> QED BY <1>3, <1>6, <3>1
  <2> QED BY <2>2, <2>3, Zenon DEF c, v
<1>7. CASE c > 0 /\ s = 1
  <2> DEFINE j == Finish(sl, a)
             b == SubSeq(a, i + 1, j)
  <2>1. i \in 0..Len(a) /\ j \in 0..Len(a) /\ i < j /\ c = j - i
    BY <1>7, PlainSlice DEF i, c, s
  <2> HIDE DEF j
  <2>2. i \in Int /\ j \in Int /\ 0 <= i /\ i <= j /\ j <= Len(a)
    BY <2>1, ElementFacts
  <2>3. b \in Arrays /\ Len(b) = c /\ \A k \in 0..(c - 1) : GetElement(b, k) = GetElement(a, i + k)
    <3>1. b \in Arrays /\ Len(b) = j - i /\ \A k \in 0..(j - i - 1) : GetElement(b, k) = GetElement(a, i + k)
      BY <2>2, CutFacts
    <3> HIDE DEF b
    <3> QED BY <2>1, <3>1
  <2> HIDE DEF b
  <2>4. b = [k \in 1..c |-> b[k]]
    BY <2>3 DEF Arrays
  <2>5. ASSUME NEW k \in 1..c PROVE b[k] = a[v[k] + 1]
    <3>1. k - 1 \in 0..(c - 1) /\ (k - 1) * s = k - 1
      BY <1>1, <1>7
    <3>2. b[k] = GetElement(a, i + (k - 1))
      BY <2>3, <3>1, ElementFacts
    <3>3. v[k] = i + (k - 1) /\ v[k] \in Spots(a)
      BY <1>4, <3>1
    <3> QED BY <3>2, <3>3, ElementFacts
  <2>6. b = [k \in 1..c |-> a[v[k] + 1]]
    BY <2>4, <2>5
  <2>7. JSSlice(a, i, Finish(sl, a)) = b
    BY DEF JSSlice, b, j
  <2>8. ~(c <= 0)
    BY <1>1, <1>7
  <2> QED BY <1>3, <1>7, <2>6, <2>7, <2>8 DEF c, v
<1>8. CASE ~(c <= 0) /\ ~(c > 0 /\ s = 1)
  BY <1>3, <1>5, <1>8 DEF c, v
<1> QED BY <1>6, <1>7, <1>8

\* The elements of a where those from p up to q are replaced by those of s.
Spliced(c, a, s, p, q) ==
    /\ c \in Arrays /\ Len(c) = p + Len(s) + (Len(a) - q)
    /\ \A i \in 0..(p - 1) : GetElement(c, i) = GetElement(a, i)
    /\ \A k \in 0..(Len(s) - 1) : GetElement(c, p + k) = GetElement(s, k)
    /\ \A i \in q..(Len(a) - 1) : GetElement(c, (i - q) + p + Len(s)) = GetElement(a, i)

LEMMA SpliceFacts ==
    ASSUME NEW a \in Arrays, NEW s \in Arrays, NEW p \in Int, NEW q \in Int, 0 <= p, p <= q, q <= Len(a),
           NEW c, c = SubSeq(a, 1, p) \o s \o SubSeq(a, q + 1, Len(a))
    PROVE  Spliced(c, a, s, p, q)
<1> DEFINE n == Len(a)
           m == Len(s)
           x == SubSeq(a, 1, p)
           z == SubSeq(a, q + 1, n)
           y == x \o s
<1>1. n \in Nat /\ m \in Nat
  BY ElementFacts
<1>2. x \in Arrays /\ Len(x) = p /\ \A i \in 0..(p - 1) : GetElement(x, i) = GetElement(a, i)
  <2> DEFINE o == 0
  <2>1. o \in Int /\ 0 <= o /\ o <= p /\ p <= Len(a) /\ o + 1 = 1 /\ p - o = p /\ \A i \in Int : o + i = i
    BY <1>1
  <2> HIDE DEF o
  <2>2. SubSeq(a, o + 1, p) \in Arrays /\ Len(SubSeq(a, o + 1, p)) = p - o
        /\ \A i \in 0..(p - o - 1) : GetElement(SubSeq(a, o + 1, p), i) = GetElement(a, o + i)
    BY <2>1, CutFacts
  <2>3. SubSeq(a, o + 1, p) = x
    BY <2>1
  <2> HIDE DEF x
  <2>4. \A i \in 0..(p - 1) : i \in 0..(p - o - 1) /\ o + i = i
    BY <2>1
  <2> QED BY <2>1, <2>2, <2>3, <2>4
<1>3. z \in Arrays /\ Len(z) = n - q /\ \A i \in 0..(n - q - 1) : GetElement(z, i) = GetElement(a, q + i)
  <2>1. n \in Int /\ 0 <= q /\ q <= n /\ n <= Len(a)
    BY <1>1
  <2> HIDE DEF n
  <2> QED BY <2>1, CutFacts
<1> HIDE DEF x, z, n, m
<1>4. y \in Arrays /\ Len(y) = p + m
      /\ \A i \in 0..(p + m - 1) : GetElement(y, i) = IF i < p THEN GetElement(x, i) ELSE GetElement(s, i - p)
  BY <1>2, JoinFacts DEF m
<1> HIDE DEF y
<1>5. c = y \o z
  BY DEF x, y, z, n
<1>6. c \in Arrays /\ Len(c) = (p + m) + (n - q)
      /\ \A i \in 0..((p + m) + (n - q) - 1) :
           GetElement(c, i) = IF i < p + m THEN GetElement(y, i) ELSE GetElement(z, i - (p + m))
  <2> DEFINE k == Len(y)
             l == Len(z)
  <2>1. c \in Arrays /\ Len(c) = k + l
        /\ \A i \in 0..(k + l - 1) : GetElement(c, i) = IF i < k THEN GetElement(y, i) ELSE GetElement(z, i - k)
    <3>1. y \in Arrays /\ z \in Arrays
      BY <1>3, <1>4
    <3>2. y \o z \in Arrays /\ Len(y \o z) = Len(y) + Len(z)
          /\ \A i \in 0..(Len(y) + Len(z) - 1) :
               GetElement(y \o z, i) = IF i < Len(y) THEN GetElement(y, i) ELSE GetElement(z, i - Len(y))
      BY <3>1, JoinFacts
    <3> QED BY <1>5, <3>2, Zenon
  <2>2. k = p + m /\ l = n - q
    BY <1>3, <1>4
  <2> HIDE DEF k, l
  <2> QED BY <2>1, <2>2
<1>7. ASSUME NEW i \in 0..(p - 1) PROVE GetElement(c, i) = GetElement(a, i)
  <2>1. i \in 0..((p + m) + (n - q) - 1) /\ i < p + m /\ i \in 0..(p + m - 1) /\ i < p
    BY <1>1 DEF n
  <2> QED BY <1>2, <1>4, <1>6, <2>1
<1>8. ASSUME NEW k \in 0..(m - 1) PROVE GetElement(c, p + k) = GetElement(s, k)
  <2>1. p + k \in 0..((p + m) + (n - q) - 1) /\ p + k < p + m /\ p + k \in 0..(p + m - 1) /\ ~(p + k < p)
        /\ (p + k) - p = k
    BY <1>1 DEF n
  <2> QED BY <1>4, <1>6, <2>1
<1>9. ASSUME NEW i \in q..(n - 1) PROVE GetElement(c, (i - q) + p + m) = GetElement(a, i)
  <2> DEFINE j == (i - q) + p + m
  <2>1. j \in 0..((p + m) + (n - q) - 1) /\ ~(j < p + m) /\ j - (p + m) = i - q
        /\ i - q \in 0..(n - q - 1) /\ q + (i - q) = i
    BY <1>1
  <2> HIDE DEF j
  <2>2. GetElement(c, j) = GetElement(a, i)
    BY <1>3, <1>6, <2>1
  <2> QED BY <2>2 DEF j
<1>10. (p + m) + (n - q) = p + m + (n - q)
  BY <1>1
<1> QED BY <1>6, <1>7, <1>8, <1>9, <1>10 DEF n, m, Spliced

LEMMA SpliceIs ==
    ASSUME NEW a \in Arrays, NEW s \in Arrays, NEW p \in Int, NEW q \in Int, 0 <= p, p <= q, q <= Len(a),
           NEW b, Spliced(b, a, s, p, q)
    PROVE  b = SubSeq(a, 1, p) \o s \o SubSeq(a, q + 1, Len(a))
<1> DEFINE c == SubSeq(a, 1, p) \o s \o SubSeq(a, q + 1, Len(a))
           m == Len(s)
           n == Len(a)
<1>1. /\ c \in Arrays /\ Len(c) = p + m + (n - q)
      /\ \A i \in 0..(p - 1) : GetElement(c, i) = GetElement(a, i)
      /\ \A k \in 0..(m - 1) : GetElement(c, p + k) = GetElement(s, k)
      /\ \A i \in q..(n - 1) : GetElement(c, (i - q) + p + m) = GetElement(a, i)
  <2> DEFINE d == c
  <2>1. d = SubSeq(a, 1, p) \o s \o SubSeq(a, q + 1, Len(a))
    OBVIOUS
  <2> HIDE DEF d
  <2>2. Spliced(d, a, s, p, q)
    BY <2>1, SpliceFacts
  <2> QED BY <2>2 DEF d, Spliced
<1> HIDE DEF c
<1>2. n \in Nat /\ m \in Nat
  BY ElementFacts
<1>3. /\ b \in Arrays /\ Len(b) = p + m + (n - q)
      /\ \A i \in 0..(p - 1) : GetElement(b, i) = GetElement(a, i)
      /\ \A k \in 0..(m - 1) : GetElement(b, p + k) = GetElement(s, k)
      /\ \A i \in q..(n - 1) : GetElement(b, (i - q) + p + m) = GetElement(a, i)
  BY DEF Spliced
<1> HIDE DEF m
<1>4. ASSUME NEW j \in Spots(b) PROVE GetElement(b, j) = GetElement(c, j)
  <2>1. j \in Nat /\ j < p + m + (n - q)
    BY <1>2, <1>3 DEF Spots
  <2>2. CASE j < p
    <3>1. j \in 0..(p - 1)
      BY <2>1, <2>2
    <3> QED BY <1>1, <1>3, <3>1
  <2>3. CASE ~(j < p) /\ j < p + m
    <3> DEFINE k == j - p
    <3>1. k \in 0..(m - 1) /\ p + k = j
      BY <1>2, <2>1, <2>3
    <3> HIDE DEF k
    <3> QED BY <1>1, <1>3, <3>1
  <2>4. CASE ~(j < p + m)
    <3> DEFINE i == (j - (p + m)) + q
    <3>1. i \in q..(n - 1) /\ (i - q) + p + m = j
      BY <1>2, <2>1, <2>4
    <3> HIDE DEF i, n
    <3> QED BY <1>1, <1>3, <3>1
  <2> QED BY <1>2, <2>1, <2>2, <2>3, <2>4
<1>5. Len(b) = Len(c)
  BY <1>1, <1>3
<1>6. b = c
  BY <1>1, <1>3, <1>4, <1>5, SameArray
<1> QED BY <1>6 DEF c

\* A run of q - low elements is replaced by m, and what lies behind moves by d.
Balance(i, q, low, m, d) ==
    i \in Int /\ q \in Int /\ low \in Int /\ m \in Int /\ d \in Int /\ low + m = q + d

LEMMA ShiftedPlace ==
    ASSUME NEW i, NEW q, NEW low, NEW m, NEW d, Balance(i, q, low, m, d)
    PROVE  (i - q) + low + m = i + d /\ ((i - q) + low + m) - d = i /\ (i - q) + low + m \in Int
  BY DEF Balance

\* What list_ass_slice does when the elements behind the slice do not run over
\* one another.
LEMMA AssSliceIs ==
    ASSUME NEW a \in Arrays, NEW low \in 0..Len(a), NEW high \in 0..Len(a), NEW s \in Arrays,
           NEW q \in Int, q = Most(high, low),
           Len(s) - (q - low) <= 0 \/ Len(a) - q <= Len(s) - (q - low)
    PROVE  list_ass_slice(a, low, high, s) = SubSeq(a, 1, low) \o s \o SubSeq(a, q + 1, Len(a))
<1> DEFINE n == Len(a)
           m == Len(s)
           d == m - (q - low)
           long == IF d > 0 THEN SetArrayLength(a, n + d) ELSE a
           moved == Moved(long, q, n, d)
           sized == IF d < 0 THEN SetArrayLength(moved, n + d) ELSE moved
           b == Stored(sized, low, 1, s)
<1>1. n \in Nat /\ m \in Nat /\ low \in Nat /\ low <= q /\ q <= n /\ q \in Nat /\ low + m = q + d
  BY ElementFacts DEF Most
<1>2. list_ass_slice(a, low, high, s) = b
  <2>1. Least(Most(low, 0), n) = low
    BY <1>1 DEF Least, Most
  <2>2. Least(Most(high, low), n) = q
    BY <1>1 DEF Least
  <2> QED BY <2>1, <2>2 DEF list_ass_slice
<1>3. d \in Int /\ low - q <= d /\ (d <= 0 \/ n - q <= d) /\ n + d \in Nat
  BY <1>1
<1> HIDE DEF d, n, m
<1>4. long \in Arrays /\ (d > 0 => Len(long) = n + d) /\ (d <= 0 => long = a)
      /\ \A i \in Spots(a) : GetElement(long, i) = GetElement(a, i)
  <2>1. CASE d > 0
    <3>1. /\ long \in Arrays /\ Len(long) = n + d
          /\ \A i \in 0..((n + d) - 1) : GetElement(long, i) = GetElement(a, i)
      <4>1. long = SetArrayLength(a, n + d)
        BY <2>1
      <4> HIDE DEF long
      <4> QED BY <1>3, <4>1, ResizeFacts
    <3>2. \A i \in Spots(a) : i \in 0..((n + d) - 1)
      BY <1>1, <1>3, <2>1 DEF Spots, n
    <3> HIDE DEF long
    <3> QED BY <1>3, <2>1, <3>1, <3>2
  <2>2. CASE ~(d > 0)
    <3>1. long = a
      BY <2>2
    <3> HIDE DEF long
    <3> QED BY <2>2, <3>1
  <2> QED BY <2>1, <2>2
<1> HIDE DEF long
<1>5. n <= Len(long) /\ n + d <= Len(long) /\ Len(long) \in Nat
  BY <1>1, <1>3, <1>4, ElementFacts DEF n
<1>6. Shifts(long, moved, q, n, d)
  <2>1. q \in Int /\ n \in Int /\ 0 <= q /\ q + d >= 0 /\ (d <= 0 \/ n <= q + d)
    BY <1>1, <1>3
  <2> QED BY <1>3, <1>4, <1>5, <2>1, MovedFacts
<1> HIDE DEF moved
<1>7. moved \in Arrays /\ Len(moved) = Len(long)
      /\ \A i \in Spots(long) : GetElement(moved, i) = IF q + d <= i /\ i < n + d THEN GetElement(long, i - d)
                                                       ELSE GetElement(long, i)
  BY <1>6 DEF Shifts
<1>8. sized \in Arrays /\ Len(sized) = n + d
      /\ \A i \in 0..((n + d) - 1) : GetElement(sized, i) = GetElement(moved, i)
  <2>1. CASE d < 0
    <3>1. sized = SetArrayLength(moved, n + d)
      BY <2>1
    <3> HIDE DEF sized
    <3> QED BY <1>3, <1>7, <3>1, ResizeFacts
  <2>2. CASE ~(d < 0)
    <3>1. sized = moved
      BY <2>2
    <3>2. Len(moved) = n + d
      <4>1. CASE d > 0
        BY <1>4, <1>7, <4>1
      <4>2. CASE d = 0
        BY <1>1, <1>4, <1>7, <4>2 DEF n
      <4> QED BY <1>3, <2>2, <4>1, <4>2
    <3> HIDE DEF sized
    <3> QED BY <1>7, <3>1, <3>2
  <2> QED BY <2>1, <2>2
<1> HIDE DEF sized
<1>9. Fills(sized, b, low, 1, s, m)
  <2>1. ASSUME NEW k \in 0..(m - 1) PROVE low + k * 1 \in Spots(sized)
    <3>1. k \in Nat /\ k * 1 = k /\ low + k < n + d /\ low + k \in Nat
      BY <1>1, <1>3
    <3> QED BY <1>1, <1>3, <1>8, <3>1 DEF Spots
  <2>2. low \in Int /\ 1 \in Int /\ 1 # 0
    BY <1>1
  <2> DEFINE one == 1
  <2>3. one \in Int /\ one # 0 /\ \A k \in 0..(Len(s) - 1) : low + k * one \in Spots(sized)
    BY <2>1, <2>2 DEF m
  <2> HIDE DEF one
  <2>4. Fills(sized, Stored(sized, low, one, s), low, one, s, Len(s))
    BY <1>8, <2>2, <2>3, StoredFacts
  <2> QED BY <2>4 DEF one, m
<1> HIDE DEF b
<1>10. b \in Arrays /\ Len(b) = n + d
       /\ (\A k \in 0..(m - 1) : GetElement(b, low + k) = s[k + 1])
       /\ \A i \in Spots(sized) : (\A k \in 0..(m - 1) : i # low + k) => GetElement(b, i) = GetElement(sized, i)
  <2>1. \A k \in 0..(m - 1) : k * 1 = k
    BY <1>1
  <2> QED BY <1>8, <1>9, <2>1 DEF Fills
<1>11. \A k \in 0..(m - 1) : GetElement(b, low + k) = GetElement(s, k)
  <2> TAKE k \in 0..(m - 1)
  <2>1. k \in Spots(s)
    BY DEF Spots, m
  <2> QED BY <1>10, <2>1, ElementFacts
<1>12. ASSUME NEW i \in 0..(low - 1) PROVE GetElement(b, i) = GetElement(a, i)
  <2>0. i \in Nat /\ i < low /\ i < n + d /\ i < n /\ ~(q + d <= i)
    BY <1>1, <1>3
  <2>4. i \in Spots(sized) /\ i \in Spots(long) /\ i \in Spots(a)
    BY <1>1, <1>3, <1>5, <1>8, <2>0 DEF Spots, n
  <2>1. /\ i \in Spots(sized) /\ i \in 0..((n + d) - 1) /\ i \in Spots(long) /\ i \in Spots(a)
        /\ ~(q + d <= i) /\ \A k \in 0..(m - 1) : i # low + k
    BY <1>1, <1>3, <2>0, <2>4
  <2>2. GetElement(b, i) = GetElement(sized, i) /\ GetElement(sized, i) = GetElement(moved, i)
    BY <1>8, <1>10, <2>1
  <2>3. GetElement(moved, i) = GetElement(long, i)
    BY <1>7, <2>1
  <2> QED BY <1>4, <2>1, <2>2, <2>3
<1>13. ASSUME NEW i \in q..(n - 1) PROVE GetElement(b, (i - q) + low + m) = GetElement(a, i)
  <2> DEFINE j == (i - q) + low + m
  <2>0. i \in Nat /\ q <= i /\ i < n
    BY <1>1
  <2>1. j = i + d /\ j - d = i /\ j \in Int
    <3>1. Balance(i, q, low, m, d)
      BY <1>1, <1>3, <2>0 DEF Balance
    <3>2. (i - q) + low + m = i + d /\ ((i - q) + low + m) - d = i /\ (i - q) + low + m \in Int
      BY <3>1, ShiftedPlace
    <3> QED BY <3>2
  <2> HIDE DEF j
  <2>5. j \in 0..((n + d) - 1) /\ q + d <= j /\ j < n + d /\ 0 <= j
    BY <1>1, <1>3, <2>0, <2>1
  <2>6. j \in Spots(sized) /\ j \in Spots(long) /\ i \in Spots(a)
    BY <1>1, <1>3, <1>5, <1>8, <2>0, <2>1, <2>5 DEF Spots, n
  <2>7. \A k \in 0..(m - 1) : j # low + k
    BY <1>1, <1>3, <2>1, <2>5
  <2>2. /\ j \in Spots(sized) /\ j \in 0..((n + d) - 1) /\ j \in Spots(long) /\ i \in Spots(a)
        /\ q + d <= j /\ j < n + d /\ \A k \in 0..(m - 1) : j # low + k
    BY <2>5, <2>6, <2>7
  <2>3. GetElement(b, j) = GetElement(sized, j) /\ GetElement(sized, j) = GetElement(moved, j)
    BY <1>8, <1>10, <2>2
  <2>4. GetElement(moved, j) = GetElement(long, i)
    BY <1>7, <2>1, <2>2
  <2>8. GetElement(b, j) = GetElement(a, i)
    BY <1>4, <2>2, <2>3, <2>4
  <2> QED BY <2>8 DEF j
<1>14. b = SubSeq(a, 1, low) \o s \o SubSeq(a, q + 1, Len(a))
  <2>1. low \in Int /\ 0 <= low /\ low <= q /\ q <= Len(a) /\ Len(b) = low + Len(s) + (Len(a) - q)
    BY <1>1, <1>3, <1>10 DEF n, m
  <2>2. Spliced(b, a, s, low, q)
    BY <1>10, <1>11, <1>12, <1>13, <2>1 DEF n, m, Spliced
  <2> QED BY <2>1, <2>2, SpliceIs
<1> QED BY <1>2, <1>14

\* What is left when a run of elements is taken out.
LEMMA WithoutRun ==
    ASSUME NEW a \in Arrays, NEW p \in Int, NEW q \in Int, 0 <= p, p <= q, q <= Len(a),
           NEW P, \A x : x \in P <=> x \in Int /\ p <= x /\ x < q
    PROVE  /\ SubSeq(a, 1, p) \o <<>> \o SubSeq(a, q + 1, Len(a)) \in Arrays
           /\ Without(a, P) = SubSeq(a, 1, p) \o <<>> \o SubSeq(a, q + 1, Len(a))
<1> DEFINE c == SubSeq(a, 1, p) \o <<>> \o SubSeq(a, q + 1, Len(a))
           e == <<>>
           n == Len(a)
<1>1. e \in Arrays /\ Len(e) = 0 /\ n \in Nat
  BY ElementFacts DEF Arrays
<1>2. c = SubSeq(a, 1, p) \o e \o SubSeq(a, q + 1, Len(a))
  OBVIOUS
<1> HIDE DEF c, e
<1>3. Spliced(c, a, e, p, q)
  BY <1>1, <1>2, SpliceFacts
<1>4. /\ c \in Arrays /\ Len(c) = n - (q - p)
      /\ \A i \in 0..(p - 1) : GetElement(c, i) = GetElement(a, i)
      /\ \A i \in q..(n - 1) : GetElement(c, i - (q - p)) = GetElement(a, i)
  <2>1. c \in Arrays /\ Len(c) = p + 0 + (n - q) /\ \A i \in 0..(p - 1) : GetElement(c, i) = GetElement(a, i)
    BY <1>1, <1>3 DEF Spliced
  <2>2. \A i \in q..(n - 1) : GetElement(c, (i - q) + p + 0) = GetElement(a, i)
    BY <1>1, <1>3 DEF Spliced
  <2>3. \A i \in q..(n - 1) : (i - q) + p + 0 = i - (q - p)
    OBVIOUS
  <2>4. p + 0 + (n - q) = n - (q - p)
    BY <1>1
  <2> HIDE DEF n
  <2> QED BY <2>1, <2>2, <2>3, <2>4
<1>5. IsFiniteSet(P) /\ Cardinality(P) = q - p /\ P \subseteq Spots(a)
  <2>1. P = p..(q - 1)
    <3>1. \A x : x \in p..(q - 1) <=> x \in Int /\ p <= x /\ x < q
      OBVIOUS
    <3>2. \A x : x \in P <=> x \in p..(q - 1)
      BY <3>1, Zenon
    <3> QED BY <3>2, Zenon
  <2>2. IsFiniteSet(p..(q - 1)) /\ Cardinality(p..(q - 1)) = q - p
    <3> DEFINE r == q - 1
    <3>1. r \in Int /\ (p > r => q - p = 0) /\ (~(p > r) => r - p + 1 = q - p)
      OBVIOUS
    <3> HIDE DEF r
    <3>2. IsFiniteSet(p..r) /\ Cardinality(p..r) = IF p > r THEN 0 ELSE r - p + 1
      BY <3>1, FS_Interval
    <3>3. Cardinality(p..r) = q - p
      BY <3>1, <3>2
    <3> QED BY <3>2, <3>3 DEF r
  <2>3. P \subseteq Spots(a)
    BY <1>1 DEF Spots
  <2> QED BY <2>1, <2>2, <2>3
<1>6. ASSUME NEW y \in Spots(a) \ P PROVE GetElement(c, y - Cardinality(Below(y, P))) = GetElement(a, y)
  <2>1. y \in Nat /\ y < n /\ ~(p <= y /\ y < q)
    BY <1>1 DEF Spots
  <2>2. CASE y < p
    <3>1. Below(y, P) = {}
      BY <2>1, <2>2 DEF Below
    <3>2. Cardinality(Below(y, P)) = 0
      BY <3>1, FS_EmptySet
    <3>3. y - Cardinality(Below(y, P)) = y /\ y \in 0..(p - 1)
      BY <2>1, <2>2, <3>2
    <3> QED BY <1>4, <3>3
  <2>3. CASE ~(y < p)
    <3>1. Below(y, P) = P
      BY <2>1, <2>3 DEF Below
    <3>2. y \in q..(n - 1)
      BY <1>1, <2>1, <2>3
    <3>3. y - Cardinality(Below(y, P)) = y - (q - p)
      BY <1>5, <3>1
    <3> QED BY <1>4, <3>2, <3>3
  <2> QED BY <2>2, <2>3
<1>7. Len(c) = Len(a) - Cardinality(P)
  BY <1>4, <1>5
<1>8. Without(a, P) = c
  BY <1>4, <1>5, <1>6, <1>7, WithoutIs
<1> QED BY <1>4, <1>8 DEF c

\* The elements behind the c that s replaces, from p, do not run over one another.
Room(a, s, p, c) == Len(s) - c <= 0 \/ (Len(a) - p) - c <= Len(s) - c

\* Assigning to a slice with a step of 1.
LEMMA PlainEdit ==
    ASSUME NEW a \in Arrays, NEW sl \in Slices, sl.step = 1, NEW s \in Arrays,
           NEW p \in Int, p = Gap(sl, a), NEW c \in Int, c = Cardinality(Places(sl, a)), Room(a, s, p, c)
    PROVE  /\ 0 <= p /\ 0 <= c /\ p + c <= Len(a)
           /\ \A x : x \in Places(sl, a) <=> x \in Int /\ p <= x /\ x < p + c
           /\ list_ass_slice(a, Begin(sl, a), Finish(sl, a), s)
                 = SubSeq(a, 1, p) \o s \o SubSeq(a, p + c + 1, Len(a))
<1> DEFINE j == Finish(sl, a)
           q == p + c
<1>0. Len(a) \in Nat
  BY ElementFacts
<1>1. c = Count(sl, a) /\ Begin(sl, a) = p
  BY VisitedIs, PlainSlice
<1>2. p \in 0..Len(a) /\ j \in 0..Len(a) /\ (p < j => c = j - p) /\ (~(p < j) => c = 0)
  BY <1>1, PlainSlice
<1> HIDE DEF j
<1>3. 0 <= p /\ 0 <= c /\ q <= Len(a) /\ q \in Int /\ q = Most(j, p) /\ q - p = c
  BY <1>0, <1>2 DEF Most
<1>4. \A x : x \in Places(sl, a) <=> x \in Int /\ p <= x /\ x < p + c
  <2>1. Places(sl, a) = {p + k * 1 : k \in 0..(c - 1)}
    <3>1. Places(sl, a) = {Begin(sl, a) + k * sl.step : k \in 0..(Count(sl, a) - 1)}
      BY PlacesFacts
    <3> QED BY <1>1, <3>1
  <2>2. ASSUME NEW k \in 0..(c - 1) PROVE p + k * 1 \in Int /\ p <= p + k * 1 /\ p + k * 1 < p + c
    BY <1>2
  <2>3. ASSUME NEW x \in Int, p <= x, x < p + c PROVE x \in Places(sl, a)
    <3>1. x - p \in 0..(c - 1) /\ x = p + (x - p) * 1
      BY <2>3
    <3> QED BY <2>1, <3>1
  <2> QED BY <2>1, <2>2, <2>3
<1>5. list_ass_slice(a, p, j, s) = SubSeq(a, 1, p) \o s \o SubSeq(a, q + 1, Len(a))
  <2>1. Len(s) \in Nat
    BY ElementFacts
  <2>2. Len(a) - q = (Len(a) - p) - c
    BY <1>0, <1>2
  <2> HIDE DEF q
  <2>3. Len(s) - (q - p) <= 0 \/ Len(a) - q <= Len(s) - (q - p)
    BY <1>3, <2>2 DEF Room
  <2>4. p \in 0..Len(a) /\ j \in 0..Len(a) /\ q \in Int /\ q = Most(j, p)
    BY <1>2, <1>3
  <2> QED BY <2>3, <2>4, AssSliceIs, ZenonT(30)
<1> QED BY <1>1, <1>3, <1>4, <1>5 DEF j

\* Assigning to a slice with another step.
LEMMA SteppedEdit ==
    ASSUME NEW a \in Arrays, NEW sl \in Slices, NEW s \in Arrays, Len(s) = Count(sl, a),
           NEW v, v = Visited(sl, a)
    PROVE  /\ Stored(a, Begin(sl, a), sl.step, s) \in Arrays
           /\ Stored(a, Begin(sl, a), sl.step, s)
                = [k \in DOMAIN a |-> IF \E q \in DOMAIN v : v[q] = k - 1
                                      THEN s[CHOOSE q \in DOMAIN v : v[q] = k - 1] ELSE a[k]]
<1> DEFINE i == Begin(sl, a)
           c == Count(sl, a)
           m == sl.step
           b == Stored(a, i, m, s)
<1>1. /\ c \in Nat /\ i \in Int
      /\ \A k \in 0..(c - 1) : i + k * m \in Spots(a)
  BY PlacesFacts
<1>2. m \in Int /\ m # 0
  BY SliceTypes
<1>3. v = [k \in 1..c |-> i + (k - 1) * m]
  BY VisitedIs
<1>4. Len(s) = c
  OBVIOUS
<1> HIDE DEF i, c, m
<1>5. Fills(a, b, i, m, s, Len(s))
  BY <1>1, <1>2, <1>4, StoredFacts
<1> HIDE DEF b
<1>6. DOMAIN v = 1..c /\ \A q \in 1..c : v[q] = i + (q - 1) * m
  BY <1>3
<1>7. \A q, r \in 1..c : v[q] = v[r] => q = r
  <2> TAKE q, r \in 1..c
  <2> HAVE v[q] = v[r]
  <2>1. (q - 1) * m \in Int /\ (r - 1) * m \in Int /\ q - 1 \in Int /\ r - 1 \in Int
    BY <1>2, SMT
  <2>2. i + (q - 1) * m = i + (r - 1) * m
    BY <1>6
  <2>3. (q - 1) * m = (r - 1) * m
    BY <1>1, <2>1, <2>2
  <2>4. q - 1 = r - 1
    BY <1>2, <2>1, <2>3, ProductInj
  <2> QED BY <2>4
<1>8. b \in Arrays /\ Len(b) = Len(a)
      /\ (\A q \in 1..c : GetElement(b, v[q]) = s[q])
      /\ \A x \in Spots(a) : (\A q \in 1..c : x # v[q]) => GetElement(b, x) = GetElement(a, x)
  <2>1. b \in Arrays /\ Len(b) = Len(a) /\ \A k \in 0..(c - 1) : GetElement(b, i + k * m) = s[k + 1]
    BY <1>4, <1>5 DEF Fills
  <2>2. \A q \in 1..c : q - 1 \in 0..(c - 1) /\ (q - 1) + 1 = q
    BY <1>1
  <2>3. \A q \in 1..c : GetElement(b, v[q]) = s[q]
    BY <1>6, <2>1, <2>2
  <2>4. ASSUME NEW x \in Spots(a), \A q \in 1..c : x # v[q] PROVE GetElement(b, x) = GetElement(a, x)
    <3>1. \A k \in 0..(c - 1) : k + 1 \in 1..c /\ (k + 1) - 1 = k
      BY <1>1
    <3>2. \A k \in 0..(c - 1) : x # i + k * m
      BY <1>6, <2>4, <3>1
    <3> QED BY <1>4, <1>5, <3>2 DEF Fills
  <2> QED BY <2>1, <2>3, <2>4
<1>9. ASSUME NEW k \in 1..Len(a)
      PROVE  b[k] = IF \E q \in DOMAIN v : v[q] = k - 1 THEN s[CHOOSE q \in DOMAIN v : v[q] = k - 1] ELSE a[k]
  <2>1. k - 1 \in Spots(a) /\ b[k] = GetElement(b, k - 1) /\ a[k] = GetElement(a, k - 1)
    <3>1. k - 1 \in Spots(a)
      BY ElementFacts DEF Spots
    <3> QED BY <1>8, <3>1, ElementFacts
  <2>2. CASE \E q \in DOMAIN v : v[q] = k - 1
    <3> DEFINE q == CHOOSE q \in DOMAIN v : v[q] = k - 1
    <3>1. q \in DOMAIN v /\ v[q] = k - 1
      BY <2>2
    <3> HIDE DEF q
    <3>2. b[k] = s[q]
      BY <1>6, <1>8, <2>1, <3>1
    <3> QED BY <2>2, <3>2 DEF q
  <2>3. CASE ~\E q \in DOMAIN v : v[q] = k - 1
    <3>1. \A q \in 1..c : k - 1 # v[q]
      BY <1>6, <2>3
    <3>2. b[k] = a[k]
      BY <1>8, <2>1, <3>1
    <3> QED BY <2>3, <3>2
  <2> QED BY <2>2, <2>3
<1>10. DOMAIN a = 1..Len(a) /\ b = [k \in 1..Len(a) |-> b[k]]
  BY <1>8 DEF Arrays
<1>11. b = [k \in DOMAIN a |-> IF \E q \in DOMAIN v : v[q] = k - 1
                               THEN s[CHOOSE q \in DOMAIN v : v[q] = k - 1] ELSE a[k]]
  BY <1>9, <1>10
<1> QED BY <1>8, <1>11 DEF b, i, m

-----------------------------------------------------------------------------
(* Deleting a slice with a step.                                           *)

LEMMA BelowSmall ==
    ASSUME NEW P, P \subseteq Nat, IsFiniteSet(P), NEW y \in Nat
    PROVE  IsFiniteSet(Below(y, P)) /\ Cardinality(Below(y, P)) \in 0..y
<1>1. ASSUME NEW x \in Below(y, P) PROVE x \in 0..(y - 1)
  <2>1. x \in Nat /\ x < y
    BY DEF Below
  <2> QED BY <2>1
<1>2. IsFiniteSet(0..(y - 1)) /\ Cardinality(0..(y - 1)) = y
  BY FirstFew
<1> DEFINE B == Below(y, P)
           S == 0..(y - 1)
<1>3. B \subseteq S /\ IsFiniteSet(S) /\ Cardinality(S) = y
  BY <1>1, <1>2
<1> HIDE DEF B, S
<1>4. IsFiniteSet(B) /\ Cardinality(B) <= Cardinality(S)
  BY <1>3, FS_Subset
<1>5. Cardinality(B) \in Nat
  BY <1>4, FS_CardinalityType
<1> QED BY <1>3, <1>4, <1>5 DEF B

\* Elements that stay do not change their order.
LEMMA StaysBelow ==
    ASSUME NEW P, P \subseteq Nat, IsFiniteSet(P), NEW y \in Nat, NEW z \in Nat, y < z, y \notin P
    PROVE  y - Cardinality(Below(y, P)) < z - Cardinality(Below(z, P))
<1> DEFINE B == Below(y, P)
           C == Below(z, P)
           S == (y + 1)..(z - 1)
<1>1. IsFiniteSet(B) /\ Cardinality(B) \in Nat /\ IsFiniteSet(C) /\ Cardinality(C) \in Nat
  <2>1. IsFiniteSet(Below(y, P)) /\ Cardinality(Below(y, P)) \in 0..y
    BY BelowSmall
  <2>2. IsFiniteSet(Below(z, P)) /\ Cardinality(Below(z, P)) \in 0..z
    BY BelowSmall
  <2> QED BY <2>1, <2>2
<1>2. ASSUME NEW x \in C PROVE x \in B \cup S
  <2>1. x \in P /\ x \in Nat /\ x < z
    BY DEF Below
  <2>2. x < y \/ x \in S
    BY <2>1
  <2> QED BY <2>1, <2>2 DEF Below
<1>3. IsFiniteSet(S) /\ Cardinality(S) = z - y - 1
  <2> DEFINE p == y + 1
             r == z - 1
  <2>1. p \in Int /\ r \in Int /\ (p > r => z - y - 1 = 0) /\ (~(p > r) => r - p + 1 = z - y - 1)
    OBVIOUS
  <2> HIDE DEF p, r
  <2>2. IsFiniteSet(p..r) /\ Cardinality(p..r) = IF p > r THEN 0 ELSE r - p + 1
    BY <2>1, FS_Interval
  <2>3. Cardinality(p..r) = z - y - 1
    BY <2>1, <2>2
  <2> QED BY <2>2, <2>3 DEF p, r
<1> HIDE DEF B, C, S
<1>4. IsFiniteSet(B \cup S) /\ Cardinality(B \cup S) = Cardinality(B) + Cardinality(S) - Cardinality(B \cap S)
  BY <1>1, <1>3, FS_Union
<1>5. Cardinality(B \cap S) \in Nat
  BY <1>1, FS_Intersection, FS_CardinalityType
<1>6. Cardinality(C) <= Cardinality(B \cup S)
  BY <1>2, <1>4, FS_Subset
<1>7. Cardinality(C) <= Cardinality(B) + (z - y - 1)
  BY <1>1, <1>3, <1>4, <1>5, <1>6
<1>8. y - Cardinality(B) < z - Cardinality(C)
  BY <1>1, <1>7
<1> QED BY <1>8 DEF B, C

\* Elements below x, but for those at the places in P, have moved together.
Compacted(a, b, P, x) ==
    /\ b \in Arrays /\ Len(b) = Len(a)
    /\ \A y \in Spots(a) : y \notin P /\ y < x => GetElement(b, y - Cardinality(Below(y, P))) = GetElement(a, y)
    /\ \A y \in Spots(a) : y >= x => GetElement(b, y) = GetElement(a, y)

\* The next run follows.
LEMMA CompactOne ==
    ASSUME NEW a \in Arrays, NEW b, NEW P, P \subseteq Spots(a),
           NEW x \in Int, Compacted(a, b, P, x),
           NEW p \in Nat, NEW q \in Int, NEW d \in Int, NEW z \in Int,
           x <= p, q <= Len(a), q <= z, x <= z, Cardinality(Below(p, P)) = -d,
           \A y \in Spots(a) : x <= y /\ y < p => y \in P,
           \A y \in Spots(a) : p <= y /\ y < z => y \notin P /\ y < q
    PROVE  Compacted(a, Moved(b, p, q, d), P, z)
<1> DEFINE c == Moved(b, p, q, d)
<1>1. Len(a) \in Nat /\ b \in Arrays /\ Len(b) = Len(a) /\ Spots(b) = Spots(a)
  BY ElementFacts DEF Compacted, Spots
<1>2. \A y \in Spots(a) : y \in Nat /\ y < Len(a)
  BY <1>1 DEF Spots
<1>3. P \subseteq Nat /\ IsFiniteSet(P)
  <2>1. IsFiniteSet(0..(Len(a) - 1))
    BY <1>1, FirstFew
  <2>2. IsFiniteSet(Spots(a))
    BY <2>1 DEF Spots
  <2> QED BY <1>2, <2>2, FS_Subset
<1>4. d <= 0 /\ p + d >= 0
  <2>1. Cardinality(Below(p, P)) \in 0..p
    BY <1>3, BelowSmall
  <2> DEFINE k == Cardinality(Below(p, P))
  <2>2. k \in 0..p /\ k = -d
    BY <2>1
  <2> HIDE DEF k
  <2> QED BY <2>2
<1>5. Shifts(b, c, p, q, d)
  <2>1. 0 <= p /\ p + d >= 0 /\ q <= Len(b) /\ q + d <= Len(b) /\ (d <= 0 \/ q <= p + d) /\ p \in Int
    BY <1>1, <1>4
  <2> QED BY <1>1, <2>1, MovedFacts
<1> HIDE DEF c
<1>6. c \in Arrays /\ Len(c) = Len(a)
      /\ \A i \in Spots(a) : GetElement(c, i) = IF p + d <= i /\ i < q + d THEN GetElement(b, i - d)
                                                ELSE GetElement(b, i)
  BY <1>1, <1>5 DEF Shifts
<1>7. ASSUME NEW y \in Spots(a), y >= z PROVE GetElement(c, y) = GetElement(a, y)
  <2>1. ~(y < q + d) /\ y >= x
    BY <1>2, <1>4, <1>7
  <2>2. GetElement(b, y) = GetElement(a, y)
    BY <2>1 DEF Compacted
  <2> QED BY <1>6, <2>1, <2>2
<1>8. ASSUME NEW y \in Spots(a), y \notin P, y < z
      PROVE  GetElement(c, y - Cardinality(Below(y, P))) = GetElement(a, y)
  <2> DEFINE k == Cardinality(Below(y, P))
             t == y - k
  <2>1. y \in Nat /\ y < Len(a) /\ k \in 0..y
    BY <1>2, <1>3, BelowSmall
  <2>2. CASE y < p
    <3>1. t < p - Cardinality(Below(p, P))
      BY <1>3, <1>8, <2>1, <2>2, StaysBelow
    <3>2. y < x
      BY <1>8, <2>1, <2>2
    <3>3. GetElement(b, t) = GetElement(a, y)
      BY <1>8, <3>2 DEF Compacted
    <3> HIDE DEF k
    <3>4. t \in Spots(a) /\ ~(p + d <= t)
      BY <1>1, <2>1, <3>1 DEF Spots
    <3> HIDE DEF t
    <3>5. GetElement(c, t) = GetElement(b, t)
      BY <1>6, <3>4
    <3>6. GetElement(c, t) = GetElement(a, y)
      BY <3>3, <3>5
    <3> QED BY <3>6 DEF t, k
  <2>3. CASE ~(y < p)
    <3>1. p <= y /\ y < q
      BY <1>8, <2>1, <2>3
    <3>2. Below(y, P) = Below(p, P)
      <4>1. ASSUME NEW u \in P PROVE u < y <=> u < p
        <5>1. u \in Spots(a) /\ u \in Nat
          BY <1>2
        <5>2. ~(p <= u /\ u < z)
          BY <5>1
        <5> QED BY <1>8, <2>1, <3>1, <5>1, <5>2
      <4> QED BY <4>1 DEF Below
    <3>3. k = -d
      BY <3>2
    <3> HIDE DEF k
    <3>4. t = y + d
      BY <2>1, <3>3
    <3>5. t \in Spots(a) /\ p + d <= t /\ t < q + d /\ t - d = y
      BY <1>1, <1>4, <2>1, <3>1, <3>4 DEF Spots
    <3> HIDE DEF t
    <3>6. GetElement(c, t) = GetElement(b, y)
      BY <1>6, <3>5
    <3>7. GetElement(b, y) = GetElement(a, y)
      <4>1. y >= x
        BY <2>1, <3>1
      <4> QED BY <4>1 DEF Compacted
    <3>8. GetElement(c, t) = GetElement(a, y)
      BY <3>6, <3>7
    <3> QED BY <3>8 DEF t, k
  <2> QED BY <2>2, <2>3
<1>9. Compacted(a, c, P, z)
  BY <1>6, <1>7, <1>8 DEF Compacted
<1> QED BY <1>9 DEF c

\* P holds the first c of the places w, which rise.
Rises(w, c, P) ==
    /\ c \in Nat /\ \A k \in 0..c : w[k] \in Int
    /\ \A j, k \in 0..c : j < k => w[j] < w[k]
    /\ \A k \in 0..(c - 1) : w[k] \in P
    /\ \A x \in P : \E k \in 0..(c - 1) : x = w[k]

\* How many places lie below y.
LEMMA BelowCount ==
    ASSUME NEW c, NEW w, NEW P, Rises(w, c, P),
           NEW k \in 0..c, NEW y \in Int, y <= w[k], \A j \in 0..(k - 1) : w[j] < y
    PROVE  Cardinality(Below(y, P)) = k
<1> DEFINE f == [q \in 1..k |-> w[q - 1]]
           S == Below(y, P)
<1>0. /\ c \in Nat /\ \A h \in 0..c : w[h] \in Int
      /\ \A j, h \in 0..c : j < h => w[j] < w[h]
      /\ \A h \in 0..(c - 1) : w[h] \in P
      /\ \A x \in P : \E h \in 0..(c - 1) : x = w[h]
  BY DEF Rises
<1>1. \A q \in 1..k : f[q] = w[q - 1] /\ q - 1 \in 0..(k - 1) /\ q - 1 \in 0..(c - 1) /\ q - 1 \in 0..c
  BY <1>0
<1> HIDE DEF f
<1>2. \A q \in 1..k : f[q] \in S
  BY <1>0, <1>1 DEF Below
<1>3. ASSUME NEW x \in S PROVE \E q \in 1..k : x = f[q]
  <2>1. x \in P /\ x < y
    BY DEF Below
  <2>2. PICK j \in 0..(c - 1) : x = w[j]
    BY <1>0, <2>1
  <2>3. j \in 0..c /\ w[j] \in Int /\ w[k] \in Int /\ w[j] < w[k]
    BY <1>0, <2>1, <2>2
  <2>4. ~(k < j) /\ j # k
    BY <1>0, <2>3
  <2>5. j + 1 \in 1..k /\ (j + 1) - 1 = j
    BY <2>4
  <2>6. x = f[j + 1]
    BY <1>1, <2>2, <2>5
  <2> QED BY <2>5, <2>6
<1>4. \A i, j \in 1..k : f[i] = f[j] => i = j
  <2> TAKE i, j \in 1..k
  <2> HAVE f[i] = f[j]
  <2>1. w[i - 1] = w[j - 1] /\ i - 1 \in 0..c /\ j - 1 \in 0..c /\ w[i - 1] \in Int
    BY <1>0, <1>1
  <2>2. ~(i - 1 < j - 1) /\ ~(j - 1 < i - 1)
    BY <1>0, <2>1
  <2>3. i \in Int /\ j \in Int
    OBVIOUS
  <2> QED BY <2>2, <2>3
<1>5. k \in Nat
  BY <1>0
<1>6. Cardinality(S) = k
  <2> HIDE DEF S
  <2> QED BY <1>2, <1>3, <1>4, <1>5, ImageCount
<1> QED BY <1>6

\* The loop of runs: after k of them all the runs up to the k-th place are moved.
LEMMA RunsFacts ==
    ASSUME NEW a \in Arrays, NEW m \in Nat \ {0}, NEW c, NEW w, NEW P, P \subseteq Spots(a), Rises(w, c, P),
           \A k \in 0..(c - 1) : w[k + 1] = w[k] + m,
           NEW k \in 0..(c - 1), NEW b, Compacted(a, b, P, w[k])
    PROVE  Compacted(a, Moved(b, w[k] + 1, w[k] + 1 + Least(m - 1, Len(a) - w[k] - 1), -(k + 1)), P, w[k + 1])
<1> DEFINE n == Len(a)
           x == w[k]
           z == w[k + 1]
           p == x + 1
           q == p + Least(m - 1, n - x - 1)
           d == -(k + 1)
<1>0. /\ c \in Nat /\ \A h \in 0..c : w[h] \in Int
      /\ \A j, h \in 0..c : j < h => w[j] < w[h]
      /\ \A h \in 0..(c - 1) : w[h] \in P
      /\ \A y \in P : \E h \in 0..(c - 1) : y = w[h]
  BY DEF Rises
<1>1. n \in Nat /\ x \in Nat /\ x < n /\ z = x + m /\ x \in P /\ k \in 0..c /\ k + 1 \in 0..c
  BY <1>0, ElementFacts DEF Spots
<1>2. P \subseteq Spots(a)
  OBVIOUS
<1>3. p \in Nat /\ q \in Int /\ d \in Int /\ z \in Int /\ x <= p /\ q <= n /\ q <= z /\ x <= z
  <2> HIDE DEF n, x, z
  <2> QED BY <1>1 DEF Least
<1>4. Cardinality(Below(p, P)) = -d
  <2>1. p <= w[k + 1] /\ \A j \in 0..((k + 1) - 1) : w[j] < p
    <3>1. p <= z
      <4> HIDE DEF x, z
      <4> QED BY <1>1
    <3>2. ASSUME NEW j \in 0..((k + 1) - 1) PROVE w[j] < p
      <4>1. j \in 0..c /\ w[j] \in Int /\ (j = k \/ j < k)
        BY <1>0
      <4>2. w[j] <= w[k]
        BY <1>0, <1>1, <4>1
      <4> QED BY <1>1, <4>1, <4>2
    <3> QED BY <3>1, <3>2
  <2> DEFINE e == k + 1
  <2>2. e \in 0..c /\ p \in Int /\ p <= w[e] /\ \A j \in 0..(e - 1) : w[j] < p
    BY <1>1, <1>3, <2>1
  <2> HIDE DEF e, p
  <2>3. Cardinality(Below(p, P)) = e
    BY <2>2, BelowCount
  <2>4. e = -d
    BY DEF e
  <2> QED BY <2>3, <2>4
<1>5. ASSUME NEW y \in Spots(a), x <= y, y < p PROVE y \in P
  <2>1. y = x
    BY <1>1, <1>5 DEF Spots
  <2> QED BY <1>1, <2>1
<1>6. ASSUME NEW y \in Spots(a), p <= y, y < z PROVE y \notin P /\ y < q
  <2>1. y \in Nat /\ y < n
    BY <1>1 DEF Spots
  <2>2. y < q
    <3> HIDE DEF n, x, z
    <3> QED BY <1>1, <1>6, <2>1 DEF Least
  <2>3. ASSUME NEW j \in 0..(c - 1), y = w[j] PROVE FALSE
    <3>1. j \in 0..c /\ w[j] \in Int /\ w[k] \in Int /\ w[k + 1] \in Int
      BY <1>0, <1>1
    <3>2. j = k \/ j < k \/ j = k + 1 \/ k + 1 < j
      BY <1>0
    <3>3. j < k => w[j] < w[k]
      BY <1>0, <1>1, <3>1
    <3>4. k + 1 < j => w[k + 1] < w[j]
      BY <1>0, <1>1, <3>1
    <3>5. w[k] < p /\ p <= y /\ y < w[k + 1] /\ p \in Int
      BY <1>1, <1>6
    <3> HIDE DEF p
    <3>6. CASE j = k
      BY <2>1, <2>3, <3>1, <3>5, <3>6
    <3>7. CASE j < k
      BY <2>1, <2>3, <3>1, <3>3, <3>5, <3>7
    <3>8. CASE j = k + 1
      BY <2>1, <2>3, <3>1, <3>5, <3>8
    <3>9. CASE k + 1 < j
      BY <2>1, <2>3, <3>1, <3>4, <3>5, <3>9
    <3> QED BY <3>2, <3>6, <3>7, <3>8, <3>9
  <2> QED BY <1>0, <2>2, <2>3
<1>7. x \in Int /\ Compacted(a, b, P, x)
  BY <1>1
<1> HIDE DEF n, x, z, p, q, d
<1>8. \A y \in Spots(a) : x <= y /\ y < p => y \in P
  BY <1>5
<1>9. \A y \in Spots(a) : p <= y /\ y < z => y \notin P /\ y < q
  BY <1>6
<1>10. q <= Len(a)
  BY <1>3 DEF n
<1>11. Compacted(a, Moved(b, p, q, d), P, z)
  BY <1>2, <1>3, <1>4, <1>7, <1>8, <1>9, <1>10, CompactOne
<1> QED BY <1>11 DEF n, x, z, p, q, d

LEMMA StridedDel ==
    ASSUME NEW a \in Arrays, NEW sl \in Slices, sl.step # 1
    PROVE  DelSlice(a, sl) = Ok(Without(a, Places(sl, a)), None) /\ Without(a, Places(sl, a)) \in Arrays
<1> DEFINE P == Places(sl, a)
           i == Begin(sl, a)
           c == Count(sl, a)
           s == sl.step
           m == IF s < 0 THEN -s ELSE s
           start == IF s < 0 THEN i + s * (c - 1) ELSE i
           n == Len(a)
<1>0. n \in Nat
  BY ElementFacts
<1>1. /\ c \in Nat /\ i \in Int
      /\ \A k \in 0..(c - 1) : i + k * s \in Spots(a)
      /\ P = {i + k * s : k \in 0..(c - 1)}
  BY PlacesFacts
<1>2. s \in Int /\ s # 0 /\ m \in Nat \ {0}
  BY SliceTypes
<1>3. IsFiniteSet(P) /\ Cardinality(P) = c /\ P \subseteq Spots(a)
  BY VisitedIs
<1>4. CASE c = 0
  <2>1. DelSlice(a, sl) = Ok(a, None)
    <3>1. c <= 0
      BY <1>4
    <3> QED BY <3>1 DEF DelSlice, Count
  <2>2. P = {}
    <3>1. 0..(c - 1) = {}
      BY <1>4
    <3> HIDE DEF P, c, i, s
    <3> QED BY <1>1, <3>1
  <2>3. Without(a, P) = a
    <3> HIDE DEF P
    <3>1. P \subseteq Spots(a) /\ Len(a) = Len(a) - Cardinality(P)
      BY <1>0, <1>3, <1>4 DEF n
    <3>2. ASSUME NEW y \in Spots(a) \ P PROVE GetElement(a, y - Cardinality(Below(y, P))) = GetElement(a, y)
      <4>1. Below(y, P) = {}
        BY <2>2 DEF Below
      <4>2. Cardinality(Below(y, P)) = 0 /\ y \in Int
        BY <4>1, FS_EmptySet DEF Spots
      <4>3. y - Cardinality(Below(y, P)) = y
        BY <4>2
      <4> QED BY <4>3
    <3> QED BY <3>1, <3>2, WithoutIs
  <2> QED BY <2>1, <2>3
<1>5. CASE c # 0
  <2> DEFINE Run(b, k) ==
               LET cur == start + k * m
                   lim == Least(m - 1, n - cur - 1)
               IN  Moved(b, cur + 1, cur + 1 + lim, -(k + 1))
             u == Upto(0, c)
             l == Len(u)
             after[k \in 0..l] == IF k = 0 THEN a ELSE Run(after[k - 1], u[k])
             tail == Moved(after[l], start + c * m, n, -c)
             w == [k \in 0..c |-> start + k * m]
  <2>1. DelSlice(a, sl) = Ok(SetArrayLength(tail, n - c), None)
    <3>1. ~(c <= 0)
      BY <1>1, <1>5
    <3> QED BY <3>1 DEF DelSlice, Walk, Count, Begin
  <2> HIDE DEF P, i, c, s, n
  <2>2. l = c /\ \A k \in 1..l : u[k] = k - 1
    <3>1. 0 \in Int /\ c \in Int /\ 0 <= c /\ c - 0 = c /\ \A k \in 1..c : 0 + k - 1 = k - 1
      BY <1>1
    <3>2. Len(Upto(0, c)) = c - 0 /\ \A k \in 1..(c - 0) : Upto(0, c)[k] = 0 + k - 1
      BY <3>1, UptoFacts
    <3>3. l = c /\ \A k \in 1..c : u[k] = 0 + k - 1
      BY <3>1, <3>2, Zenon DEF l, u
    <3> HIDE DEF l, u
    <3> QED BY <3>1, <3>3
  <2>3. /\ \A k \in 0..(c - 1) : start + k * m \in P
        /\ \A x \in P : \E k \in 0..(c - 1) : x = start + k * m
        /\ start \in Int
    <3>1. CASE s > 0
      <4>1. start = i /\ m = s
        BY <1>2, <3>1
      <4> HIDE DEF start, m
      <4> QED BY <1>1, <4>1
    <3>2. CASE s < 0
      <4> DEFINE g == c - 1
      <4>1. start = i + s * g /\ s = -m /\ m \in Int /\ g \in Nat
        BY <1>1, <1>2, <1>5, <3>2
      <4> HIDE DEF start, m
      <4>2. \A k \in Int : (g - k) * s = s * g + k * m
        BY <1>2, <4>1, SMT
      <4>3. s * g \in Int /\ \A k \in Int : k * m \in Int
        BY <1>2, <4>1, SMT
      <4>4. \A k \in 0..g : i + (g - k) * s = start + k * m
        <5> TAKE k \in 0..g
        <5> DEFINE y == s * g
                   v == k * m
        <5>1. y \in Int /\ v \in Int /\ (g - k) * s = y + v /\ start = i + y
          BY <4>1, <4>2, <4>3
        <5> HIDE DEF y, v
        <5>2. i + (y + v) = (i + y) + v
          BY <1>1, <5>1
        <5>3. i + (g - k) * s = start + v
          BY <5>1, <5>2
        <5> QED BY <5>3 DEF v
      <4>5. \A k \in 0..g : g - k \in 0..g /\ g - (g - k) = k
        BY <4>1
      <4>6. P = {i + k * s : k \in 0..g}
        BY <1>1
      <4> HIDE DEF g
      <4>7. ASSUME NEW k \in 0..g PROVE start + k * m \in P
        <5>1. start + k * m = i + (g - k) * s
          BY <4>4
        <5> QED BY <4>5, <4>6, <5>1
      <4>8. ASSUME NEW x \in P PROVE \E k \in 0..g : x = start + k * m
        <5>1. PICK k \in 0..g : x = i + k * s
          BY <4>6
        <5>2. g - k \in 0..g /\ g - (g - k) = k
          BY <4>5
        <5>3. i + (g - (g - k)) * s = start + (g - k) * m
          BY <4>4, <5>2
        <5>4. x = start + (g - k) * m
          BY <5>1, <5>2, <5>3
        <5> QED BY <5>2, <5>4
      <4>9. start \in Int
        BY <1>1, <4>1, <4>3
      <4> QED BY <4>7, <4>8, <4>9 DEF g
    <3>3. s > 0 \/ s < 0
      BY <1>2
    <3> QED BY <3>1, <3>2, <3>3
  <2> HIDE DEF start, m
  <2>4. \A k \in 0..c : w[k] = start + k * m
    OBVIOUS
  <2>5. \A k \in Int : k * m \in Int /\ (k + 1) * m = k * m + m
    BY <1>2, ProductOrder
  <2>6. \A j, k \in Int : j < k => j * m + m <= k * m
    BY <1>2, ProductOrder
  <2>7. \A k \in 0..c : w[k] \in Int
    BY <2>3, <2>4, <2>5
  <2>8. ASSUME NEW j \in 0..c, NEW k \in 0..c, j < k PROVE w[j] < w[k]
    <3> DEFINE x == j * m
               y == k * m
    <3>1. x \in Int /\ y \in Int /\ x + m <= y /\ w[j] = start + x /\ w[k] = start + y
      BY <2>4, <2>5, <2>6, <2>8
    <3> HIDE DEF x, y, w
    <3> QED BY <1>2, <2>3, <3>1
  <2>9. ASSUME NEW k \in 0..(c - 1) PROVE w[k] \in P /\ w[k] \in Spots(a) /\ w[k + 1] = w[k] + m
    <3>1. k \in 0..c /\ k + 1 \in 0..c /\ k \in Int
      BY <1>1
    <3> DEFINE x == k * m
    <3>2. x \in Int /\ (k + 1) * m = x + m /\ w[k] = start + x /\ w[k + 1] = start + (k + 1) * m
      BY <2>4, <2>5, <3>1
    <3>3. w[k] \in P
      BY <2>3, <2>4, <3>1
    <3> HIDE DEF x, w
    <3>4. w[k + 1] = w[k] + m
      BY <1>2, <2>3, <3>2
    <3> QED BY <1>3, <3>3, <3>4
  <2>10. \A x \in P : \E k \in 0..(c - 1) : x = w[k]
    <3>1. \A k \in 0..(c - 1) : k \in 0..c
      BY <1>1
    <3> QED BY <2>3, <2>4, <3>1
  <2>28. Rises(w, c, P)
    <3>1. \A j, k \in 0..c : j < k => w[j] < w[k]
      BY <2>8
    <3>2. \A k \in 0..(c - 1) : w[k] \in P
      BY <2>9
    <3> HIDE DEF w
    <3> QED BY <1>1, <2>7, <2>10, <3>1, <3>2 DEF Rises
  <2>11. ASSUME NEW k \in 0..(c - 1), NEW b PROVE Compacted(a, b, P, w[k]) => Compacted(a, Run(b, k), P, w[k + 1])
    <3>2. \A h \in 0..(c - 1) : w[h + 1] = w[h] + m
      BY <2>9
    <3>5. k \in 0..c
      BY <1>1
    <3>6. start + k * m = w[k]
      BY <2>4, <3>5
    <3> HIDE DEF w
    <3>7. Compacted(a, b, P, w[k]) =>
            Compacted(a, Moved(b, w[k] + 1, w[k] + 1 + Least(m - 1, Len(a) - w[k] - 1), -(k + 1)), P, w[k + 1])
      BY <1>2, <1>3, <2>28, <3>2, RunsFacts
    <3>8. Run(b, k) = Moved(b, w[k] + 1, w[k] + 1 + Least(m - 1, Len(a) - w[k] - 1), -(k + 1))
      BY <3>6, Zenon DEF n
    <3> QED BY <3>7, <3>8, Zenon
  <2> HIDE DEF Run
  <2> DEFINE D == [k \in 0..l |-> {b \in Arrays : Compacted(a, b, P, w[k])}]
             G == [k \in 1..l |-> [b \in D[k - 1] |-> Run(b, u[k])]]
  <2>12. a \in D[0]
    <3>1. ASSUME NEW y \in Spots(a), y \notin P, y < w[0]
          PROVE  GetElement(a, y - Cardinality(Below(y, P))) = GetElement(a, y)
      <4>1. y \in Nat
        BY <1>0 DEF Spots, n
      <4>2. 0 \in 0..c /\ c \in Nat /\ y \in Int /\ y <= w[0] /\ \A j \in 0..(0 - 1) : w[j] < y
        BY <1>1, <2>7, <3>1, <4>1
      <4> DEFINE o == 0
      <4>5. o \in 0..c /\ y <= w[o] /\ \A j \in 0..(o - 1) : w[j] < y
        BY <4>2
      <4> HIDE DEF o, w
      <4>6. Cardinality(Below(y, P)) = o
        BY <2>28, <4>2, <4>5, BelowCount
      <4>7. y - Cardinality(Below(y, P)) = y
        BY <4>1, <4>6 DEF o
      <4> QED BY <4>7
    <3>2. Compacted(a, a, P, w[0])
      BY <3>1 DEF Compacted
    <3>3. 0 \in 0..l
      BY <1>1, <2>2
    <3> QED BY <3>2, <3>3
  <2>20. l \in Nat
    BY <1>1, <2>2
  <2> HIDE DEF u, l, w
  <2>13. ASSUME NEW k \in 1..l, NEW b \in D[k - 1] PROVE Run(b, u[k]) \in D[k]
    <3>1. k - 1 \in 0..l /\ k \in 0..l /\ k - 1 \in 0..(c - 1) /\ (k - 1) + 1 = k /\ u[k] = k - 1
      BY <1>1, <2>2
    <3>2. b \in Arrays /\ Compacted(a, b, P, w[k - 1])
      BY <3>1
    <3>3. Compacted(a, Run(b, k - 1), P, w[(k - 1) + 1])
      BY <2>11, <3>1, <3>2
    <3>4. Compacted(a, Run(b, u[k]), P, w[k])
      BY <3>1, <3>3
    <3>5. Run(b, u[k]) \in Arrays
      BY <3>4 DEF Compacted
    <3> QED BY <3>1, <3>4, <3>5
  <2>14. \A k \in 1..l : \A b \in D[k - 1] : G[k][b] = Run(b, u[k])
    OBVIOUS
  <2>15. Leads(l, D, G)
    BY <2>13, <2>14 DEF Leads
  <2>16. \E f : f = [k \in 0..l |-> IF k = 0 THEN a ELSE Run(f[k - 1], u[k])]
    <3> HIDE DEF D, G, after
    <3>1. PICK f : Path(f, l, a, G) /\ Stays(f, l, D)
      BY <2>12, <2>15, <2>20, LoopExists
    <3>2. \A k \in 1..l : G[k][f[k - 1]] = Run(f[k - 1], u[k])
      <4> TAKE k \in 1..l
      <4>1. k - 1 \in 0..l
        BY <2>20
      <4> QED BY <2>14, <3>1, <4>1 DEF Stays
    <3>3. \A k \in 0..l : k # 0 => k \in 1..l
      BY <2>20
    <3>4. f = [k \in 0..l |-> IF k = 0 THEN a ELSE Run(f[k - 1], u[k])]
      BY <3>1, <3>2, <3>3 DEF Path
    <3> QED BY <3>4
  <2>17. after[l] \in D[l]
    <3>1. after = [k \in 0..l |-> IF k = 0 THEN a ELSE Run(after[k - 1], u[k])]
      BY <2>16
    <3> HIDE DEF after, D, G
    <3>2. after[0] = a /\ \A k \in 1..l : after[k] = Run(after[k - 1], u[k])
      <4>1. 0 \in 0..l /\ \A k \in 1..l : k \in 0..l /\ k # 0
        BY <2>20
      <4> QED BY <3>1, <4>1
    <3>3. \A k \in 1..l : after[k - 1] \in D[k - 1] => after[k] \in D[k]
      BY <2>13, <3>2
    <3>4. after[0] \in D[0]
      BY <2>12, <3>2
    <3>5. \A k \in 0..l : after[k] \in D[k]
      BY <2>20, <3>3, <3>4, LoopKeeps
    <3> QED BY <2>20, <3>5
  <2> DEFINE r == after[l]
             x == w[c]
  <2>18. Compacted(a, r, P, x)
    <3> HIDE DEF after
    <3>1. l \in 0..l
      BY <2>20
    <3>2. Compacted(a, after[l], P, w[l])
      BY <2>17, <3>1
    <3> QED BY <2>2, <3>2, Zenon
  <2> HIDE DEF r, D, G
  <2>19. x \in Nat /\ Cardinality(Below(x, P)) = c /\ \A y \in P : y < x
    <3>1. c \in 0..c /\ c - 1 \in 0..(c - 1) /\ c - 1 < c /\ c - 1 \in 0..c
      BY <1>1, <1>5
    <3>2. x \in Int /\ w[c - 1] \in Nat /\ w[c - 1] < x
      BY <1>0, <2>7, <2>8, <2>9, <3>1 DEF Spots, n
    <3>3. ASSUME NEW j \in 0..(c - 1) PROVE w[j] < x
      <4>1. j \in 0..c /\ j < c
        BY <1>1
      <4> QED BY <2>8, <3>1, <4>1
    <3>6. x <= w[c]
      BY <3>2
    <3> HIDE DEF x
    <3>7. Cardinality(Below(x, P)) = c
      BY <2>28, <3>1, <3>2, <3>3, <3>6, BelowCount
    <3>8. \A y \in P : y < x
      BY <2>10, <3>3
    <3> QED BY <3>2, <3>7, <3>8
  <2>21. tail = Moved(r, x, n, -c)
    <3>1. c \in 0..c
      BY <1>1
    <3>2. start + c * m = x
      BY <2>4, <3>1
    <3> QED BY <3>2, Zenon DEF r
  <2> HIDE DEF tail, x
  <2>22. Compacted(a, tail, P, x + n)
    <3> DEFINE d == -c
               z == x + n
    <3>1. x \in Int /\ d \in Int /\ z \in Int /\ n \in Int /\ x <= x /\ n <= Len(a) /\ n <= z /\ x <= z
      BY <1>0, <1>1, <2>19 DEF n
    <3>2. Cardinality(Below(x, P)) = -d
      BY <1>1, <2>19
    <3>3. \A y \in Spots(a) : x <= y /\ y < x => y \in P
      BY <2>19 DEF Spots
    <3>4. ASSUME NEW y \in Spots(a), x <= y, y < z PROVE y \notin P /\ y < n
      <4>1. y \in Nat /\ y < n
        BY <1>0 DEF Spots, n
      <4>2. y \notin P
        BY <2>19, <3>4, <4>1
      <4> QED BY <4>1, <4>2
    <3> HIDE DEF d, z
    <3>5. Compacted(a, Moved(r, x, n, d), P, z)
      BY <1>3, <2>18, <2>19, <3>1, <3>2, <3>3, <3>4, CompactOne
    <3> QED BY <2>21, <3>5 DEF d, z
  <2> DEFINE e == SetArrayLength(tail, n - c)
  <2>23. P \subseteq Nat /\ \A y \in Spots(a) : y \in Nat /\ y < n
    BY <1>0, <1>3 DEF Spots, n
  <2>24. n - c \in Nat /\ Cardinality(Below(n, P)) = c
    <3>1. Below(n, P) = P
      BY <1>3, <2>23 DEF Below
    <3>2. Cardinality(Below(n, P)) \in 0..n
      BY <1>0, <1>3, <2>23, BelowSmall
    <3>3. c \in 0..n
      BY <1>3, <3>1, <3>2
    <3> QED BY <1>0, <1>3, <3>1, <3>3
  <2>25. e \in Arrays /\ Len(e) = n - c /\ \A k \in 0..((n - c) - 1) : GetElement(e, k) = GetElement(tail, k)
    <3>1. tail \in Arrays
      BY <2>22 DEF Compacted
    <3> QED BY <2>24, <3>1, ResizeFacts
  <2> HIDE DEF e
  <2>26. ASSUME NEW y \in Spots(a) \ P PROVE GetElement(e, y - Cardinality(Below(y, P))) = GetElement(a, y)
    <3> DEFINE h == Cardinality(Below(y, P))
    <3>1. y \in Nat /\ y < n /\ y < x + n
      BY <1>0, <2>19, <2>23
    <3>2. y - h < n - c
      <4>1. y - h < n - Cardinality(Below(n, P))
        BY <1>0, <1>3, <2>23, <3>1, StaysBelow
      <4> QED BY <2>24, <4>1
    <3>3. h \in 0..y
      BY <1>3, <2>23, <3>1, BelowSmall
    <3>4. GetElement(tail, y - h) = GetElement(a, y)
      BY <2>22, <3>1 DEF Compacted
    <3> HIDE DEF h
    <3>5. y - h \in 0..((n - c) - 1)
      BY <2>24, <3>1, <3>2, <3>3
    <3>6. GetElement(e, y - h) = GetElement(a, y)
      BY <2>25, <3>4, <3>5
    <3> QED BY <3>6 DEF h
  <2>27. Without(a, P) = e
    <3>1. Len(e) = Len(a) - Cardinality(P)
      BY <1>3, <2>25 DEF n
    <3> QED BY <1>3, <2>25, <2>26, <3>1, WithoutIs
  <2> QED BY <2>1, <2>25, <2>27 DEF e, P
<1> QED BY <1>4, <1>5

-----------------------------------------------------------------------------
(* Repeating and extending.                                                *)

\* A place is in one column of one row.
LEMMA OnePlace ==
    ASSUME NEW m \in Nat \ {0}, NEW i \in 0..(m - 1), NEW j \in 0..(m - 1), NEW k \in Int, NEW l \in Int,
           i + k * m = j + l * m
    PROVE  i = j /\ k = l
<1> DEFINE x == k * m
           y == l * m
<1>1. x \in Int /\ y \in Int /\ (k < l => x + m <= y) /\ (l < k => y + m <= x) /\ i + x = j + y
  BY ProductOrder
<1>2. k = l => x = y
  OBVIOUS
<1> HIDE DEF x, y
<1>3. ~(k < l) /\ ~(l < k)
  BY <1>1
<1>4. k = l
  BY <1>3
<1> QED BY <1>1, <1>2, <1>4

\* The first i elements of a are at all their places in b, the others at the first.
Repeats(a, b, n, i) ==
    /\ b \in Arrays /\ Len(b) = Len(a) * n
    /\ \A j \in 0..(i - 1) : \A k \in 0..(n - 1) : GetElement(b, j + k * Len(a)) = GetElement(a, j)
    /\ \A j \in i..(Len(a) - 1) : GetElement(b, j) = GetElement(a, j)

LEMMA RepeatOne ==
    ASSUME NEW a \in Arrays, NEW n \in Nat \ {0}, NEW i \in 0..(Len(a) - 1), NEW b, Repeats(a, b, n, i)
    PROVE  Repeats(a, Stored(b, i, Len(a), [k \in 1..n |-> GetElement(b, i)]), n, i + 1)
<1> DEFINE m == Len(a)
           s == [k \in 1..n |-> GetElement(b, i)]
           c == Stored(b, i, m, s)
<1>1. m \in Nat \ {0} /\ i \in Nat /\ i < m /\ b \in Arrays /\ Len(b) = m * n
  BY ElementFacts DEF Repeats
<1>2. GetElement(b, i) = GetElement(a, i) /\ GetElement(b, i) \in Items
  <2>1. i \in i..(m - 1)
    BY <1>1
  <2> QED BY <1>1, <2>1, ElementFacts DEF Repeats
<1>3. s \in Arrays /\ Len(s) = n /\ \A k \in 1..n : s[k] = GetElement(a, i)
  <2>1. s = [k \in 1..n |-> s[k]] /\ \A k \in 1..n : s[k] \in Items /\ s[k] = GetElement(a, i)
    BY <1>2
  <2> HIDE DEF s
  <2> QED BY <2>1, ArrayOf
<1> HIDE DEF s
<1>4. ASSUME NEW k \in 0..(n - 1), NEW j \in 0..(m - 1) PROVE j + k * m \in Spots(b)
  <2> DEFINE x == k * m
             y == n * m
  <2>1. x \in Int /\ x >= 0 /\ x + m <= y /\ y = m * n
    <3>1. k \in Int /\ n \in Int /\ k < n /\ k >= 0
      OBVIOUS
    <3>2. x \in Int /\ x >= 0 /\ x + m <= y
      <4> HIDE DEF m
      <4> QED BY <1>1, <3>1, ProductOrder
    <3> QED BY <1>1, <3>2, SMT
  <2> DEFINE z == m * n
  <2>2. Len(b) = z /\ y = z
    BY <1>1, <2>1
  <2> HIDE DEF x, y, m, z
  <2>3. j + x \in 0..(z - 1)
    BY <1>1, <2>1, <2>2
  <2> QED BY <2>2, <2>3 DEF Spots, x
<1>5. Fills(b, c, i, m, s, n)
  <2>1. m \in Int /\ m # 0 /\ i \in Int
    BY <1>1
  <2>2. \A k \in 0..(Len(s) - 1) : i + k * m \in Spots(b)
    BY <1>1, <1>3, <1>4
  <2> HIDE DEF m, c
  <2>3. Fills(b, Stored(b, i, m, s), i, m, s, Len(s))
    BY <1>1, <1>3, <2>1, <2>2, StoredFacts
  <2> QED BY <1>3, <2>3 DEF c
<1> HIDE DEF c
<1>6. c \in Arrays /\ Len(c) = m * n
  BY <1>1, <1>5 DEF Fills
<1>7. ASSUME NEW j \in 0..i, NEW k \in 0..(n - 1) PROVE GetElement(c, j + k * m) = GetElement(a, j)
  <2>1. CASE j = i
    <3>1. GetElement(c, i + k * m) = s[k + 1] /\ k + 1 \in 1..n
      BY <1>5 DEF Fills
    <3> QED BY <1>3, <2>1, <3>1
  <2>2. CASE j # i
    <3>1. j \in 0..(i - 1) /\ j \in 0..(m - 1) /\ i \in 0..(m - 1) /\ k \in Int
      BY <1>1, <2>2
    <3>2. GetElement(b, j + k * m) = GetElement(a, j)
      BY <3>1 DEF Repeats
    <3>3. ASSUME NEW l \in 0..(n - 1), j + k * m = i + l * m PROVE FALSE
      <4>1. l \in Int /\ m \in Nat \ {0}
        BY <1>1
      <4> HIDE DEF m
      <4>2. j = i
        BY <3>1, <3>3, <4>1, OnePlace
      <4> QED BY <2>2, <4>2
    <3>4. j + k * m \in Spots(b)
      BY <1>4, <3>1
    <3>5. \A l \in 0..(n - 1) : j + k * m # i + l * m
      BY <3>3
    <3> DEFINE x == j + k * m
    <3>6. x \in Spots(b) /\ \A l \in 0..(n - 1) : x # i + l * m
      BY <3>4, <3>5
    <3> HIDE DEF x
    <3>7. GetElement(c, x) = GetElement(b, x)
      BY <1>5, <3>6 DEF Fills
    <3> QED BY <3>2, <3>7 DEF x
  <2> QED BY <2>1, <2>2
<1>8. ASSUME NEW j \in (i + 1)..(m - 1) PROVE GetElement(c, j) = GetElement(a, j)
  <2>1. j \in 0..(m - 1) /\ i \in 0..(m - 1) /\ j # i /\ j \in i..(m - 1)
    BY <1>1
  <2>2. 0 * m = 0 /\ j + 0 * m = j
    BY <1>1
  <2>3. 0 \in 0..(n - 1)
    OBVIOUS
  <2>4. j \in Spots(b)
    BY <1>4, <2>1, <2>2, <2>3
  <2>5. ASSUME NEW l \in 0..(n - 1), j = i + l * m PROVE FALSE
    <3> DEFINE o == 0
    <3>1. l \in Int /\ m \in Nat \ {0} /\ o \in Int /\ j + o * m = i + l * m
      BY <1>1, <2>2, <2>5
    <3> HIDE DEF m, o
    <3>2. j = i
      BY <2>1, <3>1, OnePlace
    <3> QED BY <2>1, <3>2
  <2>6. GetElement(c, j) = GetElement(b, j)
    BY <1>5, <2>4, <2>5 DEF Fills
  <2> QED BY <2>1, <2>6 DEF Repeats
<1>9. \A j \in 0..((i + 1) - 1) : j \in 0..i
  BY <1>1
<1> QED BY <1>6, <1>7, <1>8, <1>9 DEF Repeats, c, m, s

\* When all the elements are everywhere, b is the repetition.
LEMMA TimesIs ==
    ASSUME NEW a \in Arrays, a # <<>>, NEW n \in Nat \ {0}, NEW b, Repeats(a, b, n, Len(a))
    PROVE  b = Times(a, n)
<1> DEFINE m == Len(a)
           t == [k \in 1..(n * m) |-> a[1 + ((k - 1) % m)]]
<1>1. m \in Nat \ {0}
  BY EmptySeq, ElementFacts DEF Arrays
<1>2. b \in Arrays /\ Len(b) = n * m
  <2>1. m * n = n * m
    BY <1>1, SMT
  <2> QED BY <2>1 DEF Repeats
<1>3. b = [x \in 1..(n * m) |-> b[x]]
  BY <1>2 DEF Arrays
<1>4. ASSUME NEW x \in 1..(n * m) PROVE b[x] = a[1 + ((x - 1) % m)]
  <2> DEFINE y == x - 1
             k == y \div m
             j == y % m
             z == n * m
  <2>1. z \in Nat /\ y \in Nat /\ y < z
    <3>1. z \in Int
      BY <1>1, ProductOrder
    <3>2. x \in 1..z
      OBVIOUS
    <3> HIDE DEF z
    <3> QED BY <3>1, <3>2
  <2>2. k \in Nat /\ j \in 0..(m - 1) /\ y = k * m + j
    <3> HIDE DEF y, m
    <3> QED BY <1>1, <2>1, Divided
  <2> DEFINE u == k * m
  <2>3. k < n
    <3>1. n <= k => n * m <= k * m
      BY <1>1, <2>2, ProductOrder
    <3>2. u \in Int
      BY <1>1, <2>2, ProductOrder
    <3>3. (n <= k => z <= u) /\ y = u + j
      BY <2>2, <3>1
    <3> HIDE DEF k, j, y, z, u
    <3> QED BY <1>1, <2>1, <2>2, <3>2, <3>3
  <2>4. k \in 0..(n - 1)
    <3> HIDE DEF k
    <3> QED BY <2>2, <2>3
  <2>5. GetElement(b, j + k * m) = GetElement(a, j)
    BY <2>2, <2>4 DEF Repeats
  <2>6. j + k * m = y
    <3>1. u \in Int /\ y = u + j
      BY <1>1, <2>2, ProductOrder
    <3> HIDE DEF k, j, y
    <3>2. j + u = y
      BY <1>1, <2>2, <3>1
    <3> QED BY <3>2
  <2>7. b[x] = GetElement(b, y)
    BY <1>2, ElementFacts
  <2>8. GetElement(a, j) = a[j + 1]
    <3>1. j \in Spots(a)
      BY <2>2 DEF Spots
    <3> HIDE DEF j
    <3> QED BY <3>1, ElementFacts
  <2>9. j + 1 = 1 + j
    <3> HIDE DEF j
    <3> QED BY <1>1, <2>2
  <2> HIDE DEF u, k, j, y
  <2>10. b[x] = a[1 + j]
    BY <2>5, <2>6, <2>7, <2>8, <2>9
  <2> QED BY <2>10 DEF j, y
<1>5. b = t
  BY <1>3, <1>4
<1>6. ~(n <= 0)
  OBVIOUS
<1> QED BY <1>5, <1>6 DEF Times

LEMMA InPlaceRepeat ==
    ASSUME NEW a \in Arrays, NEW n \in Int
    PROVE  inplace_repeat(a, n) = OkSelf(Times(a, n)) /\ Times(a, n) \in Arrays
<1> DEFINE m == Len(a)
<1>1. m \in Nat /\ (a # <<>> => m # 0) /\ <<>> \in Arrays
  BY EmptySeq, ElementFacts DEF Arrays
<1>2. CASE a = <<>>
  <2>1. Times(a, n) = <<>>
    <3>1. Len(a) = 0 /\ n * Len(a) = 0
      BY <1>2
    <3>2. [k \in 1..0 |-> a[1 + ((k - 1) % Len(a))]] = <<>>
      OBVIOUS
    <3>3. [k \in 1..(n * Len(a)) |-> a[1 + ((k - 1) % Len(a))]] = <<>>
      BY <3>1, <3>2
    <3> QED BY <3>3, Zenon DEF Times
  <2>2. inplace_repeat(a, n) = OkSelf(a)
    BY <1>2 DEF inplace_repeat
  <2> QED BY <1>1, <1>2, <2>1, <2>2
<1>3. CASE a # <<>> /\ n < 1
  <2>1. Times(a, n) = <<>>
    BY <1>3 DEF Times
  <2>2. inplace_repeat(a, n) = OkSelf(<<>>)
    BY <1>3 DEF inplace_repeat
  <2> QED BY <1>1, <2>1, <2>2
<1>4. CASE a # <<>> /\ n = 1
  <2>1. Repeats(a, a, 1, m)
    <3>1. m * 1 = m /\ 0 * m = 0
      BY <1>1
    <3>2. ASSUME NEW j \in 0..(m - 1), NEW k \in 0..(1 - 1) PROVE GetElement(a, j + k * Len(a)) = GetElement(a, j)
      <4>1. k = 0 /\ j + k * m = j
        BY <1>1
      <4> QED BY <4>1
    <3> QED BY <1>1, <3>1, <3>2 DEF Repeats
  <2> DEFINE one == 1
  <2>2. one \in Nat \ {0} /\ Repeats(a, a, one, Len(a)) /\ n = one
    BY <1>4, <2>1
  <2> HIDE DEF one
  <2>3. a = Times(a, one)
    BY <1>4, <2>2, TimesIs
  <2>4. inplace_repeat(a, n) = OkSelf(a)
    BY <1>4 DEF inplace_repeat
  <2> QED BY <2>2, <2>3, <2>4
<1>5. CASE a # <<>> /\ n > 1
  <2> DEFINE Spread(b, i) == Stored(b, i, Len(a), [k \in 1..n |-> GetElement(b, i)])
             h == SetArrayLength(a, Len(a) * n)
             u == Upto(0, Len(a))
             l == Len(u)
             after[k \in 0..l] == IF k = 0 THEN h ELSE Spread(after[k - 1], u[k])
  <2>1. inplace_repeat(a, n) = OkSelf(after[l])
    <3>1. n # 1 /\ ~(n < 1)
      BY <1>5
    <3> QED BY <1>5, <3>1 DEF inplace_repeat, Walk
  <2>2. l = m /\ \A k \in 1..l : u[k] = k - 1
    <3>1. 0 \in Int /\ m \in Int /\ 0 <= m /\ m - 0 = m /\ \A k \in 1..m : 0 + k - 1 = k - 1
      BY <1>1
    <3>2. Len(Upto(0, m)) = m - 0 /\ \A k \in 1..(m - 0) : Upto(0, m)[k] = 0 + k - 1
      <4> HIDE DEF m
      <4> QED BY <3>1, UptoFacts
    <3>3. l = m /\ \A k \in 1..m : u[k] = 0 + k - 1
      BY <3>1, <3>2, Zenon DEF l, u
    <3> HIDE DEF l, u
    <3> QED BY <3>1, <3>3
  <2> DEFINE D == [k \in 0..l |-> {b \in Arrays : Repeats(a, b, n, k)}]
             G == [k \in 1..l |-> [b \in D[k - 1] |-> Spread(b, u[k])]]
  <2>3. n \in Nat \ {0}
    BY <1>5
  <2>4. h \in D[0]
    <3> DEFINE z == Len(a) * n
    <3>1. z \in Nat /\ m <= z
      <4>1. n * m \in Int /\ (1 < n => 1 * m + m <= n * m) /\ 1 * m = m /\ m * n = n * m
        <5>1. m \in Nat \ {0} /\ 1 \in Int /\ n \in Int
          BY <1>1, <1>5
        <5> DEFINE one == 1
        <5>2. one \in Int /\ m \in Nat \ {0} /\ n \in Int
          BY <5>1
        <5> HIDE DEF one, m
        <5>3. n * m \in Int /\ (one < n => one * m + m <= n * m)
          BY <5>2, ProductOrder
        <5>4. m * n = n * m
          BY <5>2, SMT
        <5>5. 1 * m = m
          BY <5>2
        <5> QED BY <5>3, <5>4, <5>5 DEF one
      <4> DEFINE y == n * m
      <4>2. y \in Int /\ m + m <= y /\ z = y
        BY <1>5, <4>1
      <4> HIDE DEF y, z
      <4> QED BY <1>1, <4>2
    <3>2. h \in Arrays /\ Len(h) = z /\ \A j \in 0..(z - 1) : GetElement(h, j) = GetElement(a, j)
      <4>1. h = SetArrayLength(a, z)
        OBVIOUS
      <4> HIDE DEF z, h
      <4> QED BY <3>1, <4>1, ResizeFacts
    <3>3. \A j \in 0..(m - 1) : j \in 0..(z - 1)
      <4> HIDE DEF z
      <4> QED BY <1>1, <3>1
    <3>4. Repeats(a, h, n, 0)
      <4> HIDE DEF h
      <4>1. \A j \in 0..(m - 1) : GetElement(h, j) = GetElement(a, j)
        BY <3>2, <3>3
      <4> QED BY <3>2, <4>1 DEF Repeats
    <3>5. 0 \in 0..l
      BY <1>1, <2>2
    <3> QED BY <3>2, <3>4, <3>5
  <2>5. l \in Nat
    BY <1>1, <2>2
  <2> HIDE DEF u, l, h
  <2>6. ASSUME NEW k \in 1..l, NEW b \in D[k - 1] PROVE Spread(b, u[k]) \in D[k]
    <3>1. k - 1 \in 0..l /\ k \in 0..l /\ k - 1 \in 0..(m - 1) /\ (k - 1) + 1 = k /\ u[k] = k - 1
      BY <1>1, <2>2
    <3>2. b \in Arrays /\ Repeats(a, b, n, k - 1)
      BY <3>1
    <3>3. Repeats(a, Stored(b, k - 1, Len(a), [q \in 1..n |-> GetElement(b, k - 1)]), n, (k - 1) + 1)
      BY <2>3, <3>1, <3>2, RepeatOne
    <3>4. Repeats(a, Spread(b, u[k]), n, k)
      BY <3>1, <3>3, Zenon
    <3>5. Spread(b, u[k]) \in Arrays
      BY <3>4 DEF Repeats
    <3> QED BY <3>1, <3>4, <3>5
  <2> HIDE DEF Spread
  <2>7. \A k \in 1..l : \A b \in D[k - 1] : G[k][b] = Spread(b, u[k])
    OBVIOUS
  <2>8. Leads(l, D, G)
    BY <2>6, <2>7 DEF Leads
  <2>9. \E f : f = [k \in 0..l |-> IF k = 0 THEN h ELSE Spread(f[k - 1], u[k])]
    <3> HIDE DEF D, G, after
    <3>1. PICK f : Path(f, l, h, G) /\ Stays(f, l, D)
      BY <2>4, <2>5, <2>8, LoopExists
    <3>2. \A k \in 1..l : G[k][f[k - 1]] = Spread(f[k - 1], u[k])
      <4> TAKE k \in 1..l
      <4>1. k - 1 \in 0..l
        BY <2>5
      <4> QED BY <2>7, <3>1, <4>1 DEF Stays
    <3>3. \A k \in 0..l : k # 0 => k \in 1..l
      BY <2>5
    <3>4. f = [k \in 0..l |-> IF k = 0 THEN h ELSE Spread(f[k - 1], u[k])]
      BY <3>1, <3>2, <3>3 DEF Path
    <3> QED BY <3>4
  <2>10. after[l] \in D[l]
    <3>1. after = [k \in 0..l |-> IF k = 0 THEN h ELSE Spread(after[k - 1], u[k])]
      BY <2>9
    <3> HIDE DEF after, D, G
    <3>2. after[0] = h /\ \A k \in 1..l : after[k] = Spread(after[k - 1], u[k])
      <4>1. 0 \in 0..l /\ \A k \in 1..l : k \in 0..l /\ k # 0
        BY <2>5
      <4> QED BY <3>1, <4>1
    <3>3. \A k \in 1..l : after[k - 1] \in D[k - 1] => after[k] \in D[k]
      BY <2>6, <3>2
    <3>4. after[0] \in D[0]
      BY <2>4, <3>2
    <3>5. \A k \in 0..l : after[k] \in D[k]
      BY <2>5, <3>3, <3>4, LoopKeeps
    <3> QED BY <2>5, <3>5
  <2> DEFINE r == after[l]
  <2>11. r \in Arrays /\ Repeats(a, r, n, Len(a))
    <3> HIDE DEF after
    <3>1. l \in 0..l
      BY <2>5
    <3>2. r \in Arrays /\ Repeats(a, r, n, l)
      BY <2>10, <3>1
    <3> QED BY <2>2, <3>2
  <2>12. inplace_repeat(a, n) = OkSelf(r)
    BY <2>1
  <2> HIDE DEF r
  <2>13. r = Times(a, n)
    BY <1>5, <2>3, <2>11, TimesIs
  <2> QED BY <2>11, <2>12, <2>13
<1> QED BY <1>2, <1>3, <1>4, <1>5

LEMMA RepeatIs ==
    ASSUME NEW a \in Arrays, NEW n \in Int
    PROVE  repeat(a, n) = Ok(a, Times(a, n))
<1>1. Len(a) \in Nat
  BY ElementFacts
<1>2. CASE n <= 0
  BY <1>2 DEF repeat, Times
<1>3. CASE ~(n <= 0) /\ a = <<>>
  <2>1. Len(a) = 0 /\ n * Len(a) = 0
    BY <1>3
  <2>2. [k \in 1..0 |-> a[1 + ((k - 1) % Len(a))]] = <<>>
    OBVIOUS
  <2>3. Times(a, n) = <<>>
    BY <1>3, <2>1, <2>2 DEF Times
  <2> QED BY <1>3, <2>3 DEF repeat
<1>4. CASE ~(n <= 0) /\ a # <<>>
  <2>1. Len(a) * n = n * Len(a)
    BY <1>1, SMT
  <2> DEFINE z == n * Len(a)
  <2>2. z \in Int
    BY <1>1, SMT
  <2>3. \A k \in 1..z : ((k - 1) % Len(a)) + 1 = 1 + ((k - 1) % Len(a))
    <3> TAKE k \in 1..z
    <3>1. Len(a) \in Nat \ {0} /\ k - 1 \in Nat
      BY <1>1, <1>4, <2>2, EmptySeq DEF Arrays
    <3> DEFINE y == (k - 1) % Len(a)
    <3>2. y \in Int
      <4> DEFINE x == k - 1
      <4> HIDE DEF x
      <4>1. x \in Nat => x % Len(a) \in 0..(Len(a) - 1)
        BY <3>1, Divided
      <4> QED BY <3>1, <4>1 DEF x
    <3> HIDE DEF y
    <3>3. y + 1 = 1 + y
      BY <3>2
    <3> QED BY <3>3 DEF y
  <2>4. Repeated(a, n) = [k \in 1..z |-> a[((k - 1) % Len(a)) + 1]]
    BY <2>1 DEF Repeated
  <2>5. [k \in 1..z |-> a[((k - 1) % Len(a)) + 1]] = [k \in 1..z |-> a[1 + ((k - 1) % Len(a))]]
    BY <2>3
  <2>6. Times(a, n) = [k \in 1..z |-> a[1 + ((k - 1) % Len(a))]]
    BY <1>4 DEF Times
  <2>7. repeat(a, n) = Ok(a, Repeated(a, n))
    BY <1>4 DEF repeat
  <2> QED BY <2>4, <2>5, <2>6, <2>7, Zenon
<1> QED BY <1>2, <1>3, <1>4

LEMMA AppendIs ==
    ASSUME NEW a \in Arrays, NEW x \in Items
    PROVE  /\ append(a, x) = Ok(Append(a, x), None)
           /\ append(a, x).arr \in Arrays /\ Len(append(a, x).arr) = Len(a) + 1
           /\ \A i \in 0..Len(a) : GetElement(append(a, x).arr, i) = IF i = Len(a) THEN x ELSE GetElement(a, i)
<1> DEFINE n == Len(a)
           b == SetArrayLength(a, n + 1)
           c == SetElement(b, n, x)
           e == Append(a, x)
<1>1. n \in Nat /\ a \in Seq(Items)
  BY ElementFacts DEF Arrays
<1>2. b \in Arrays /\ Len(b) = n + 1 /\ \A i \in 0..((n + 1) - 1) : GetElement(b, i) = GetElement(a, i)
  <2>1. n + 1 \in Nat
    BY <1>1
  <2> DEFINE k == n + 1
  <2>2. k \in Nat /\ b = SetArrayLength(a, k)
    BY <2>1
  <2> HIDE DEF k, b
  <2>3. b \in Arrays /\ Len(b) = k /\ \A i \in 0..(k - 1) : GetElement(b, i) = GetElement(a, i)
    BY <2>2, ResizeFacts
  <2> QED BY <2>3 DEF k
<1> HIDE DEF b, n
<1>3. n \in Spots(b) /\ \A i : i \in Spots(b) <=> i \in 0..n
  <2>1. Spots(b) = 0..((n + 1) - 1) /\ (n + 1) - 1 = n
    BY <1>1, <1>2 DEF Spots
  <2> QED BY <1>1, <2>1
<1>4. c \in Arrays /\ Len(c) = n + 1 /\ \A i \in Spots(b) : GetElement(c, i) = IF i = n THEN x ELSE GetElement(b, i)
  BY <1>2, <1>3, SetFacts
<1> HIDE DEF c
<1>5. ASSUME NEW i \in 0..n PROVE GetElement(c, i) = IF i = n THEN x ELSE GetElement(a, i)
  <2>1. i \in Spots(b) /\ i \in 0..((n + 1) - 1)
    BY <1>1, <1>3
  <2> QED BY <1>2, <1>4, <2>1
<1>6. e \in Seq(Items) /\ Len(e) = n + 1 /\ (\A k \in 1..n : e[k] = a[k]) /\ e[n + 1] = x
  BY <1>1, AppendProperties DEF n
<1> HIDE DEF e
<1>7. e \in Arrays
  BY <1>6 DEF Arrays
<1>8. ASSUME NEW i \in Spots(c) PROVE GetElement(c, i) = GetElement(e, i)
  <2>1. i \in 0..n /\ i \in Spots(e)
    BY <1>1, <1>4, <1>6 DEF Spots
  <2>2. GetElement(e, i) = e[i + 1]
    BY <1>7, <2>1, ElementFacts
  <2>3. CASE i = n
    BY <1>5, <1>6, <2>1, <2>2, <2>3
  <2>4. CASE i # n
    <3>1. i + 1 \in 1..n /\ i \in Spots(a)
      BY <1>1, <2>1, <2>4 DEF Spots, n
    <3>2. GetElement(a, i) = a[i + 1]
      BY <3>1, ElementFacts
    <3> QED BY <1>5, <1>6, <2>1, <2>2, <2>4, <3>1, <3>2
  <2> QED BY <2>3, <2>4
<1>9. c = e
  BY <1>4, <1>6, <1>7, <1>8, SameArray
<1>10. append(a, x) = Ok(c, None)
  BY DEF append, c, b, n
<1>11. append(a, x).arr = c
  BY <1>10 DEF Ok
<1>12. 0..Len(a) = 0..n /\ n = Len(a)
  BY DEF n
<1> QED BY <1>4, <1>5, <1>9, <1>10, <1>11, <1>12, Zenon DEF e

\* The first k elements of s follow those of a.
Extends(a, b, s, k) ==
    /\ b \in Arrays /\ Len(b) = Len(a) + k
    /\ \A i \in Spots(a) : GetElement(b, i) = GetElement(a, i)
    /\ \A j \in 0..(k - 1) : GetElement(b, Len(a) + j) = s[j + 1]

LEMMA ExtendOne ==
    ASSUME NEW a \in Arrays, NEW s \in Arrays, NEW k \in Nat, k < Len(s), NEW b, Extends(a, b, s, k)
    PROVE  Extends(a, append(b, s[k + 1]).arr, s, k + 1)
<1> DEFINE x == s[k + 1]
           c == append(b, x).arr
           n == Len(a)
<1>1. n \in Nat /\ b \in Arrays /\ Len(b) = n + k /\ x \in Items
  <2>1. k + 1 \in 1..Len(s)
    BY ElementFacts
  <2> QED BY <2>1, ElementFacts DEF Extends
<1> HIDE DEF x
<1>2. c \in Arrays /\ Len(c) = (n + k) + 1
      /\ \A i \in 0..(n + k) : GetElement(c, i) = IF i = n + k THEN x ELSE GetElement(b, i)
  <2> DEFINE l == Len(b)
  <2>1. c \in Arrays /\ Len(c) = l + 1 /\ \A i \in 0..l : GetElement(c, i) = IF i = l THEN x ELSE GetElement(b, i)
    BY <1>1, AppendIs
  <2>2. l = n + k
    BY <1>1
  <2> HIDE DEF l, c
  <2> QED BY <2>1, <2>2
<1> HIDE DEF c
<1>3. ASSUME NEW i \in Spots(a) PROVE GetElement(c, i) = GetElement(a, i)
  <2>1. i \in 0..(n + k) /\ i # n + k
    BY <1>1 DEF Spots
  <2> QED BY <1>2, <2>1 DEF Extends
<1>4. ASSUME NEW j \in 0..((k + 1) - 1) PROVE GetElement(c, n + j) = s[j + 1]
  <2>1. n + j \in 0..(n + k) /\ (n + j = n + k <=> j = k)
    BY <1>1
  <2>2. CASE j = k
    BY <1>2, <2>1, <2>2 DEF x
  <2>3. CASE j # k
    <3>1. j \in 0..(k - 1) /\ n + j # n + k
      BY <2>1, <2>3
    <3>2. GetElement(b, n + j) = s[j + 1]
      BY <3>1 DEF Extends
    <3>3. GetElement(c, n + j) = GetElement(b, n + j)
      BY <1>2, <2>1, <3>1
    <3> QED BY <3>2, <3>3
  <2> QED BY <2>2, <2>3
<1>5. Len(c) = n + (k + 1)
  BY <1>1, <1>2
<1> QED BY <1>2, <1>3, <1>4, <1>5 DEF Extends, c, x

LEMMA ExtendAll ==
    ASSUME NEW a \in Arrays, NEW s \in Arrays, NEW v, s = OperandItems(v, a)
    PROVE  extend(a, v) = Ok(a \o s, None) /\ a \o s \in Arrays
<1> DEFINE Body(b, x) == append(b, x).arr
           l == Len(s)
           after[k \in 0..l] == IF k = 0 THEN a ELSE Body(after[k - 1], s[k])
           D == [k \in 0..l |-> {b \in Arrays : Extends(a, b, s, k)}]
           G == [k \in 1..l |-> [b \in D[k - 1] |-> Body(b, s[k])]]
<1>1. extend(a, v) = Ok(after[l], None)
  BY DEF extend, Walk
<1>2. l \in Nat /\ Len(a) \in Nat
  BY ElementFacts
<1>3. a \in D[0]
  <2>1. Extends(a, a, s, 0)
    BY <1>2 DEF Extends
  <2> QED BY <1>2, <2>1
<1> HIDE DEF l
<1>4. ASSUME NEW k \in 1..l, NEW b \in D[k - 1] PROVE Body(b, s[k]) \in D[k]
  <2>1. k - 1 \in 0..l /\ k \in 0..l /\ k - 1 \in Nat /\ k - 1 < l /\ (k - 1) + 1 = k
    BY <1>2
  <2>2. b \in Arrays /\ Extends(a, b, s, k - 1)
    BY <2>1
  <2> DEFINE h == k - 1
  <2>3. h \in Nat /\ h < Len(s) /\ h + 1 = k /\ Extends(a, b, s, h)
    BY <2>1, <2>2 DEF l
  <2> HIDE DEF h
  <2>4. Extends(a, append(b, s[h + 1]).arr, s, h + 1)
    BY <2>3, ExtendOne
  <2>5. Extends(a, Body(b, s[k]), s, k)
    BY <2>3, <2>4, Zenon
  <2>6. Body(b, s[k]) \in Arrays
    BY <2>5 DEF Extends
  <2> QED BY <2>1, <2>5, <2>6
<1> HIDE DEF Body
<1>5. \A k \in 1..l : \A b \in D[k - 1] : G[k][b] = Body(b, s[k])
  OBVIOUS
<1>6. Leads(l, D, G)
  BY <1>4, <1>5 DEF Leads
<1>7. \E f : f = [k \in 0..l |-> IF k = 0 THEN a ELSE Body(f[k - 1], s[k])]
  <2> HIDE DEF D, G, after
  <2>1. PICK f : Path(f, l, a, G) /\ Stays(f, l, D)
    BY <1>2, <1>3, <1>6, LoopExists
  <2>2. \A k \in 1..l : G[k][f[k - 1]] = Body(f[k - 1], s[k])
    <3> TAKE k \in 1..l
    <3>1. k - 1 \in 0..l
      BY <1>2
    <3> QED BY <1>5, <2>1, <3>1 DEF Stays
  <2>3. \A k \in 0..l : k # 0 => k \in 1..l
    BY <1>2
  <2>4. f = [k \in 0..l |-> IF k = 0 THEN a ELSE Body(f[k - 1], s[k])]
    BY <2>1, <2>2, <2>3 DEF Path
  <2> QED BY <2>4
<1>8. after[l] \in D[l]
  <2>1. after = [k \in 0..l |-> IF k = 0 THEN a ELSE Body(after[k - 1], s[k])]
    BY <1>7
  <2> HIDE DEF after, D, G
  <2>2. after[0] = a /\ \A k \in 1..l : after[k] = Body(after[k - 1], s[k])
    <3>1. 0 \in 0..l /\ \A k \in 1..l : k \in 0..l /\ k # 0
      BY <1>2
    <3> QED BY <2>1, <3>1
  <2>3. \A k \in 1..l : after[k - 1] \in D[k - 1] => after[k] \in D[k]
    BY <1>4, <2>2
  <2>4. after[0] \in D[0]
    BY <1>3, <2>2
  <2>5. \A k \in 0..l : after[k] \in D[k]
    BY <1>2, <2>3, <2>4, LoopKeeps
  <2> QED BY <1>2, <2>5
<1> DEFINE b == after[l]
<1>9. Extends(a, b, s, l)
  <2> HIDE DEF after
  <2>1. l \in 0..l
    BY <1>2
  <2> QED BY <1>8, <2>1
<1>10. extend(a, v) = Ok(b, None)
  BY <1>1
<1> HIDE DEF b
<1> DEFINE c == a \o s
<1>11. c \in Arrays /\ Len(c) = Len(a) + l
       /\ \A i \in 0..(Len(a) + l - 1) :
             GetElement(c, i) = IF i < Len(a) THEN GetElement(a, i) ELSE GetElement(s, i - Len(a))
  BY JoinFacts DEF l
<1> HIDE DEF c
<1>12. b \in Arrays /\ Len(b) = Len(a) + l
  BY <1>9 DEF Extends
<1>13. ASSUME NEW i \in Spots(b) PROVE GetElement(b, i) = GetElement(c, i)
  <2>1. i \in Nat /\ i < Len(a) + l /\ i \in 0..(Len(a) + l - 1)
    BY <1>2, <1>12 DEF Spots
  <2>2. CASE i < Len(a)
    <3>1. i \in Spots(a)
      BY <1>2, <2>1, <2>2 DEF Spots
    <3>2. GetElement(b, i) = GetElement(a, i)
      BY <1>9, <3>1 DEF Extends
    <3> QED BY <1>11, <2>1, <2>2, <3>2
  <2>3. CASE ~(i < Len(a))
    <3> DEFINE j == i - Len(a)
    <3>1. j \in 0..(l - 1) /\ Len(a) + j = i /\ j \in Spots(s)
      BY <1>2, <2>1, <2>3 DEF Spots, l
    <3> HIDE DEF j
    <3>2. GetElement(b, Len(a) + j) = s[j + 1]
      BY <1>9, <3>1 DEF Extends
    <3>3. GetElement(s, j) = s[j + 1]
      BY <3>1, ElementFacts
    <3>4. GetElement(c, i) = GetElement(s, j)
      BY <1>11, <2>1, <2>3 DEF j
    <3> QED BY <3>1, <3>2, <3>3, <3>4
  <2> QED BY <2>2, <2>3
<1>14. b = c
  BY <1>11, <1>12, <1>13, SameArray
<1> QED BY <1>10, <1>11, <1>14 DEF c

-----------------------------------------------------------------------------
(* Every operation, one by one.                                            *)

\* What the program knows to be otherwise, by the operation and its arguments.
Exempt(op, x, a) ==
    CASE op = "setslice" ->
           \/ /\ x[1].step = 1
              /\ Len(OperandItems(x[2], a)) - Cardinality(Places(x[1], a)) > 0
              /\ Len(a) - Gap(x[1], a) - Cardinality(Places(x[1], a))
                   > Len(OperandItems(x[2], a)) - Cardinality(Places(x[1], a))
           \/ x[1].step # 1 /\ x[2].kind = "self"
      [] op = "iadd" -> IsProxy(x[1])
      [] op = "concat" -> OperandItems(x[1], a) = <<>>
      [] op = "compare" -> Perform(op, a, x).err = "crash"
      [] OTHER -> FALSE
Meets(op, x, a, r) ==
    LET c == [op |-> op, args |-> x]
    IN  /\ r.err = Failure(c, a)
        /\ r.arr = Edited(c, a)
        /\ r.err = "none" => r.ret = Answer(c, a)
        /\ op \in {"getslice", "concat", "repeat", "copy"} => r.fresh
Answers(op, x, a) ==
    /\ Perform(op, a, x).arr \in Arrays
    /\ ~Exempt(op, x, a) => Meets(op, x, a, Perform(op, a, x))

\* Where(s, x) counts from 0 what count and contains count from 1.
LEMMA WhereFacts ==
    ASSUME NEW a \in Arrays, NEW x
    PROVE  /\ \A i : i \in Where(a, x) <=> i \in Spots(a) /\ a[i + 1] = x
           /\ \A i : i \in {k \in DOMAIN a : a[k] = x} <=> i \in 1..Len(a) /\ a[i] = x
           /\ Where(a, x) \subseteq Nat
           /\ Where(a, x) = {} <=> {k \in DOMAIN a : a[k] = x} = {}
           /\ Cardinality({k \in DOMAIN a : a[k] = x}) = Cardinality(Where(a, x))
<1> DEFINE W == Where(a, x)
           U == {k \in DOMAIN a : a[k] = x}
<1>0. Len(a) \in Nat /\ DOMAIN a = 1..Len(a)
  BY ElementFacts
<1>1. \A i : i \in W <=> i \in Spots(a) /\ a[i + 1] = x
  BY DEF Where, Spots
<1>2. \A i : i \in U <=> i \in 1..Len(a) /\ a[i] = x
  BY <1>0
<1>3. W \subseteq Nat /\ W \subseteq Spots(a)
  BY <1>0, <1>1 DEF Spots
<1> HIDE DEF W, U
<1>4. \A i \in W : i + 1 \in U /\ i \in Nat
  BY <1>0, <1>1, <1>2, <1>3 DEF Spots
<1>5. \A i \in U : i - 1 \in W /\ i \in Nat /\ (i - 1) + 1 = i
  BY <1>0, <1>1, <1>2 DEF Spots
<1>6. W = {} <=> U = {}
  BY <1>4, <1>5
<1>7. IsFiniteSet(W)
  <2>1. IsFiniteSet(Spots(a))
    BY <1>0, FirstFew DEF Spots
  <2> QED BY <1>3, <2>1, FS_Subset
<1>8. Cardinality(U) = Cardinality(W)
  <2> DEFINE f == [i \in W |-> i + 1]
  <2>1. f \in Bijection(W, U)
    <3>1. f \in [W -> U]
      BY <1>4
    <3>2. \A i, j \in W : f[i] = f[j] => i = j
      BY <1>4
    <3>3. \A k \in U : \E i \in W : f[i] = k
      BY <1>5
    <3> HIDE DEF f
    <3> QED BY <3>1, <3>2, <3>3 DEF Bijection, Injection, Surjection, IsInjective
  <2>2. ExistsBijection(W, U)
    BY <2>1 DEF ExistsBijection
  <2> QED BY <1>7, <2>2, FS_Bijection
<1> QED BY <1>1, <1>2, <1>3, <1>6, <1>8 DEF W, U

\* The operations that only answer, or take no argument.
LEMMA LenAnswers == \A a \in Arrays : Answers("len", <<>>, a)
<1> SUFFICES ASSUME NEW a \in Arrays PROVE Answers("len", <<>>, a)
  OBVIOUS
<1> DEFINE c == [op |-> "len", args |-> <<>>]
<1>1. Perform("len", a, <<>>) = Ok(a, Len(a))
  BY DEF Perform
<1>2. Failure(c, a) = "none" /\ Edited(c, a) = a /\ Answer(c, a) = Len(a)
  BY DEF Failure, Edited, Answer
<1> QED BY <1>1, <1>2 DEF Answers, Meets, Ok

LEMMA ClearAnswers == \A a \in Arrays : Answers("clear", <<>>, a)
<1> SUFFICES ASSUME NEW a \in Arrays PROVE Answers("clear", <<>>, a)
  OBVIOUS
<1> DEFINE c == [op |-> "clear", args |-> <<>>]
           b == SetArrayLength(a, 0)
<1>1. Perform("clear", a, <<>>) = Ok(b, None)
  BY DEF Perform, clear_method
<1>2. Failure(c, a) = "none" /\ Edited(c, a) = <<>> /\ Answer(c, a) = None
  BY DEF Failure, Edited, Answer
<1>3. b \in Arrays /\ Len(b) = 0
  BY ResizeFacts
<1>4. b = <<>>
  BY <1>3, EmptySeq DEF Arrays
<1> HIDE DEF b
<1> QED BY <1>1, <1>2, <1>3, <1>4 DEF Answers, Meets, Ok

LEMMA CopyAnswers == \A a \in Arrays : Answers("copy", <<>>, a)
<1> SUFFICES ASSUME NEW a \in Arrays PROVE Answers("copy", <<>>, a)
  OBVIOUS
<1> DEFINE c == [op |-> "copy", args |-> <<>>]
           b == JSSlice(a, 0, Len(a))
<1>1. Perform("copy", a, <<>>) = Ok(a, b)
  BY DEF Perform, copy
<1>2. Failure(c, a) = "none" /\ Edited(c, a) = a /\ Answer(c, a) = a
  BY DEF Failure, Edited, Answer
<1>3. b = a
  <2>0. Len(a) \in Nat
    BY ElementFacts
  <2>1. b = SubSeq(a, 1, Len(a))
    BY DEF JSSlice
  <2>2. SubSeq(a, 1, Len(a)) \in Arrays /\ Len(SubSeq(a, 1, Len(a))) = Len(a)
        /\ \A i \in 1..Len(a) : SubSeq(a, 1, Len(a))[i] = a[i]
    BY <2>0, SubSeqProperties DEF Arrays
  <2> HIDE DEF b
  <2> QED BY <2>1, <2>2, SeqEqual DEF Arrays
<1> HIDE DEF b
<1> QED BY <1>1, <1>2, <1>3 DEF Answers, Meets, Ok

LEMMA ReverseAnswers == \A a \in Arrays : Answers("reverse", <<>>, a)
<1> SUFFICES ASSUME NEW a \in Arrays PROVE Answers("reverse", <<>>, a)
  OBVIOUS
<1> DEFINE c == [op |-> "reverse", args |-> <<>>]
           b == Reverse(a)
<1>0. Len(a) \in Nat /\ DOMAIN a = 1..Len(a)
  BY ElementFacts
<1>1. Perform("reverse", a, <<>>) = Ok(b, None)
  BY DEF Perform, reverse
<1>2. /\ Failure(c, a) = "none" /\ Answer(c, a) = None
      /\ Edited(c, a) = [k \in DOMAIN a |-> a[Len(a) + 1 - k]]
  BY DEF Failure, Edited, Answer
<1>3. b = [k \in 1..Len(a) |-> a[Len(a) + 1 - k]]
  <2>1. \A k \in 1..Len(a) : (Len(a) - k) + 1 = Len(a) + 1 - k
    BY <1>0
  <2> QED BY <2>1 DEF Reverse
<1>4. b \in Arrays
  BY <1>0, <1>3 DEF Arrays
<1>5. Edited(c, a) = b
  BY <1>0, <1>2, <1>3
<1> HIDE DEF b
<1> QED BY <1>1, <1>2, <1>4, <1>5 DEF Answers, Meets, Ok, Exempt

LEMMA FindAnswers ==
    ASSUME NEW a \in Arrays, NEW x, NEW op \in {"contains", "count"}
    PROVE  Answers(op, x, a)
<1> DEFINE c == [op |-> op, args |-> x]
           v == x[1]
           U == {k \in DOMAIN a : a[k] = v}
<1>1. Failure(c, a) = "none" /\ Edited(c, a) = a
  BY DEF Failure, Edited
<1>2. /\ Where(a, v) = {} <=> U = {}
      /\ Cardinality(U) = Cardinality(Where(a, v))
  BY WhereFacts
<1>3. CASE op = "contains"
  <2>1. Perform(op, a, x) = Ok(a, \E k \in DOMAIN a : a[k] = v)
    BY <1>3 DEF Perform, contains
  <2>2. (\E k \in DOMAIN a : a[k] = v) <=> (Where(a, v) # {})
    BY <1>2
  <2>3. Answer(c, a) = (Where(a, v) # {})
    BY <1>3 DEF Answer
  <2> DEFINE p == \E k \in DOMAIN a : a[k] = v
             q == Where(a, v) # {}
  <2>4. p = q
    BY <2>2
  <2>5. Perform(op, a, x) = Ok(a, q)
    BY <2>1, <2>4, Zenon
  <2> HIDE DEF p, q
  <2> QED BY <1>1, <1>3, <2>3, <2>5 DEF Answers, Meets, Ok, q
<1>4. CASE op = "count"
  <2>1. Perform(op, a, x) = Ok(a, Cardinality(U))
    BY <1>4 DEF Perform, count
  <2>2. Answer(c, a) = Cardinality(Where(a, v))
    BY <1>4 DEF Answer
  <2> HIDE DEF U
  <2> QED BY <1>1, <1>2, <1>4, <2>1, <2>2 DEF Answers, Meets, Ok
<1> QED BY <1>3, <1>4

\* A place from either end.
LEMMA PlaceFacts ==
    ASSUME NEW a \in Arrays, NEW i \in Int
    PROVE  /\ FromEnd(i, a) = At(i, a) /\ At(i, a) \in Int
           /\ InRange(FromEnd(i, a), a) <=> Has(i, a)
           /\ Has(i, a) => At(i, a) \in Spots(a)
           /\ Has(i, a) => GetElement(a, At(i, a)) = a[At(i, a) + 1]
<1>0. Len(a) \in Nat
  BY ElementFacts
<1>1. FromEnd(i, a) = At(i, a) /\ At(i, a) \in Int
  BY <1>0 DEF FromEnd, At
<1>2. InRange(FromEnd(i, a), a) <=> Has(i, a)
  BY <1>1 DEF InRange, Has
<1>3. Has(i, a) => At(i, a) \in Spots(a)
  BY DEF Has, Spots
<1> QED BY <1>1, <1>2, <1>3, ElementFacts

LEMMA GetAnswers ==
    ASSUME NEW a \in Arrays, NEW x, x[1] \in Int
    PROVE  Answers("get", x, a)
<1> DEFINE c == [op |-> "get", args |-> x]
           i == x[1]
           r == Perform("get", a, x)
<1>1. r = IF InRange(FromEnd(i, a), a) THEN Ok(a, GetElement(a, FromEnd(i, a))) ELSE Err(a, "IndexError")
  BY DEF Perform, GetIndex
<1>2. /\ Failure(c, a) = IF ~Has(i, a) THEN "IndexError" ELSE "none"
      /\ Edited(c, a) = a /\ Answer(c, a) = a[At(i, a) + 1]
  BY DEF Failure, Edited, Answer
<1>3. i \in Int
  OBVIOUS
<1> HIDE DEF r, c, i
<1>4. /\ FromEnd(i, a) = At(i, a)
      /\ InRange(FromEnd(i, a), a) <=> Has(i, a)
      /\ Has(i, a) => GetElement(a, At(i, a)) = a[At(i, a) + 1]
  BY <1>3, PlaceFacts
<1>5. r.arr = a /\ r.err = Failure(c, a) /\ (r.err = "none" => r.ret = Answer(c, a))
  BY <1>1, <1>2, <1>4 DEF Ok, Err
<1> QED BY <1>2, <1>5 DEF Answers, Meets, r, c

\* array[i] = v, and del array[i], which leaves a hole.
LEMMA SetIndexIs ==
    ASSUME NEW a \in Arrays, NEW i \in Int, NEW v \in Items
    PROVE  /\ ~Has(i, a) => SetIndex(a, i, v) = Err(a, "IndexError")
           /\ Has(i, a) => SetIndex(a, i, v) = Ok([k \in DOMAIN a |-> IF k = At(i, a) + 1 THEN v ELSE a[k]], None)
           /\ SetIndex(a, i, v).arr \in Arrays
<1> DEFINE p == At(i, a)
           b == SetElement(a, p, v)
           e == [k \in DOMAIN a |-> IF k = p + 1 THEN v ELSE a[k]]
<1>0. Len(a) \in Nat /\ DOMAIN a = 1..Len(a) /\ \A k \in 1..Len(a) : a[k] = GetElement(a, k - 1) /\ a[k] \in Items
  BY ElementFacts
<1>1. /\ FromEnd(i, a) = p /\ p \in Int
      /\ InRange(FromEnd(i, a), a) <=> Has(i, a)
      /\ Has(i, a) => p \in Spots(a)
  BY PlaceFacts
<1>2. SetIndex(a, i, v) = IF Has(i, a) THEN Ok(b, None) ELSE Err(a, "IndexError")
  BY <1>1 DEF SetIndex
<1> HIDE DEF p
<1>3. CASE Has(i, a)
  <2>1. b \in Arrays /\ Len(b) = Len(a) /\ \A j \in Spots(a) : GetElement(b, j) = IF j = p THEN v ELSE GetElement(a, j)
    BY <1>1, <1>3, SetFacts
  <2> HIDE DEF b
  <2>2. e = [k \in 1..Len(a) |-> e[k]] /\ \A k \in 1..Len(a) : e[k] \in Items /\ e[k] = IF k = p + 1 THEN v ELSE a[k]
    BY <1>0
  <2> HIDE DEF e
  <2>3. e \in Arrays /\ Len(e) = Len(a) /\ \A j \in 0..(Len(a) - 1) : GetElement(e, j) = e[j + 1]
    BY <1>0, <2>2, ArrayOf
  <2>4. ASSUME NEW j \in Spots(b) PROVE GetElement(b, j) = GetElement(e, j)
    <3>1. j \in Spots(a) /\ j \in 0..(Len(a) - 1) /\ j + 1 \in 1..Len(a) /\ (j + 1) - 1 = j /\ j \in Int
      BY <1>0, <2>1, <2>4 DEF Spots
    <3>2. GetElement(e, j) = IF j + 1 = p + 1 THEN v ELSE a[j + 1]
      BY <2>2, <2>3, <3>1
    <3>3. j + 1 = p + 1 <=> j = p
      BY <1>1, <3>1
    <3>4. a[j + 1] = GetElement(a, j)
      BY <1>0, <3>1
    <3> QED BY <2>1, <3>1, <3>2, <3>3, <3>4
  <2>5. b = e
    BY <2>1, <2>3, <2>4, SameArray
  <2>6. SetIndex(a, i, v) = Ok(e, None)
    BY <1>2, <1>3, <2>5
  <2> QED BY <1>3, <2>3, <2>6 DEF Ok, e, p
<1>4. CASE ~Has(i, a)
  BY <1>2, <1>4 DEF Err
<1> QED BY <1>3, <1>4

LEMMA SetAnswers ==
    ASSUME NEW a \in Arrays, NEW x, x[1] \in Int, x[2] \in Items
    PROVE  Answers("set", x, a)
<1> DEFINE c == [op |-> "set", args |-> x]
           i == x[1]
           v == x[2]
           r == Perform("set", a, x)
           e == [k \in DOMAIN a |-> IF k = At(i, a) + 1 THEN v ELSE a[k]]
<1>1. r = SetIndex(a, i, v)
  BY DEF Perform
<1>2. /\ Failure(c, a) = IF ~Has(i, a) THEN "IndexError" ELSE "none"
      /\ Answer(c, a) = None
  BY DEF Failure, Answer
<1>3. Edited(c, a) = IF ~Has(i, a) THEN a ELSE e
  <2>1. CASE ~Has(i, a)
    <3>1. Failure(c, a) # "none"
      BY <1>2, <2>1
    <3>2. Edited(c, a) = a
      BY <3>1 DEF Edited
    <3> QED BY <2>1, <3>2
  <2>2. CASE Has(i, a)
    <3>1. Failure(c, a) = "none"
      BY <1>2, <2>2
    <3>2. Edited(c, a) = e
      BY <3>1 DEF Edited
    <3> QED BY <2>2, <3>2
  <2> QED BY <2>1, <2>2
<1>4. i \in Int /\ v \in Items
  OBVIOUS
<1>5. /\ ~Has(i, a) => SetIndex(a, i, v) = Err(a, "IndexError")
      /\ Has(i, a) => SetIndex(a, i, v) = Ok(e, None)
      /\ SetIndex(a, i, v).arr \in Arrays
  <2> HIDE DEF i, v
  <2> QED BY <1>4, SetIndexIs
<1> HIDE DEF r, c, i, v, e
<1>6. r.err = Failure(c, a) /\ (r.err = "none" => r.ret = Answer(c, a)) /\ r.arr = Edited(c, a)
  BY <1>1, <1>2, <1>3, <1>5 DEF Ok, Err
<1> QED BY <1>1, <1>5, <1>6 DEF Answers, Meets, r, c

LEMMA DelAnswers ==
    ASSUME NEW a \in Arrays, NEW x, x[1] \in Int
    PROVE  Answers("del", x, a)
<1> DEFINE c == [op |-> "del", args |-> x]
           i == x[1]
           r == Perform("del", a, x)
           e == [k \in DOMAIN a |-> IF k = At(i, a) + 1 THEN None ELSE a[k]]
<1>1. r = SetIndex(a, i, None)
  BY DEF Perform, DelIndex
<1>2. /\ Failure(c, a) = IF ~Has(i, a) THEN "IndexError" ELSE "none"
      /\ Answer(c, a) = None
  BY DEF Failure, Answer
<1>3. Edited(c, a) = IF ~Has(i, a) THEN a ELSE e
  <2>1. CASE ~Has(i, a)
    <3>1. Failure(c, a) # "none"
      BY <1>2, <2>1
    <3>2. Edited(c, a) = a
      BY <3>1 DEF Edited
    <3> QED BY <2>1, <3>2
  <2>2. CASE Has(i, a)
    <3>1. Failure(c, a) = "none"
      BY <1>2, <2>2
    <3>2. Edited(c, a) = e
      BY <3>1 DEF Edited
    <3> QED BY <2>2, <3>2
  <2> QED BY <2>1, <2>2
<1>4. i \in Int /\ None \in Items
  BY ArrayAssumption
<1>5. /\ ~Has(i, a) => SetIndex(a, i, None) = Err(a, "IndexError")
      /\ Has(i, a) => SetIndex(a, i, None) = Ok(e, None)
      /\ SetIndex(a, i, None).arr \in Arrays
  <2> HIDE DEF i
  <2> QED BY <1>4, SetIndexIs
<1> HIDE DEF r, c, i, e
<1>6. r.err = Failure(c, a) /\ (r.err = "none" => r.ret = Answer(c, a)) /\ r.arr = Edited(c, a)
  BY <1>1, <1>2, <1>3, <1>5 DEF Ok, Err
<1> QED BY <1>1, <1>5, <1>6 DEF Answers, Meets, r, c

\* At the end.
LEMMA AppendAnswers ==
    ASSUME NEW a \in Arrays, NEW x, x[1] \in Items
    PROVE  Answers("append", x, a)
<1> DEFINE c == [op |-> "append", args |-> x]
           v == x[1]
<1>1. Perform("append", a, x) = append(a, v)
  BY DEF Perform
<1>2. Failure(c, a) = "none" /\ Answer(c, a) = None
  BY DEF Failure, Answer
<1>3. Edited(c, a) = Append(a, v)
  BY <1>2 DEF Edited
<1>4. v \in Items
  OBVIOUS
<1> HIDE DEF c, v
<1>5. append(a, v) = Ok(Append(a, v), None) /\ append(a, v).arr \in Arrays
  BY <1>4, AppendIs
<1> DEFINE e == Append(a, v)
<1> HIDE DEF e
<1>6. append(a, v) = Ok(e, None) /\ append(a, v).arr \in Arrays /\ Edited(c, a) = e
  BY <1>3, <1>5 DEF e
<1>7. append(a, v).arr = e /\ append(a, v).err = "none" /\ append(a, v).ret = None
  BY <1>6 DEF Ok
<1> QED BY <1>1, <1>2, <1>6, <1>7 DEF Answers, Meets, c

LEMMA ExtendAnswers ==
    ASSUME NEW a \in Arrays, NEW x, OperandItems(x[1], a) \in Arrays
    PROVE  Answers("extend", x, a)
<1> DEFINE c == [op |-> "extend", args |-> x]
           v == x[1]
           s == OperandItems(v, a)
<1>1. Perform("extend", a, x) = extend(a, v)
  BY DEF Perform
<1>2. Failure(c, a) = "none" /\ Answer(c, a) = None
  BY DEF Failure, Answer
<1>3. Edited(c, a) = a \o s
  BY <1>2 DEF Edited
<1>4. s \in Arrays /\ s = OperandItems(v, a)
  OBVIOUS
<1> HIDE DEF c, v, s
<1>5. extend(a, v) = Ok(a \o s, None) /\ a \o s \in Arrays
  BY <1>4, ExtendAll
<1> DEFINE e == a \o s
<1> HIDE DEF e
<1>6. extend(a, v) = Ok(e, None) /\ e \in Arrays /\ Edited(c, a) = e
  BY <1>3, <1>5 DEF e
<1> QED BY <1>1, <1>2, <1>6 DEF Answers, Meets, Ok, c

LEMMA ConcatAnswers ==
    ASSUME NEW a \in Arrays, NEW x, OperandItems(x[1], a) \in Arrays
    PROVE  Answers("concat", x, a)
<1> DEFINE c == [op |-> "concat", args |-> x]
           v == x[1]
           s == OperandItems(v, a)
           r == Perform("concat", a, x)
<1>1. r = IF v.kind = "tuple" THEN Err(a, "TypeError")
          ELSE IF s = <<>> /\ a # <<>> THEN OkSelf(a) ELSE Ok(a, a \o s)
  BY DEF Perform, concat
<1>2. /\ Failure(c, a) = IF v.kind = "tuple" THEN "TypeError" ELSE "none"
      /\ Edited(c, a) = a /\ Answer(c, a) = a \o s
  BY DEF Failure, Edited, Answer
<1>3. Exempt("concat", x, a) <=> s = <<>>
  BY DEF Exempt
<1> HIDE DEF r, c, v, s
<1>4. r.arr = a
  BY <1>1 DEF Ok, OkSelf, Err
<1>5. s # <<>> => r.fresh /\ r.err = Failure(c, a) /\ (r.err = "none" => r.ret = Answer(c, a))
  BY <1>1, <1>2 DEF Ok, Err
<1> QED BY <1>2, <1>3, <1>4, <1>5 DEF Answers, Meets, r, c

LEMMA IaddAnswers ==
    ASSUME NEW a \in Arrays, NEW x, OperandItems(x[1], a) \in Arrays
    PROVE  Answers("iadd", x, a)
<1> DEFINE c == [op |-> "iadd", args |-> x]
           v == x[1]
           s == OperandItems(v, a)
           t == SubSeq(s, 1, PySize(v))
           r == Perform("iadd", a, x)
<1>0. Len(s) \in Nat /\ s \in Arrays
  BY ElementFacts
<1>1. r = OkSelf(a \o t)
  BY DEF Perform, inplace_concat
<1>2. Failure(c, a) = "none"
  BY DEF Failure
<1>3. Edited(c, a) = a \o s
  BY <1>2 DEF Edited
<1>4. Answer(c, a) = a \o s
  BY <1>3 DEF Answer
<1>5. Exempt("iadd", x, a) <=> IsProxy(v)
  BY DEF Exempt
<1>6. ~IsProxy(v) => PySize(v) = Len(s)
  BY DEF PySize, OperandItems, IsProxy
<1>7. IsProxy(v) => PySize(v) = 0
  BY DEF PySize
<1> HIDE DEF v, s
<1>8. ~IsProxy(v) => t = s
  <2> SUFFICES ASSUME ~IsProxy(v) PROVE t = s
    OBVIOUS
  <2>1. t = SubSeq(s, 1, Len(s))
    BY <1>6
  <2>2. SubSeq(s, 1, Len(s)) \in Arrays /\ Len(SubSeq(s, 1, Len(s))) = Len(s)
        /\ \A i \in 1..Len(s) : SubSeq(s, 1, Len(s))[i] = s[i]
    BY <1>0, SubSeqProperties DEF Arrays
  <2> HIDE DEF t
  <2> QED BY <1>0, <2>1, <2>2, SeqEqual DEF Arrays
<1>9. t \in Arrays
  <2>1. CASE IsProxy(v)
    <3>1. t = SubSeq(s, 1, 0)
      BY <1>7, <2>1
    <3>2. SubSeq(s, 1, 0) \in Arrays
      BY <1>0, SubSeqProperties DEF Arrays
    <3> HIDE DEF t
    <3> QED BY <3>1, <3>2
  <2>2. CASE ~IsProxy(v)
    <3> HIDE DEF t
    <3> QED BY <1>0, <1>8, <2>2
  <2> QED BY <2>1, <2>2
<1> HIDE DEF t
<1> DEFINE e == a \o t
<1>10. e \in Arrays
  BY <1>9, JoinFacts
<1>11. ~IsProxy(v) => Edited(c, a) = e /\ Answer(c, a) = e
  BY <1>3, <1>4, <1>8
<1> HIDE DEF e, r, c
<1>12. r.arr = e /\ r.ret = e /\ r.err = "none"
  BY <1>1 DEF OkSelf, Ok, e
<1> QED BY <1>2, <1>5, <1>10, <1>11, <1>12 DEF Answers, Meets, r, c

LEMMA RepeatAnswers ==
    ASSUME NEW a \in Arrays, NEW x, x[1] \in Int
    PROVE  Answers("repeat", x, a) /\ Answers("imul", x, a)
<1> DEFINE c == [op |-> "repeat", args |-> x]
           d == [op |-> "imul", args |-> x]
           n == x[1]
           t == Times(a, n)
<1>1. Perform("repeat", a, x) = repeat(a, n) /\ Perform("imul", a, x) = inplace_repeat(a, n)
  BY DEF Perform
<1>2. Failure(c, a) = "none" /\ Failure(d, a) = "none" /\ Answer(c, a) = t
  BY DEF Failure, Answer
<1>3. Edited(c, a) = a /\ Edited(d, a) = t
  BY <1>2 DEF Edited
<1>4. Answer(d, a) = t
  BY <1>3 DEF Answer
<1>5. n \in Int
  OBVIOUS
<1> HIDE DEF n, c, d
<1>6. repeat(a, n) = Ok(a, t) /\ inplace_repeat(a, n) = OkSelf(t) /\ t \in Arrays
  BY <1>5, RepeatIs, InPlaceRepeat
<1> HIDE DEF t
<1>7. Answers("repeat", x, a)
  BY <1>1, <1>2, <1>3, <1>6 DEF Answers, Meets, Ok, c
<1>8. Answers("imul", x, a)
  BY <1>1, <1>2, <1>3, <1>4, <1>6 DEF Answers, Meets, Ok, OkSelf, d
<1> QED BY <1>7, <1>8

LEMMA InsertAnswers ==
    ASSUME NEW a \in Arrays, NEW x, x[1] \in Int, x[2] \in Items
    PROVE  Answers("insert", x, a)
<1> DEFINE c == [op |-> "insert", args |-> x]
           i == x[1]
           s == <<x[2]>>
           n == Len(a)
           at == Least(Most(FromEnd(i, a), 0), n)
           to == Max({0, Min({n, At(i, a)})})
           e == SubSeq(a, 1, at) \o s \o SubSeq(a, at + 0 + 1, n)
           f == SubSeq(a, 1, to) \o s \o SubSeq(a, to + 1, n)
<1>0. n \in Nat
  BY ElementFacts
<1>1. Perform("insert", a, x) = Ok(e, None)
  BY DEF Perform, insert, JSSplice
<1>2. Failure(c, a) = "none" /\ Answer(c, a) = None
  BY DEF Failure, Answer
<1>3. Edited(c, a) = f
  BY <1>2 DEF Edited
<1>4. i \in Int
  OBVIOUS
<1>5. s \in Arrays
  <2> DEFINE v == x[2]
  <2>1. v \in Items
    OBVIOUS
  <2> HIDE DEF v
  <2>2. <<v>> \in Seq(Items)
    BY <2>1
  <2> QED BY <2>2 DEF Arrays, v
<1> HIDE DEF i, s
<1>6. at = to /\ at \in 0..n /\ at \in Int
  <2>1. FromEnd(i, a) = At(i, a) /\ At(i, a) \in Int
    BY <1>4, PlaceFacts
  <2> DEFINE p == At(i, a)
             o == 0
  <2> HIDE DEF p, n, o
  <2>2. p \in Int /\ n \in Int /\ o \in Int /\ Least(n, p) \in Int
    BY <1>0, <2>1 DEF p, Least, o
  <2>3. Min({n, p}) = Least(n, p) /\ Max({o, Least(n, p)}) = Most(o, Least(n, p))
    BY <2>2, TwoFacts
  <2>4. to = Most(0, Least(n, p))
    BY <2>3 DEF o, p
  <2>5. at = Least(Most(p, 0), n)
    BY <2>1 DEF p
  <2> QED BY <1>0, <2>2, <2>4, <2>5 DEF Least, Most
<1>7. at + 0 + 1 = at + 1
  BY <1>6
<1>8. e = f /\ e = SubSeq(a, 1, at) \o s \o SubSeq(a, at + 1, n)
  BY <1>6, <1>7
<1> HIDE DEF e, f, at, to
<1>9. e \in Arrays
  <2>1. 0 <= at /\ at <= at /\ at <= Len(a)
    BY <1>0, <1>6
  <2>2. e = SubSeq(a, 1, at) \o s \o SubSeq(a, at + 1, Len(a))
    BY <1>8
  <2>3. Spliced(e, a, s, at, at)
    BY <1>5, <1>6, <2>1, <2>2, SpliceFacts
  <2> QED BY <2>3 DEF Spliced
<1> HIDE DEF c
<1>10. Edited(c, a) = e
  BY <1>3, <1>8
<1>11. Perform("insert", a, x).arr = e /\ Perform("insert", a, x).err = "none"
       /\ Perform("insert", a, x).ret = None
  BY <1>1 DEF Ok
<1> QED BY <1>2, <1>9, <1>10, <1>11 DEF Answers, Meets, c

\* One element goes.
LEMMA WithoutOne ==
    ASSUME NEW a \in Arrays, NEW p \in Int, p \in Spots(a)
    PROVE  JSSplice(a, p, 1, <<>>) = Without(a, {p}) /\ Without(a, {p}) \in Arrays
<1> DEFINE q == p + 1
           n == Len(a)
           P == {p}
           e == SubSeq(a, 1, p) \o <<>> \o SubSeq(a, q + 1, n)
<1>1. n \in Nat
  BY ElementFacts
<1>2. q \in Int /\ 0 <= p /\ p <= q /\ q <= n
  BY <1>1 DEF Spots
<1>3. \A x : x \in P <=> x \in Int /\ p <= x /\ x < q
  OBVIOUS
<1>4. JSSplice(a, p, 1, <<>>) = e
  BY DEF JSSplice
<1> HIDE DEF P, q
<1>5. e \in Arrays /\ Without(a, P) = e
  BY <1>2, <1>3, WithoutRun DEF n
<1> HIDE DEF e
<1>6. Without(a, P) \in Arrays /\ JSSplice(a, p, 1, <<>>) = Without(a, P)
  BY <1>4, <1>5
<1> QED BY <1>6 DEF P

LEMMA PopAnswers ==
    ASSUME NEW a \in Arrays, NEW x, x[1] \in Int
    PROVE  Answers("pop", x, a)
<1> DEFINE c == [op |-> "pop", args |-> x]
           i == x[1]
           p == At(i, a)
           r == Perform("pop", a, x)
           w == Without(a, {p})
<1>1. r = IF InRange(FromEnd(i, a), a) THEN Ok(JSSplice(a, FromEnd(i, a), 1, <<>>), GetElement(a, FromEnd(i, a)))
          ELSE Err(a, "IndexError")
  BY DEF Perform, pop
<1>2. /\ Failure(c, a) = IF ~Has(i, a) THEN "IndexError" ELSE "none"
      /\ Answer(c, a) = a[p + 1]
  BY DEF Failure, Answer
<1>3. Failure(c, a) # "none" => Edited(c, a) = a
  BY DEF Edited
<1>4. Failure(c, a) = "none" => Edited(c, a) = w
  BY DEF Edited
<1>5. i \in Int
  OBVIOUS
<1> HIDE DEF r, c, i
<1>6. /\ FromEnd(i, a) = p /\ p \in Int
      /\ InRange(FromEnd(i, a), a) <=> Has(i, a)
      /\ Has(i, a) => p \in Spots(a)
      /\ Has(i, a) => GetElement(a, p) = a[p + 1]
  BY <1>5, PlaceFacts
<1> HIDE DEF p
<1>7. CASE Has(i, a)
  <2>1. JSSplice(a, p, 1, <<>>) = w /\ w \in Arrays
    BY <1>6, <1>7, WithoutOne
  <2>2. r = Ok(w, a[p + 1])
    BY <1>1, <1>6, <1>7, <2>1
  <2>3. Failure(c, a) = "none"
    BY <1>2, <1>7
  <2>4. Edited(c, a) = w
    BY <1>4, <2>3
  <2> HIDE DEF w
  <2>5. r.arr = w /\ r.err = "none" /\ r.ret = a[p + 1]
    BY <2>2 DEF Ok
  <2> QED BY <1>2, <2>1, <2>3, <2>4, <2>5 DEF Answers, Meets, r, c
<1>8. CASE ~Has(i, a)
  <2>1. r.arr = a /\ r.err = "IndexError"
    BY <1>1, <1>6, <1>8 DEF Err
  <2>2. Failure(c, a) = "IndexError"
    BY <1>2, <1>8
  <2> QED BY <1>3, <2>1, <2>2 DEF Answers, Meets, r, c
<1> QED BY <1>7, <1>8

LEMMA RemoveAnswers ==
    ASSUME NEW a \in Arrays, NEW x
    PROVE  Answers("remove", x, a)
<1> DEFINE c == [op |-> "remove", args |-> x]
           v == x[1]
           r == Perform("remove", a, x)
           W == Where(a, v)
           U == {k \in DOMAIN a : a[k] = v}
           p == Min(W)
           w == Without(a, {p})
<1>1. r = IF U = {} THEN Err(a, "ValueError") ELSE Ok(JSSplice(a, Min(U) - 1, 1, <<>>), None)
  BY DEF Perform, remove
<1>2. /\ Failure(c, a) = IF W = {} THEN "ValueError" ELSE "none"
      /\ Answer(c, a) = None
  BY DEF Failure, Answer
<1>3. Failure(c, a) # "none" => Edited(c, a) = a
  BY DEF Edited
<1>4. Failure(c, a) = "none" => Edited(c, a) = w
  BY DEF Edited
<1> HIDE DEF r, c, v
<1>5. /\ \A i : i \in W <=> i \in Spots(a) /\ a[i + 1] = v
      /\ \A i : i \in U <=> i \in 1..Len(a) /\ a[i] = v
      /\ W \subseteq Nat
      /\ W = {} <=> U = {}
  BY WhereFacts
<1>0. Len(a) \in Nat
  BY ElementFacts
<1> HIDE DEF W, U
<1>6. CASE W # {}
  <2>1. p \in W /\ \A y \in W : p <= y
    BY <1>5, <1>6, MinFacts
  <2>2. U \subseteq Nat /\ U # {}
    <3>1. U # {}
      BY <1>5, <1>6, Zenon
    <3>2. \A i \in U : i \in Nat
      BY <1>0, <1>5
    <3> QED BY <3>1, <3>2
  <2> DEFINE u == Min(U)
  <2>3. u \in U /\ \A y \in U : u <= y
    BY <2>2, MinFacts
  <2> HIDE DEF u, p
  <2>4. u \in 1..Len(a) /\ a[u] = v /\ p \in Spots(a) /\ a[p + 1] = v /\ p \in Int /\ u \in Int
    BY <1>0, <1>5, <2>1, <2>3 DEF Spots
  <2>5. p + 1 \in U
    BY <1>0, <1>5, <2>4 DEF Spots
  <2>6. u - 1 \in W
    <3>1. u - 1 \in Spots(a) /\ (u - 1) + 1 = u
      BY <1>0, <2>4 DEF Spots
    <3> QED BY <1>5, <2>4, <3>1
  <2>7. u - 1 = p
    <3>1. u <= p + 1 /\ p <= u - 1
      BY <2>1, <2>3, <2>5, <2>6
    <3> QED BY <2>4, <3>1
  <2>8. JSSplice(a, p, 1, <<>>) = w /\ w \in Arrays
    BY <2>4, WithoutOne
  <2>9. r = Ok(w, None)
    <3>1. r = Ok(JSSplice(a, u - 1, 1, <<>>), None)
      BY <1>1, <2>2 DEF u
    <3> QED BY <2>7, <2>8, <3>1
  <2>10. Failure(c, a) = "none"
    BY <1>2, <1>6
  <2>11. Edited(c, a) = w
    BY <1>4, <2>10
  <2> HIDE DEF w
  <2>12. r.arr = w /\ r.err = "none" /\ r.ret = None
    BY <2>9 DEF Ok
  <2> QED BY <1>2, <2>8, <2>10, <2>11, <2>12 DEF Answers, Meets, r, c
<1>7. CASE W = {}
  <2>1. r.arr = a /\ r.err = "ValueError"
    BY <1>1, <1>5, <1>7 DEF Err
  <2>2. Failure(c, a) = "ValueError"
    BY <1>2, <1>7
  <2> QED BY <1>3, <2>1, <2>2 DEF Answers, Meets, r, c
<1> QED BY <1>6, <1>7

LEMMA IndexAnswers ==
    ASSUME NEW a \in Arrays, NEW x, x[2] \in Int, x[3] \in Int \/ x[3] = Missing
    PROVE  Answers("index", x, a)
<1> DEFINE c == [op |-> "index", args |-> x]
           v == x[1]
           from == x[2]
           to == x[3]
           n == Len(a)
           r == Perform("index", a, x)
           start == Most(FromEnd(from, a), 0)
           stop == IF to = Missing THEN n ELSE Most(FromEnd(to, a), 0)
           U == {i \in start..(Least(stop, n) - 1) : GetElement(a, i) = v}
           Z == Range0(from, to, a)
           W == Where(a, v) \cap Z
<1>1. r = IF U = {} THEN Err(a, "ValueError") ELSE Ok(a, Min(U))
  BY DEF Perform, index
<1>2. /\ Failure(c, a) = IF W = {} THEN "ValueError" ELSE "none"
      /\ Answer(c, a) = Min(W)
  BY DEF Failure, Answer
<1>3. Edited(c, a) = a
  BY DEF Edited
<1>4. from \in Int /\ (to \in Int \/ to = Missing)
  OBVIOUS
<1> HIDE DEF r, c, v, from, to
<1>0. n \in Nat
  BY ElementFacts
<1>5. FromEnd(from, a) = At(from, a) /\ At(from, a) \in Int
  BY <1>4, PlaceFacts
<1>6. to # Missing => FromEnd(to, a) = At(to, a) /\ At(to, a) \in Int
  BY <1>4, PlaceFacts
<1>7. start = Max({0, At(from, a)}) /\ start \in Nat
  <2> DEFINE o == 0
             f == At(from, a)
  <2>1. o \in Int /\ f \in Int
    BY <1>5
  <2> HIDE DEF o, f
  <2>2. Max({o, f}) = Most(o, f)
    BY <2>1, TwoFacts
  <2>3. Max({0, At(from, a)}) = Most(0, f)
    BY <2>2 DEF o, f
  <2>4. start = Most(f, 0)
    BY <1>5 DEF f
  <2> QED BY <2>1, <2>3, <2>4 DEF Most
<1>8. \A i : i \in Z <=> i \in Spots(a) /\ start <= i /\ (to = Missing \/ i < At(to, a))
  BY <1>7 DEF Range0, Spots
<1>9. \A i : i \in Where(a, v) <=> i \in Spots(a) /\ a[i + 1] = v
  BY WhereFacts
<1>10. \A i : i \in U <=> i \in start..(Least(stop, n) - 1) /\ GetElement(a, i) = v
  OBVIOUS
<1>11. stop \in Nat /\ Least(stop, n) \in Int /\ Least(stop, n) <= n
  BY <1>0, <1>4, <1>6 DEF Most, Least
<1>12. \A i \in Spots(a) : start <= i => (i \in start..(Least(stop, n) - 1) <=> (to = Missing \/ i < At(to, a)))
  <2> SUFFICES ASSUME NEW i \in Spots(a), start <= i
               PROVE  i \in start..(Least(stop, n) - 1) <=> (to = Missing \/ i < At(to, a))
    OBVIOUS
  <2>1. i \in 0..(n - 1)
    BY DEF Spots
  <2>2. CASE to = Missing
    <3>1. stop = n
      BY <2>2
    <3> QED BY <1>0, <1>7, <2>1, <2>2, <3>1 DEF Least
  <2>3. CASE to # Missing
    <3>1. stop = Most(At(to, a), 0) /\ At(to, a) \in Int
      BY <1>6, <2>3
    <3> HIDE DEF stop
    <3> QED BY <1>0, <1>7, <2>1, <2>3, <3>1 DEF Least, Most
  <2> QED BY <2>2, <2>3
<1> HIDE DEF start, stop, n, U, Z
<1>13. \A i : i \in W <=> i \in Where(a, v) /\ i \in Z
  OBVIOUS
<1> HIDE DEF W
<1>14. ASSUME NEW i PROVE i \in W <=> i \in U
  <2>1. i \in W <=> i \in Spots(a) /\ a[i + 1] = v /\ start <= i /\ (to = Missing \/ i < At(to, a))
    BY <1>8, <1>9, <1>13
  <2>2. i \in Spots(a) => GetElement(a, i) = a[i + 1]
    BY ElementFacts
  <2>3. i \in start..(Least(stop, n) - 1) => i \in Spots(a) /\ start <= i
    BY <1>0, <1>7, <1>11 DEF Spots, n
  <2> QED BY <1>10, <1>12, <2>1, <2>2, <2>3
<1>15. W = U
  BY <1>14
<1>16. r.arr = a /\ r.err = Failure(c, a) /\ (r.err = "none" => r.ret = Answer(c, a))
  BY <1>1, <1>2, <1>15 DEF Ok, Err
<1> QED BY <1>3, <1>16 DEF Answers, Meets, r, c

\* Even where the elements run over one another, they stay elements.
LEMMA MovedKeeps ==
    ASSUME NEW a \in Arrays, NEW p \in Int, NEW q \in Int, NEW d \in Int,
           p + d >= 0, q + d <= Len(a)
    PROVE  Moved(a, p, q, d) \in Arrays /\ Len(Moved(a, p, q, d)) = Len(a)
<1> DEFINE s == Upto(p, q)
           n == Len(s)
           E == {b \in Arrays : Len(b) = Len(a)}
           Body(b, i) == SetElement(b, i + d, GetElement(b, i))
           after[k \in 0..n] == IF k = 0 THEN a ELSE Body(after[k - 1], s[k])
           D == [k \in 0..n |-> E]
           G == [k \in 1..n |-> [b \in D[k - 1] |-> Body(b, s[k])]]
<1>1. Moved(a, p, q, d) = after[n]
  BY DEF Moved, Walk
<1>2. n \in Nat /\ \A k \in 1..n : s[k] \in Int /\ s[k] + d >= 0 /\ s[k] + d < Len(a)
  <2>0. Len(a) \in Nat
    BY ElementFacts
  <2>1. CASE p <= q
    <3>1. n = q - p /\ \A k \in 1..(q - p) : s[k] = p + k - 1
      BY <2>1, UptoFacts
    <3> HIDE DEF s, n
    <3> QED BY <2>0, <2>1, <3>1
  <2>2. CASE ~(p <= q)
    <3>1. n = 0
      BY <2>2, UptoNone
    <3> HIDE DEF n
    <3> QED BY <3>1
  <2> QED BY <2>1, <2>2
<1>3. a \in E
  OBVIOUS
<1> HIDE DEF s
<1>4. ASSUME NEW k \in 1..n, NEW b \in E PROVE Body(b, s[k]) \in E
  <2> DEFINE i == s[k] + d
             v == GetElement(b, s[k])
  <2>1. b \in Arrays /\ Len(b) = Len(a) /\ Len(a) \in Nat
    BY ElementFacts
  <2>2. i \in Spots(b) /\ v \in Items
    <3>1. i \in Spots(b)
      BY <1>2, <2>1 DEF Spots
    <3>2. s[k] \in Int
      BY <1>2
    <3> QED BY <2>1, <3>1, <3>2, ElementFacts
  <2> HIDE DEF i, v
  <2>3. SetElement(b, i, v) \in Arrays /\ Len(SetElement(b, i, v)) = Len(b)
    BY <2>1, <2>2, SetFacts
  <2>4. Body(b, s[k]) = SetElement(b, i, v)
    BY DEF i, v
  <2> QED BY <2>1, <2>3, <2>4
<1>5. \A k \in 1..n : \A b \in D[k - 1] : G[k][b] = Body(b, s[k])
  OBVIOUS
<1>6. (\A k \in 0..n : D[k] = E) /\ \A k \in 1..n : k - 1 \in 0..n /\ k \in 0..n
  BY <1>2
<1> HIDE DEF E, D, G, Body, n
<1>7. Leads(n, D, G)
  BY <1>4, <1>5, <1>6 DEF Leads
<1>8. a \in D[0] /\ 0 \in 0..n /\ n \in 0..n
  BY <1>2, <1>3, <1>6
<1>9. \E f : f = [k \in 0..n |-> IF k = 0 THEN a ELSE Body(f[k - 1], s[k])]
  <2> HIDE DEF after
  <2>1. PICK f : Path(f, n, a, G) /\ Stays(f, n, D)
    BY <1>2, <1>7, <1>8, LoopExists
  <2>2. \A k \in 1..n : G[k][f[k - 1]] = Body(f[k - 1], s[k])
    BY <1>5, <1>6, <2>1 DEF Stays
  <2>3. \A k \in 0..n : k # 0 => k \in 1..n
    BY <1>2
  <2>4. f = [k \in 0..n |-> IF k = 0 THEN a ELSE Body(f[k - 1], s[k])]
    BY <2>1, <2>2, <2>3 DEF Path
  <2> QED BY <2>4
<1>10. after = [k \in 0..n |-> IF k = 0 THEN a ELSE Body(after[k - 1], s[k])]
  BY <1>9
<1> HIDE DEF after
<1>11. after[0] = a /\ \A k \in 1..n : after[k] = Body(after[k - 1], s[k])
  <2>1. 0 \in 0..n /\ \A k \in 1..n : k \in 0..n /\ k # 0
    BY <1>2
  <2> QED BY <1>10, <2>1
<1>12. \A k \in 1..n : after[k - 1] \in D[k - 1] => after[k] \in D[k]
  BY <1>4, <1>6, <1>11
<1>13. after[0] \in D[0]
  BY <1>8, <1>11
<1>14. \A k \in 0..n : after[k] \in D[k]
  BY <1>2, <1>12, <1>13, LoopKeeps
<1>15. after[n] \in E
  BY <1>6, <1>8, <1>14
<1> QED BY <1>1, <1>15 DEF E

LEMMA AssSliceKeeps ==
    ASSUME NEW a \in Arrays, NEW low \in 0..Len(a), NEW high \in 0..Len(a), NEW s \in Arrays
    PROVE  list_ass_slice(a, low, high, s) \in Arrays
<1> DEFINE n == Len(a)
           m == Len(s)
           q == Most(high, low)
           d == m - (q - low)
           long == IF d > 0 THEN SetArrayLength(a, n + d) ELSE a
           moved == Moved(long, q, n, d)
           sized == IF d < 0 THEN SetArrayLength(moved, n + d) ELSE moved
           b == Stored(sized, low, 1, s)
<1>1. n \in Nat /\ m \in Nat /\ low \in Nat /\ low <= q /\ q <= n /\ q \in Nat
  BY ElementFacts DEF Most
<1>2. list_ass_slice(a, low, high, s) = b
  <2>1. Least(Most(low, 0), n) = low
    BY <1>1 DEF Least, Most
  <2>2. Least(Most(high, low), n) = q
    BY <1>1 DEF Least
  <2> QED BY <2>1, <2>2 DEF list_ass_slice
<1> HIDE DEF q
<1>3. d \in Int /\ low + m = q + d /\ q + d >= 0 /\ n + d \in Nat
  BY <1>1
<1> HIDE DEF d, n, m
<1>4. long \in Arrays /\ n + d <= Len(long) /\ (d >= 0 => Len(long) = n + d)
  <2>1. CASE d > 0
    <3>1. long = SetArrayLength(a, n + d)
      BY <2>1
    <3> HIDE DEF long
    <3>2. long \in Arrays /\ Len(long) = n + d
      BY <1>3, <3>1, ResizeFacts
    <3> QED BY <1>3, <3>2
  <2>2. CASE ~(d > 0)
    <3>1. long = a
      BY <2>2
    <3> HIDE DEF long
    <3>2. n + d <= n /\ (d >= 0 => n = n + d)
      BY <1>1, <1>3, <2>2
    <3> QED BY <3>1, <3>2 DEF n
  <2> QED BY <2>1, <2>2
<1> HIDE DEF long
<1>5. moved \in Arrays /\ Len(moved) = Len(long)
  <2>1. q \in Int /\ n \in Int
    BY <1>1
  <2> QED BY <1>3, <1>4, <2>1, MovedKeeps
<1> HIDE DEF moved
<1>6. sized \in Arrays /\ Len(sized) = n + d
  <2>1. CASE d < 0
    <3>1. sized = SetArrayLength(moved, n + d)
      BY <2>1
    <3> HIDE DEF sized
    <3> QED BY <1>3, <1>5, <3>1, ResizeFacts
  <2>2. CASE ~(d < 0)
    <3>1. sized = moved /\ d >= 0
      BY <1>3, <2>2
    <3> HIDE DEF sized
    <3> QED BY <1>4, <1>5, <3>1
  <2> QED BY <2>1, <2>2
<1> HIDE DEF sized
<1>7. b \in Arrays
  <2>1. ASSUME NEW k \in 0..(m - 1) PROVE low + k * 1 \in Spots(sized)
    <3>1. k \in Nat /\ k * 1 = k /\ low + k < n + d /\ low + k \in Nat
      BY <1>1, <1>3
    <3> QED BY <1>1, <1>3, <1>6, <3>1 DEF Spots
  <2> DEFINE one == 1
  <2>2. low \in Int /\ one \in Int /\ one # 0 /\ \A k \in 0..(Len(s) - 1) : low + k * one \in Spots(sized)
    BY <1>1, <2>1 DEF m
  <2> HIDE DEF one
  <2>3. Fills(sized, Stored(sized, low, one, s), low, one, s, Len(s))
    BY <1>6, <2>2, StoredFacts
  <2> QED BY <2>3 DEF one, Fills
<1> HIDE DEF b
<1> QED BY <1>2, <1>7

\* Slices.
LEMMA GetSliceAnswers ==
    ASSUME NEW a \in Arrays, NEW x, x[1] \in Slices
    PROVE  Answers("getslice", x, a)
<1> DEFINE c == [op |-> "getslice", args |-> x]
           sl == x[1]
           v == Visited(sl, a)
           n == Count(sl, a)
           e == [k \in 1..n |-> a[v[k] + 1]]
<1>1. Perform("getslice", a, x) = GetSlice(a, sl)
  BY DEF Perform
<1>2. Failure(c, a) = "none" /\ Edited(c, a) = a
  BY DEF Failure, Edited
<1>3. Answer(c, a) = [k \in DOMAIN v |-> a[v[k] + 1]]
  BY DEF Answer
<1>4. sl \in Slices
  OBVIOUS
<1> HIDE DEF sl, c
<1>5. v = [k \in 1..n |-> Begin(sl, a) + (k - 1) * sl.step]
  BY <1>4, VisitedIs
<1>6. DOMAIN v = 1..n
  BY <1>5
<1>7. GetSlice(a, sl) = Ok(a, e)
  BY <1>4, GetSliceIs
<1>8. Answer(c, a) = e
  BY <1>3, <1>6
<1> HIDE DEF e
<1> QED BY <1>1, <1>2, <1>7, <1>8 DEF Answers, Meets, Ok, c

LEMMA PlainDel ==
    ASSUME NEW a \in Arrays, NEW sl \in Slices, sl.step = 1
    PROVE  DelSlice(a, sl) = Ok(Without(a, Places(sl, a)), None) /\ Without(a, Places(sl, a)) \in Arrays
<1> DEFINE s == <<>>
           P == Places(sl, a)
           p == Gap(sl, a)
           n == Cardinality(P)
           q == p + n
           b == list_ass_slice(a, Begin(sl, a), Finish(sl, a), s)
           e == SubSeq(a, 1, p) \o s \o SubSeq(a, q + 1, Len(a))
<1>1. DelSlice(a, sl) = Ok(b, None)
  BY DEF DelSlice, Begin, Finish
<1>2. Begin(sl, a) \in 0..Len(a) /\ Begin(sl, a) = p /\ Len(a) \in Nat
  BY PlainSlice, ElementFacts
<1>3. n = Count(sl, a) /\ Count(sl, a) \in Nat
  BY VisitedIs, PlacesFacts
<1>4. s \in Arrays /\ Len(s) = 0
  BY DEF Arrays
<1> HIDE DEF s, P, p, n
<1>5. p \in Int /\ n \in Int /\ Room(a, s, p, n)
  BY <1>2, <1>3, <1>4 DEF Room
<1>6. 0 <= p /\ 0 <= n /\ q <= Len(a) /\ (\A x : x \in P <=> x \in Int /\ p <= x /\ x < q) /\ b = e
  BY <1>4, <1>5, PlainEdit DEF P, p, n
<1>7. q \in Int /\ p <= q
  BY <1>5, <1>6
<1> HIDE DEF b, q
<1>8. e \in Arrays /\ Without(a, P) = e
  BY <1>5, <1>6, <1>7, WithoutRun DEF s
<1> HIDE DEF e
<1> QED BY <1>1, <1>6, <1>8 DEF P

LEMMA DelSliceAnswers ==
    ASSUME NEW a \in Arrays, NEW x, x[1] \in Slices
    PROVE  Answers("delslice", x, a)
<1> DEFINE c == [op |-> "delslice", args |-> x]
           sl == x[1]
           e == Without(a, Places(sl, a))
<1>1. Perform("delslice", a, x) = DelSlice(a, sl)
  BY DEF Perform
<1>2. Failure(c, a) = "none" /\ Answer(c, a) = None
  BY DEF Failure, Answer
<1>3. Edited(c, a) = e
  BY <1>2 DEF Edited
<1>4. sl \in Slices
  OBVIOUS
<1> HIDE DEF sl, c
<1>5. DelSlice(a, sl) = Ok(e, None) /\ e \in Arrays
  BY <1>4, PlainDel, StridedDel
<1> HIDE DEF e
<1> QED BY <1>1, <1>2, <1>3, <1>5 DEF Answers, Meets, Ok, c

LEMMA PlainSetIs ==
    ASSUME NEW a \in Arrays, NEW sl \in Slices, sl.step = 1, NEW s \in Arrays
    PROVE  LET p == Gap(sl, a)
               n == Cardinality(Places(sl, a))
               b == list_ass_slice(a, Begin(sl, a), Finish(sl, a), s)
           IN  /\ p \in Int /\ n \in Int /\ b \in Arrays
               /\ (Len(s) - n <= 0 \/ (Len(a) - p) - n <= Len(s) - n) =>
                     b = SubSeq(a, 1, p) \o s \o SubSeq(a, p + n + 1, Len(a))
<1> DEFINE p == Gap(sl, a)
           n == Cardinality(Places(sl, a))
           b == list_ass_slice(a, Begin(sl, a), Finish(sl, a), s)
<1>1. Begin(sl, a) \in 0..Len(a) /\ Finish(sl, a) \in 0..Len(a) /\ Begin(sl, a) = p /\ Len(a) \in Nat
  BY PlainSlice, ElementFacts
<1>2. n = Count(sl, a) /\ Count(sl, a) \in Nat
  BY VisitedIs, PlacesFacts
<1>3. b \in Arrays
  BY <1>1, AssSliceKeeps
<1> HIDE DEF p, n
<1>4. p \in Int /\ n \in Int
  BY <1>1, <1>2
<1>5. ASSUME Len(s) - n <= 0 \/ (Len(a) - p) - n <= Len(s) - n
      PROVE  b = SubSeq(a, 1, p) \o s \o SubSeq(a, p + n + 1, Len(a))
  <2>1. p = Gap(sl, a) /\ n = Cardinality(Places(sl, a))
    BY DEF p, n
  <2>2. Room(a, s, p, n)
    BY <1>5 DEF Room
  <2>3. list_ass_slice(a, Begin(sl, a), Finish(sl, a), s)
           = SubSeq(a, 1, p) \o s \o SubSeq(a, p + n + 1, Len(a))
    <3> HIDE DEF b
    <3> QED BY <1>4, <2>1, <2>2, PlainEdit, ZenonT(60)
  <2> QED BY <2>3
<1> HIDE DEF b
<1> QED BY <1>3, <1>4, <1>5 DEF p, n, b

LEMMA PlainSet ==
    ASSUME NEW a \in Arrays, NEW x, x[1] \in Slices, x[1].step = 1, OperandItems(x[2], a) \in Arrays
    PROVE  Answers("setslice", x, a)
<1> DEFINE c == [op |-> "setslice", args |-> x]
           sl == x[1]
           s == OperandItems(x[2], a)
           b == list_ass_slice(a, Begin(sl, a), Finish(sl, a), s)
           p == Gap(sl, a)
           n == Cardinality(Places(sl, a))
           e == SubSeq(a, 1, p) \o s \o SubSeq(a, p + n + 1, Len(a))
<1>1. Perform("setslice", a, x) = Ok(b, None)
  <2>1. Perform("setslice", a, x) = SetSlice(a, sl, x[2])
    BY DEF Perform
  <2> QED BY <2>1 DEF SetSlice, Begin, Finish
<1>2. Failure(c, a) = "none" /\ Answer(c, a) = None
  BY DEF Failure, Answer
<1>3. Edited(c, a) = e
  BY <1>2 DEF Edited
<1>4. sl \in Slices /\ sl.step = 1 /\ s \in Arrays
  OBVIOUS
<1>5. Exempt("setslice", x, a) <=> Len(s) - n > 0 /\ Len(a) - p - n > Len(s) - n
  BY DEF Exempt
<1> HIDE DEF sl, s, c
<1>8. b \in Arrays
      /\ ((Len(s) - n <= 0 \/ (Len(a) - p) - n <= Len(s) - n) => b = e)
  BY <1>4, PlainSetIs
<1>9. p \in Int /\ n \in Int /\ Len(s) \in Nat /\ Len(a) \in Nat
  BY <1>4, PlainSetIs, ElementFacts
<1>10. ~Exempt("setslice", x, a) => b = e
  <2> HIDE DEF p, n, b, e
  <2>1. ~Exempt("setslice", x, a) => Len(s) - n <= 0 \/ (Len(a) - p) - n <= Len(s) - n
    BY <1>5, <1>9
  <2> QED BY <1>8, <2>1
<1> HIDE DEF b, e
<1>11. Perform("setslice", a, x).arr = b /\ Perform("setslice", a, x).err = "none"
       /\ Perform("setslice", a, x).ret = None
  BY <1>1 DEF Ok
<1> QED BY <1>2, <1>3, <1>8, <1>10, <1>11 DEF Answers, Meets, c

LEMMA SteppedSet ==
    ASSUME NEW a \in Arrays, NEW x, x[1] \in Slices, x[1].step # 1,
           x[2].items \in Arrays, x[2].kind = "self" => x[2].items = <<>>
    PROVE  Answers("setslice", x, a)
<1> DEFINE c == [op |-> "setslice", args |-> x]
           sl == x[1]
           v == x[2]
           s == v.items
           n == Count(sl, a)
           w == Visited(sl, a)
           b == Stored(a, Begin(sl, a), sl.step, s)
           size == IF v.kind = "self" THEN 0 ELSE Len(s)
           r == Perform("setslice", a, x)
           g == OperandItems(v, a)
           e == [k \in DOMAIN a |-> IF \E q \in DOMAIN w : w[q] = k - 1
                                    THEN g[CHOOSE q \in DOMAIN w : w[q] = k - 1] ELSE a[k]]
<1>1. r = IF size # n THEN Err(a, "ValueError") ELSE Ok(b, None)
  <2>1. r = SetSlice(a, sl, v)
    BY DEF Perform
  <2>2. sl.step # 1
    OBVIOUS
  <2> HIDE DEF sl, v, r
  <2> QED BY <2>1, <2>2 DEF SetSlice, Begin, Count
<1>2. /\ Failure(c, a) = IF Len(g) # Cardinality(Places(sl, a)) THEN "ValueError" ELSE "none"
      /\ Answer(c, a) = None
  BY DEF Failure, Answer
<1>3. Failure(c, a) # "none" => Edited(c, a) = a
  BY DEF Edited
<1>4. Failure(c, a) = "none" => Edited(c, a) = e
  BY DEF Edited
<1>5. sl \in Slices /\ s \in Arrays /\ (v.kind = "self" => s = <<>>)
  OBVIOUS
<1>6. v.kind # "self" => g = s
  BY DEF OperandItems
<1>7. v.kind = "self" => Exempt("setslice", x, a)
  BY DEF Exempt
<1> HIDE DEF sl, v, c, r, g
<1>8. size = Len(s)
  <2>1. Len(<<>>) = 0
    OBVIOUS
  <2> HIDE DEF s
  <2> QED BY <1>5, <2>1
<1> HIDE DEF s, size
<1>9. Cardinality(Places(sl, a)) = n
  BY <1>5, VisitedIs
<1> HIDE DEF n
<1>10. CASE Len(s) # n
  <2>1. r.arr = a /\ r.err = "ValueError"
    BY <1>1, <1>8, <1>10 DEF Err
  <2>2. v.kind # "self" => Failure(c, a) = "ValueError"
    BY <1>2, <1>6, <1>9, <1>10
  <2> QED BY <1>3, <1>7, <2>1, <2>2 DEF Answers, Meets, r, c
<1>11. CASE Len(s) = n
  <2>1. r = Ok(b, None)
    BY <1>1, <1>8, <1>11
  <2>2. v.kind # "self" => Failure(c, a) = "none"
    BY <1>2, <1>6, <1>9, <1>11
  <2> DEFINE f == [k \in DOMAIN a |-> IF \E q \in DOMAIN w : w[q] = k - 1
                                      THEN s[CHOOSE q \in DOMAIN w : w[q] = k - 1] ELSE a[k]]
  <2>3. b \in Arrays /\ b = f
    <3>1. Len(s) = Count(sl, a)
      BY <1>11 DEF n
    <3>2. w = Visited(sl, a)
      OBVIOUS
    <3>3. w = Visited(sl, a) /\ sl \in Slices /\ s \in Arrays
      BY <1>5
    <3> HIDE DEF w
    <3> DEFINE h == Stored(a, Begin(sl, a), sl.step, s)
    <3>4. h \in Arrays
          /\ h = [k \in DOMAIN a |-> IF \E q \in DOMAIN w : w[q] = k - 1
                                      THEN s[CHOOSE q \in DOMAIN w : w[q] = k - 1] ELSE a[k]]
      <4> DEFINE F(z) == [k \in DOMAIN a |-> IF \E q \in DOMAIN z : z[q] = k - 1
                                             THEN s[CHOOSE q \in DOMAIN z : z[q] = k - 1] ELSE a[k]]
      <4>1. \A z : z = Visited(sl, a) => h \in Arrays /\ h = F(z)
        BY <3>1, <3>3, SteppedEdit
      <4>2. w = Visited(sl, a)
        BY <3>3
      <4> HIDE DEF h, F
      <4>3. h \in Arrays /\ h = F(w)
        BY <4>1, <4>2
      <4> QED BY <4>3 DEF F
    <3> QED BY <3>4
  <2>4. v.kind # "self" => e = f
    <3> HIDE DEF w
    <3> QED BY <1>6
  <2> HIDE DEF b, e, f
  <2>5. r.arr = b /\ r.err = "none" /\ r.ret = None
    BY <2>1 DEF Ok
  <2> QED BY <1>2, <1>4, <1>7, <2>2, <2>3, <2>4, <2>5 DEF Answers, Meets, r, c
<1> QED BY <1>10, <1>11

\* Comparison: the first place where two arrays differ.
LEMMA CompareAnswers ==
    ASSUME NEW a \in Arrays, NEW x, OperandItems(x[1], a) \in Arrays,
           x[1].kind \in {"list", "tuple", "proxy", "self"}, x[2] \in Orders \cup {"==", "!="}
    PROVE  Answers("compare", x, a)
<1> DEFINE c == [op |-> "compare", args |-> x]
           v == x[1]
           op == x[2]
           b == OperandItems(v, a)
           D == {i \in 1..Least(Len(a), Len(b)) : a[i] # b[i]}
           E == Differing(a, b)
           r == Perform("compare", a, x)
<1>0. Len(a) \in Nat /\ Len(b) \in Nat /\ DOMAIN a = 1..Len(a) /\ DOMAIN b = 1..Len(b)
  BY ElementFacts
<1>1. r = richcompare(a, v, op)
  BY DEF Perform
<1>2. /\ Failure(c, a) = IF v.kind = "tuple" THEN "NotImplemented"
                         ELSE IF op \in Orders /\ Unordered(a, b) THEN "TypeError" ELSE "none"
      /\ Answer(c, a) = Compare(op, a, b)
  BY DEF Failure, Answer
<1>3. Edited(c, a) = a
  BY DEF Edited
<1>4. Exempt("compare", x, a) <=> r.err = "crash"
  BY DEF Exempt
<1>5. /\ b \in Arrays /\ op \in {"<", "<=", ">", ">=", "==", "!="}
      /\ v.kind \in {"list", "tuple", "proxy", "self"} /\ (v.kind = "self" => b = a)
  BY DEF Orders, OperandItems
<1> HIDE DEF v, op, c
<1>6. D = E
  <2>1. \A i : i \in 1..Least(Len(a), Len(b)) <=> i \in DOMAIN a /\ i \in DOMAIN b
    BY <1>0 DEF Least
  <2>2. \A i : i \in D <=> i \in DOMAIN a /\ i \in DOMAIN b /\ a[i] # b[i]
    BY <2>1
  <2>3. \A i : i \in E <=> i \in DOMAIN a /\ i \in DOMAIN b /\ a[i] # b[i]
    BY DEF Differing
  <2> HIDE DEF D, E
  <2> QED BY <2>2, <2>3
<1>7. a = b <=> Len(a) = Len(b) /\ E = {}
  <2>1. ASSUME a = b PROVE Len(a) = Len(b) /\ E = {}
    BY <2>1 DEF Differing
  <2>2. ASSUME Len(a) = Len(b), E = {} PROVE a = b
    <3>1. \A i \in 1..Len(a) : a[i] = b[i]
      BY <1>0, <2>2 DEF Differing
    <3> QED BY <1>5, <2>2, <3>1, SeqEqual DEF Arrays
  <2> QED BY <2>1, <2>2
<1> HIDE DEF b
<1>9. r = CASE v.kind = "tuple" -> Err(a, "NotImplemented")
            [] v.kind = "self" /\ op \in {"==", "!="} -> Ok(a, op = "==")
            [] v.kind # "tuple" /\ Len(a) # Len(b) /\ op \in {"==", "!="} -> Ok(a, op = "!=")
            [] v.kind # "tuple" /\ E = {} -> Ok(a, Decide(op, Len(a), Len(b)))
            [] v.kind # "tuple" /\ E # {} /\ op \in {"==", "!="} -> Ok(a, op = "!=")
            [] OTHER -> IF IsProxy(v) THEN Err(a, "crash")
                        ELSE IF None \in {a[Min(E)], b[Min(E)]} THEN Err(a, "TypeError")
                        ELSE Ok(a, Decide(op, a[Min(E)], b[Min(E)]))
  <2>1. r = CASE v.kind = "tuple" -> Err(a, "NotImplemented")
            [] v.kind = "self" /\ op \in {"==", "!="} -> Ok(a, op = "==")
            [] v.kind # "tuple" /\ Len(a) # Len(b) /\ op \in {"==", "!="} -> Ok(a, op = "!=")
            [] v.kind # "tuple" /\ D = {} -> Ok(a, Decide(op, Len(a), Len(b)))
            [] v.kind # "tuple" /\ D # {} /\ op \in {"==", "!="} -> Ok(a, op = "!=")
            [] OTHER -> IF IsProxy(v) THEN Err(a, "crash")
                        ELSE IF None \in {a[Min(D)], b[Min(D)]} THEN Err(a, "TypeError")
                        ELSE Ok(a, Decide(op, a[Min(D)], b[Min(D)]))
    BY <1>1 DEF richcompare, b
  <2> HIDE DEF D, E
  <2> QED BY <1>6, <2>1
<1> HIDE DEF D, E, r
<1>10. CASE v.kind = "tuple"
  <2>1. r = Err(a, "NotImplemented")
    BY <1>9, <1>10
  <2>2. Failure(c, a) = "NotImplemented"
    BY <1>2, <1>10
  <2>3. r.arr = a /\ r.err = "NotImplemented"
    BY <2>1 DEF Err
  <2> QED BY <1>3, <2>2, <2>3 DEF Answers, Meets, r, c
<1>11. CASE v.kind # "tuple" /\ op \in {"==", "!="}
  <2> DEFINE z == Compare(op, a, b)
             yes == Ok(a, z)
  <2>1. a = b => z = (op = "==")
    BY <1>11 DEF Compare
  <2>2. a # b => z = (op = "!=")
    BY <1>11 DEF Compare
  <2>3. a = b <=> Len(a) = Len(b) /\ E = {}
    BY <1>7
  <2>4. v.kind = "self" => a = b
    BY <1>5
  <2>5. Decide(op, Len(a), Len(b)) = IF op = "==" THEN Len(a) = Len(b) ELSE Len(a) # Len(b)
    BY <1>11 DEF Decide
  <2> HIDE DEF z
  <2>6. r = yes
    <3>1. CASE a = b
      <4>1. (op = "==") = z
        BY <2>1, <3>1
      <4>2. Decide(op, Len(a), Len(b)) = (op = "==")
        BY <1>11, <2>3, <2>5, <3>1
      <4>3. Decide(op, Len(a), Len(b)) = z
        BY <4>1, <4>2
      <4>4. Ok(a, op = "==") = yes
        BY <4>1
      <4>5. Ok(a, Decide(op, Len(a), Len(b))) = yes
        BY <4>3
      <4> HIDE DEF yes
      <4> QED BY <1>9, <1>11, <2>3, <3>1, <4>4, <4>5
    <3>2. CASE a # b /\ E = {}
      <4>1. (op = "!=") = z /\ Len(a) # Len(b)
        BY <2>2, <2>3, <3>2
      <4>2. Decide(op, Len(a), Len(b)) = (op = "!=")
        BY <1>11, <2>5, <4>1
      <4>3. Decide(op, Len(a), Len(b)) = z
        BY <4>1, <4>2
      <4>4. Ok(a, op = "!=") = yes
        BY <4>1
      <4>5. Ok(a, Decide(op, Len(a), Len(b))) = yes
        BY <4>3
      <4>6. v.kind # "self"
        BY <2>4, <3>2
      <4> HIDE DEF yes
      <4> QED BY <1>9, <1>11, <3>2, <4>1, <4>4, <4>5, <4>6
    <3>3. CASE E # {}
      <4>0. a # b
        BY <2>3, <3>3
      <4>1. (op = "!=") = z
        BY <2>2, <4>0
      <4>4. Ok(a, op = "!=") = yes
        BY <4>1
      <4>6. v.kind # "self"
        BY <2>4, <4>0
      <4> HIDE DEF yes
      <4> QED BY <1>9, <1>11, <3>3, <4>4, <4>6
    <3> QED BY <3>1, <3>2, <3>3
  <2>7. op \notin Orders
    BY <1>11 DEF Orders
  <2>8. Failure(c, a) = "none"
    BY <1>2, <1>11, <2>7
  <2>9. r.arr = a /\ r.err = "none" /\ r.ret = z
    BY <2>6 DEF Ok
  <2>10. r.ret = Answer(c, a)
    BY <1>2, <2>9 DEF z
  <2> QED BY <1>3, <2>8, <2>9, <2>10 DEF Answers, Meets, r, c
<1>12. CASE v.kind # "tuple" /\ op \in Orders
  <2>1. op \notin {"==", "!="}
    BY <1>12 DEF Orders
  <2>2. CASE E = {}
    <3> DEFINE z == Decide(op, Len(a), Len(b))
    <3>1. r = Ok(a, z)
      BY <1>9, <1>12, <2>1, <2>2
    <3>2. Compare(op, a, b) = z /\ ~Unordered(a, b)
      BY <2>1, <2>2 DEF Compare, Unordered, E
    <3> HIDE DEF z
    <3>3. r.arr = a /\ r.err = "none" /\ r.ret = z
      BY <3>1 DEF Ok
    <3>4. Failure(c, a) = "none"
      BY <1>2, <1>12, <3>2
    <3> QED BY <1>2, <1>3, <3>2, <3>3, <3>4 DEF Answers, Meets, r, c
  <2>3. CASE E # {}
    <3> DEFINE s == a[Min(E)]
               t == b[Min(E)]
               z == Decide(op, s, t)
    <3>1. r = IF IsProxy(v) THEN Err(a, "crash")
              ELSE IF None \in {s, t} THEN Err(a, "TypeError") ELSE Ok(a, z)
      BY <1>5, <1>7, <1>9, <1>12, <2>1, <2>3
    <3>2. Compare(op, a, b) = z /\ (Unordered(a, b) <=> None \in {s, t})
      BY <2>1, <2>3 DEF Compare, Unordered, E
    <3> HIDE DEF z, s, t
    <3>3. CASE IsProxy(v)
      <4>1. r.arr = a /\ r.err = "crash"
        BY <3>1, <3>3 DEF Err
      <4> QED BY <1>4, <4>1 DEF Answers, r
    <3>4. CASE ~IsProxy(v) /\ None \in {s, t}
      <4>1. r.arr = a /\ r.err = "TypeError"
        BY <3>1, <3>4 DEF Err
      <4>2. Failure(c, a) = "TypeError"
        BY <1>2, <1>12, <3>2, <3>4
      <4> QED BY <1>3, <4>1, <4>2 DEF Answers, Meets, r, c
    <3>5. CASE ~IsProxy(v) /\ None \notin {s, t}
      <4>1. r.arr = a /\ r.err = "none" /\ r.ret = z
        BY <3>1, <3>5 DEF Ok
      <4>2. Failure(c, a) = "none"
        BY <1>2, <1>12, <3>2, <3>5
      <4> QED BY <1>2, <1>3, <3>2, <4>1, <4>2 DEF Answers, Meets, r, c
    <3> QED BY <3>3, <3>4, <3>5
  <2> QED BY <2>2, <2>3
<1> QED BY <1>5, <1>10, <1>11, <1>12 DEF Orders

-----------------------------------------------------------------------------
(* Sorting.                                                                *)

\* A permutation of the places.
LEMMA BijectionFacts ==
    ASSUME NEW n \in Nat, NEW f
    PROVE  f \in Bijection(1..n, 1..n) <=> /\ f \in [1..n -> 1..n]
                                           /\ \A j, k \in 1..n : f[j] = f[k] => j = k
                                           /\ \A w \in 1..n : \E v \in 1..n : f[v] = w
<1> DEFINE S == 1..n
<1> HIDE DEF S
<1>1. f \in Injection(S, S) <=> f \in [S -> S] /\ \A j, k \in S : f[j] = f[k] => j = k
  <2>1. f \in [S -> S] => DOMAIN f = S
    OBVIOUS
  <2> QED BY <2>1 DEF Injection, IsInjective
<1>2. f \in Surjection(S, S) <=> f \in [S -> S] /\ \A w \in S : \E v \in S : f[v] = w
  BY DEF Surjection
<1>3. f \in Bijection(S, S) <=> f \in Injection(S, S) /\ f \in Surjection(S, S)
  BY DEF Bijection
<1>4. f \in Bijection(S, S) <=> /\ f \in [S -> S]
                                /\ \A j, k \in S : f[j] = f[k] => j = k
                                /\ \A w \in S : \E v \in S : f[v] = w
  BY <1>1, <1>2, <1>3
<1> QED BY <1>4 DEF S

\* The order of sorting: by the score, and by the place where that is the same.
Ahead(L, i, j) == L[i] < L[j] \/ (L[i] = L[j] /\ i < j)
Scores(L, n) == \A i \in 1..n : L[i] \in Int
Rung(L, n, i) == 1 + Cardinality({j \in 1..n : Ahead(L, j, i)})

LEMMA AheadOrder ==
    ASSUME NEW n \in Nat, NEW L, Scores(L, n)
    PROVE  /\ \A i \in 1..n : ~Ahead(L, i, i)
           /\ \A i, j \in 1..n : Ahead(L, i, j) => ~Ahead(L, j, i) /\ i # j
           /\ \A i, j \in 1..n : i # j => Ahead(L, i, j) \/ Ahead(L, j, i)
           /\ \A i, j, k \in 1..n : Ahead(L, i, j) /\ Ahead(L, j, k) => Ahead(L, i, k)
<1>1. \A i \in 1..n : L[i] \in Int /\ i \in Int
  BY DEF Scores
<1>2. \A i, j \in 1..n : i # j => Ahead(L, i, j) \/ Ahead(L, j, i)
  BY <1>1 DEF Ahead
<1>3. \A i, j \in 1..n : Ahead(L, i, j) => ~Ahead(L, j, i) /\ i # j
  BY <1>1 DEF Ahead
<1>4. \A i, j, k \in 1..n : Ahead(L, i, j) /\ Ahead(L, j, k) => Ahead(L, i, k)
  BY <1>1 DEF Ahead
<1> QED BY <1>2, <1>3, <1>4

LEMMA RungFacts ==
    ASSUME NEW n \in Nat, NEW L, Scores(L, n)
    PROVE  /\ \A i \in 1..n : Rung(L, n, i) \in 1..n
           /\ \A i, j \in 1..n : Ahead(L, i, j) => Rung(L, n, i) < Rung(L, n, j)
           /\ \A i, j \in 1..n : Rung(L, n, i) = Rung(L, n, j) => i = j
           /\ \A k \in 1..n : \E i \in 1..n : Rung(L, n, i) = k
<1> DEFINE B(i) == {j \in 1..n : Ahead(L, j, i)}
           R(i) == Rung(L, n, i)
<1>1. \A i : R(i) = 1 + Cardinality(B(i))
  BY DEF Rung
<1>2. \A i, j : j \in B(i) <=> j \in 1..n /\ Ahead(L, j, i)
  OBVIOUS
<1> HIDE DEF B, R
<1>3. IsFiniteSet(1..n) /\ Cardinality(1..n) = n
  BY FS_Interval
<1>4. \A i : IsFiniteSet(B(i)) /\ Cardinality(B(i)) \in Nat
  <2> TAKE i
  <2>1. B(i) \subseteq 1..n
    BY <1>2
  <2>2. IsFiniteSet(B(i))
    BY <1>3, <2>1, FS_Subset
  <2> QED BY <2>2, FS_CardinalityType
<1>5. ASSUME NEW i \in 1..n PROVE R(i) \in 1..n
  <2> DEFINE S == (1..n) \ {i}
  <2>1. IsFiniteSet(S) /\ Cardinality(S) = n - 1
    BY <1>3, FS_RemoveElement
  <2>2. B(i) \subseteq S
    BY <1>2, AheadOrder
  <2> HIDE DEF S
  <2>3. Cardinality(B(i)) <= Cardinality(S)
    BY <2>1, <2>2, FS_Subset
  <2>4. Cardinality(B(i)) \in Nat /\ R(i) = 1 + Cardinality(B(i))
    BY <1>1, <1>4
  <2> QED BY <2>1, <2>3, <2>4
<1>6. ASSUME NEW i \in 1..n, NEW j \in 1..n, Ahead(L, i, j) PROVE R(i) < R(j)
  <2> DEFINE S == B(j) \ {i}
             T == B(j)
  <2>1. i \in T /\ IsFiniteSet(T)
    BY <1>2, <1>4, <1>6
  <2> HIDE DEF T
  <2>2. IsFiniteSet(T \ {i}) /\ Cardinality(T \ {i}) = Cardinality(T) - 1
    BY <2>1, FS_RemoveElement
  <2>3. IsFiniteSet(S) /\ Cardinality(S) = Cardinality(B(j)) - 1
    BY <2>2 DEF T
  <2>4. B(i) \subseteq S
    <3>1. ASSUME NEW k \in B(i) PROVE k \in B(j) /\ k # i
      BY <1>2, <1>6, <3>1, AheadOrder
    <3> QED BY <3>1
  <2> HIDE DEF S
  <2>5. Cardinality(B(i)) <= Cardinality(S)
    BY <2>3, <2>4, FS_Subset
  <2>6. /\ Cardinality(B(i)) \in Nat /\ R(i) = 1 + Cardinality(B(i))
        /\ Cardinality(B(j)) \in Nat /\ R(j) = 1 + Cardinality(B(j))
    BY <1>1, <1>4
  <2> QED BY <2>3, <2>5, <2>6
<1>7. ASSUME NEW i \in 1..n, NEW j \in 1..n, R(i) = R(j) PROVE i = j
  <2>1. R(i) \in Int /\ R(j) \in Int
    BY <1>5
  <2>2. ~Ahead(L, i, j) /\ ~Ahead(L, j, i)
    BY <1>6, <1>7, <2>1
  <2> QED BY <2>2, AheadOrder
<1>8. \A k \in 1..n : \E i \in 1..n : R(i) = k
  <2> DEFINE f == [i \in 1..n |-> R(i)]
             S == 1..n
  <2>1. f \in [S -> S] /\ \A i \in S : f[i] = R(i)
    BY <1>5
  <2>2. \A i, j \in S : f[i] = f[j] => i = j
    BY <1>7, <2>1
  <2>3. IsFiniteSet(S) /\ Cardinality(S) = Cardinality(S)
    BY <1>3
  <2> HIDE DEF f, S
  <2>4. f \in Injection(S, S)
    BY <2>1, <2>2 DEF Injection, IsInjective
  <2>5. f \in Surjection(S, S)
    BY <2>3, <2>4, FS_Injection
  <2>6. \A k \in S : \E i \in S : f[i] = k
    BY <2>5 DEF Surjection
  <2>7. \A k \in S : \E i \in S : R(i) = k
    BY <2>1, <2>6
  <2> QED BY <2>7 DEF S
<1> QED BY <1>5, <1>6, <1>7, <1>8 DEF R

\* In a permutation that ascends, each stands as high as its place says.
LEMMA Climbs ==
    ASSUME NEW n \in Nat, NEW L, Scores(L, n), NEW q \in Bijection(1..n, 1..n),
           \A i, j \in 1..n : i < j => Ahead(L, q[i], q[j])
    PROVE  \A k \in 1..n : Rung(L, n, q[k]) = k
<1>1. /\ \A k \in 1..n : q[k] \in 1..n
      /\ \A j, k \in 1..n : q[j] = q[k] => j = k
      /\ \A w \in 1..n : \E v \in 1..n : q[v] = w
  <2>1. /\ q \in [1..n -> 1..n]
        /\ \A j, k \in 1..n : q[j] = q[k] => j = k
        /\ \A w \in 1..n : \E v \in 1..n : q[v] = w
    BY BijectionFacts, Zenon
  <2>2. \A k \in 1..n : q[k] \in 1..n
    BY <2>1
  <2> QED BY <2>1, <2>2
<1> TAKE k \in 1..n
<1> DEFINE S == {j \in 1..n : Ahead(L, j, q[k])}
           m == k - 1
<1>2. \A j : j \in S <=> j \in 1..n /\ Ahead(L, j, q[k])
  OBVIOUS
<1>3. m \in Nat /\ \A j \in 1..m : j \in 1..n /\ j < k
  OBVIOUS
<1>4. Rung(L, n, q[k]) = 1 + Cardinality(S)
  BY DEF Rung
<1> HIDE DEF S, m
<1>5. \A j \in 1..m : q[j] \in S
  BY <1>1, <1>2, <1>3
<1>6. \A x \in S : \E j \in 1..m : x = q[j]
  <2> TAKE x \in S
  <2>1. x \in 1..n /\ Ahead(L, x, q[k])
    BY <1>2
  <2>2. PICK j \in 1..n : q[j] = x
    BY <1>1, <2>1
  <2>3. j # k
    BY <1>1, <2>1, <2>2, AheadOrder
  <2>4. ~(k < j)
    <3> SUFFICES ASSUME k < j PROVE FALSE
      OBVIOUS
    <3>1. Ahead(L, q[k], x) /\ q[k] \in 1..n
      BY <1>1, <2>2
    <3> QED BY <2>1, <3>1, AheadOrder
  <2>5. j \in 1..m
    BY <2>2, <2>3, <2>4 DEF m
  <2> QED BY <2>2, <2>5
<1>7. \A i, j \in 1..m : q[i] = q[j] => i = j
  BY <1>1, <1>3
<1>8. Cardinality(S) = m
  BY <1>3, <1>5, <1>6, <1>7, ImageCount
<1> QED BY <1>4, <1>8 DEF m

\* What sorting an array goes by.
Scored(a, L, how, down) ==
    \A i \in 1..Len(a) : /\ Key(how, a[i]) \in Int
                         /\ L[i] = IF down THEN -Key(how, a[i]) ELSE Key(how, a[i])
\* t is a, arranged by q.
Arranged(a, t, q, L) ==
    /\ q \in Bijection(1..Len(a), 1..Len(a))
    /\ \A i \in 1..Len(a) : t[i] = a[q[i]]
    /\ \A i, j \in 1..Len(a) : i < j => Ahead(L, q[i], q[j])

LEMMA SortedIs ==
    ASSUME NEW a \in Arrays, NEW L, NEW how, NEW down \in BOOLEAN, Scored(a, L, how, down), NEW t
    PROVE  /\ Scores(L, Len(a))
           /\ Sorted(a, t, how, down) <=> \E q : Arranged(a, t, q, L)
<1> DEFINE n == Len(a)
           GoesUp(q) == \A i, j \in 1..n : i < j =>
                          \/ (IF down THEN Key(how, t[i]) > Key(how, t[j]) ELSE Key(how, t[i]) < Key(how, t[j]))
                          \/ (Key(how, t[i]) = Key(how, t[j]) /\ q[i] < q[j])
<1>1. n \in Nat /\ DOMAIN a = 1..n
  BY ElementFacts
<1>2. \A i \in 1..n : /\ Key(how, a[i]) \in Int /\ L[i] \in Int
                      /\ L[i] = IF down THEN -Key(how, a[i]) ELSE Key(how, a[i])
  BY DEF Scored
<1>3. Sorted(a, t, how, down) <=> \E q \in Bijection(1..n, 1..n) : (\A i \in 1..n : t[i] = a[q[i]]) /\ GoesUp(q)
  BY <1>1 DEF Sorted
<1>4. ASSUME NEW q \in Bijection(1..n, 1..n), \A i \in 1..n : t[i] = a[q[i]]
      PROVE  GoesUp(q) <=> \A i, j \in 1..n : i < j => Ahead(L, q[i], q[j])
  <2>1. \A i \in 1..n : q[i] \in 1..n
    <3>1. q \in [1..n -> 1..n]
      BY <1>1, BijectionFacts, Zenon
    <3> QED BY <3>1
  <2>2. ASSUME NEW i \in 1..n, NEW j \in 1..n
        PROVE  (\/ (IF down THEN Key(how, t[i]) > Key(how, t[j]) ELSE Key(how, t[i]) < Key(how, t[j]))
                \/ (Key(how, t[i]) = Key(how, t[j]) /\ q[i] < q[j]))
               <=> Ahead(L, q[i], q[j])
    <3> DEFINE x == Key(how, a[q[i]])
               y == Key(how, a[q[j]])
    <3>1. /\ q[i] \in 1..n /\ q[j] \in 1..n /\ t[i] = a[q[i]] /\ t[j] = a[q[j]]
      BY <1>4, <2>1
    <3>2. /\ x \in Int /\ y \in Int
          /\ L[q[i]] = (IF down THEN -x ELSE x) /\ L[q[j]] = (IF down THEN -y ELSE y)
      BY <1>2, <3>1
    <3>3. Key(how, t[i]) = x /\ Key(how, t[j]) = y
      BY <3>1
    <3> HIDE DEF x, y
    <3>4. CASE down
      BY <3>2, <3>3, <3>4 DEF Ahead
    <3>5. CASE ~down
      BY <3>2, <3>3, <3>5 DEF Ahead
    <3> QED BY <3>4, <3>5
  <2> QED BY <2>2
<1> HIDE DEF GoesUp
<1>5. \A q : Arranged(a, t, q, L) <=> /\ q \in Bijection(1..n, 1..n) /\ \A i \in 1..n : t[i] = a[q[i]]
                                     /\ \A i, j \in 1..n : i < j => Ahead(L, q[i], q[j])
  BY DEF Arranged
<1>6. Sorted(a, t, how, down) <=> \E q : Arranged(a, t, q, L)
  BY <1>3, <1>4, <1>5
<1>7. Scores(L, Len(a))
  BY <1>2 DEF Scores
<1> QED BY <1>6, <1>7

\* There is one way to sort.
LEMMA ArrangedOnce ==
    ASSUME NEW a \in Arrays, NEW L, Scores(L, Len(a)), NEW t, NEW p, Arranged(a, t, p, L),
           NEW u, NEW q, Arranged(a, u, q, L)
    PROVE  \A k \in 1..Len(a) : t[k] = u[k]
<1> DEFINE n == Len(a)
<1>1. n \in Nat
  BY ElementFacts
<1>2. /\ p \in Bijection(1..n, 1..n) /\ q \in Bijection(1..n, 1..n)
      /\ (\A i \in 1..n : t[i] = a[p[i]]) /\ \A i \in 1..n : u[i] = a[q[i]]
  BY DEF Arranged
<1>3. \A k \in 1..n : Rung(L, n, p[k]) = k
  BY <1>1, <1>2, Climbs DEF Arranged
<1>4. \A k \in 1..n : Rung(L, n, q[k]) = k
  BY <1>1, <1>2, Climbs DEF Arranged
<1>5. p \in [1..n -> 1..n] /\ q \in [1..n -> 1..n]
  BY <1>1, <1>2, BijectionFacts, Zenon
<1>6. \A i, j \in 1..n : Rung(L, n, i) = Rung(L, n, j) => i = j
  BY <1>1, RungFacts
<1> TAKE k \in 1..n
<1>7. p[k] \in 1..n /\ q[k] \in 1..n /\ Rung(L, n, p[k]) = Rung(L, n, q[k])
  BY <1>3, <1>4, <1>5
<1>8. p[k] = q[k]
  BY <1>6, <1>7
<1> QED BY <1>2, <1>8

LEMMA PythonSortIs ==
    ASSUME NEW a \in Arrays, NEW L, NEW how, NEW down \in BOOLEAN, Scored(a, L, how, down),
           NEW t \in Arrays, Len(t) = Len(a), NEW q, Arranged(a, t, q, L)
    PROVE  PythonSort(a, how, down) = t
<1> DEFINE n == Len(a)
           T == [DOMAIN a -> {a[i] : i \in DOMAIN a}]
           u == PythonSort(a, how, down)
<1>1. n \in Nat /\ DOMAIN a = 1..n /\ DOMAIN t = 1..n
  BY ElementFacts
<1>2. t \in T
  <2>1. q \in [1..n -> 1..n]
    <3>1. q \in Bijection(1..n, 1..n)
      BY DEF Arranged
    <3> QED BY <1>1, <3>1, BijectionFacts, Zenon
  <2>2. \A i \in 1..n : t[i] = a[q[i]]
    BY DEF Arranged
  <2>3. \A i \in 1..n : t[i] \in {a[k] : k \in 1..n}
    BY <2>1, <2>2
  <2>4. t = [i \in 1..n |-> t[i]]
    BY <1>1 DEF Arrays
  <2> QED BY <1>1, <2>3, <2>4
<1>3. Sorted(a, t, how, down)
  BY SortedIs
<1>4. u \in T /\ Sorted(a, u, how, down)
  BY <1>2, <1>3 DEF PythonSort
<1> HIDE DEF u
<1>5. PICK p : Arranged(a, u, p, L)
  BY <1>4, SortedIs
<1>6. Scores(L, n)
  BY SortedIs
<1>7. \A k \in 1..n : u[k] = t[k]
  BY <1>5, <1>6, ArrangedOnce
<1>8. u = t
  BY <1>1, <1>2, <1>4, <1>7
<1> QED BY <1>8 DEF u

\* Array.prototype.sort puts each element where the order says.
LEMMA JSSortIs ==
    ASSUME NEW a \in Arrays, \A i \in 1..Len(a) : a[i] # None, NEW L, Scores(L, Len(a)), NEW cmp,
           \A i, j \in 1..Len(a) : (cmp[<<a[i], a[j]>>] < 0 <=> L[i] < L[j]) /\ (cmp[<<a[i], a[j]>>] = 0 <=> L[i] = L[j])
    PROVE  /\ JSSort(a, cmp) \in Arrays /\ Len(JSSort(a, cmp)) = Len(a)
           /\ \E q : Arranged(a, JSSort(a, cmp), q, L)
<1> DEFINE n == Len(a)
           Before(i, j) == CASE a[i] = None \/ a[j] = None -> a[j] = None /\ (a[i] # None \/ i < j)
                             [] OTHER -> cmp[<<a[i], a[j]>>] < 0 \/ (cmp[<<a[i], a[j]>>] = 0 /\ i < j)
           place == [i \in DOMAIN a |-> 1 + Cardinality({j \in DOMAIN a : Before(j, i)})]
           t == [k \in DOMAIN a |-> a[CHOOSE i \in DOMAIN a : place[i] = k]]
           q == [k \in 1..n |-> CHOOSE i \in DOMAIN a : place[i] = k]
<1>1. n \in Nat /\ DOMAIN a = 1..n /\ \A i \in 1..n : a[i] \in Items
  BY ElementFacts
<1>2. JSSort(a, cmp) = t
  BY DEF JSSort
<1>3. \A i, j \in 1..n : Before(i, j) <=> Ahead(L, i, j)
  <2> TAKE i, j \in 1..n
  <2>1. a[i] # None /\ a[j] # None
    OBVIOUS
  <2>2. Before(i, j) <=> cmp[<<a[i], a[j]>>] < 0 \/ (cmp[<<a[i], a[j]>>] = 0 /\ i < j)
    BY <2>1
  <2> QED BY <2>2 DEF Ahead
<1> HIDE DEF Before
<1>4. \A i \in 1..n : place[i] = Rung(L, n, i)
  <2> TAKE i \in 1..n
  <2> DEFINE S == {j \in DOMAIN a : Before(j, i)}
             T == {j \in 1..n : Ahead(L, j, i)}
  <2>1. S = T
    BY <1>1, <1>3
  <2>2. place[i] = 1 + Cardinality(S)
    BY <1>1
  <2>3. Rung(L, n, i) = 1 + Cardinality(T)
    BY DEF Rung
  <2> QED BY <2>1, <2>2, <2>3
<1> HIDE DEF place
<1>0. Scores(L, n)
  OBVIOUS
<1> HIDE DEF n
<1>5. /\ \A i \in 1..n : place[i] \in 1..n
      /\ \A i, j \in 1..n : place[i] = place[j] => i = j
      /\ \A k \in 1..n : \E i \in 1..n : place[i] = k
  <2>1. /\ \A i \in 1..n : Rung(L, n, i) \in 1..n
        /\ \A i, j \in 1..n : Rung(L, n, i) = Rung(L, n, j) => i = j
        /\ \A k \in 1..n : \E i \in 1..n : Rung(L, n, i) = k
    BY <1>0, <1>1, RungFacts
  <2>2. ASSUME NEW i \in 1..n PROVE place[i] \in 1..n
    <3>1. place[i] = Rung(L, n, i)
      BY <1>4, Zenon
    <3>2. Rung(L, n, i) \in 1..n
      BY <2>1, Zenon
    <3> QED BY <3>1, <3>2, Zenon
  <2>3. ASSUME NEW i \in 1..n, NEW j \in 1..n, place[i] = place[j] PROVE i = j
    <3>1. Rung(L, n, i) = Rung(L, n, j)
      BY <1>4, <2>3, Zenon
    <3> QED BY <2>1, <3>1, Zenon
  <2>4. ASSUME NEW k \in 1..n PROVE \E i \in 1..n : place[i] = k
    <3>1. PICK i \in 1..n : Rung(L, n, i) = k
      BY <2>1, Zenon
    <3>2. place[i] = k
      BY <1>4, <3>1, Zenon
    <3> QED BY <3>2, Zenon
  <2> QED BY <2>2, <2>3, <2>4, Zenon
<1>6. \A k \in 1..n : q[k] \in 1..n /\ place[q[k]] = k
  BY <1>1, <1>5
<1>7. \A k \in 1..n : t[k] = a[q[k]]
  <2>1. \A k \in DOMAIN a : t[k] = a[CHOOSE i \in DOMAIN a : place[i] = k]
    OBVIOUS
  <2>2. \A k \in 1..n : q[k] = CHOOSE i \in DOMAIN a : place[i] = k
    OBVIOUS
  <2> HIDE DEF t, q
  <2> QED BY <1>1, <2>1, <2>2
<1>8. q \in Bijection(1..n, 1..n)
  <2>1. q \in [1..n -> 1..n]
    BY <1>6
  <2> HIDE DEF q
  <2>2. \A j, k \in 1..n : q[j] = q[k] => j = k
    <3>1. \A k \in 1..n : place[q[k]] = k
      BY <1>6
    <3> QED BY <3>1, Zenon
  <2>3. \A w \in 1..n : \E v \in 1..n : q[v] = w
    <3> TAKE w \in 1..n
    <3>1. place[w] \in 1..n /\ q[place[w]] \in 1..n /\ place[q[place[w]]] = place[w]
      BY <1>5, <1>6
    <3>2. q[place[w]] = w
      BY <1>5, <3>1
    <3> QED BY <3>1, <3>2
  <2> QED BY <1>1, <2>1, <2>2, <2>3, BijectionFacts, Zenon
<1>9. t \in Arrays /\ Len(t) = n
  <2>1. \A k \in 1..n : t[k] \in Items
    BY <1>1, <1>6, <1>7
  <2>2. t = [k \in DOMAIN a |-> t[k]]
    <3> DEFINE F(k) == a[CHOOSE i \in DOMAIN a : place[i] = k]
    <3>1. t = [k \in DOMAIN a |-> F(k)]
      OBVIOUS
    <3> HIDE DEF F, t
    <3> QED BY <3>1
  <2> HIDE DEF t
  <2>3. t = [k \in 1..n |-> t[k]]
    BY <1>1, <2>2
  <2> QED BY <1>1, <2>1, <2>3, ArrayOf
<1> HIDE DEF t, q
<1>10. ASSUME NEW i \in 1..n, NEW j \in 1..n, i < j PROVE Ahead(L, q[i], q[j])
  <2>1. /\ q[i] \in 1..n /\ q[j] \in 1..n
        /\ Rung(L, n, q[i]) = i /\ Rung(L, n, q[j]) = j
    BY <1>4, <1>6
  <2>0. i \in Int /\ j \in Int
    BY <1>1
  <2>4. i # j
    BY <1>10, <2>0
  <2>2. q[i] # q[j]
    BY <2>1, <2>4, Zenon
  <2>3. ~Ahead(L, q[j], q[i])
    <3> SUFFICES ASSUME Ahead(L, q[j], q[i]) PROVE FALSE
      OBVIOUS
    <3>1. Rung(L, n, q[j]) < Rung(L, n, q[i])
      BY <1>0, <1>1, <2>1, RungFacts
    <3>2. j < i
      BY <2>1, <3>1, Zenon
    <3> QED BY <1>10, <2>0, <3>2
  <2> QED BY <1>0, <1>1, <2>1, <2>2, <2>3, AheadOrder
<1>11. Arranged(a, t, q, L)
  BY <1>7, <1>8, <1>10 DEF Arranged, n
<1> QED BY <1>2, <1>9, <1>11 DEF n

Score(a, how, down) == [i \in 1..Len(a) |-> IF down THEN -Key(how, a[i]) ELSE Key(how, a[i])]

LEMMA ScoreFacts ==
    ASSUME NEW a \in Arrays, \A i \in 1..Len(a) : a[i] # None, NEW how, NEW down \in BOOLEAN
    PROVE  /\ Scored(a, Score(a, how, down), how, down) /\ Scores(Score(a, how, down), Len(a))
           /\ \A i \in 1..Len(a) : a[i] \in Int
<1>1. \A i \in 1..Len(a) : a[i] \in Int
  <2>1. \A i \in 1..Len(a) : a[i] \in Items /\ a[i] # None
    BY ElementFacts
  <2>2. \A v \in Items : v # None => v \in Int
    BY ArrayAssumption
  <2> QED BY <2>1, <2>2
<1>2. \A v \in Int : Key(how, v) \in Int
  BY DEF Key
<1>3. \A i \in 1..Len(a) : Key(how, a[i]) \in Int
  BY <1>1, <1>2
<1> DEFINE L == Score(a, how, down)
<1>4. \A i \in 1..Len(a) : L[i] = IF down THEN -Key(how, a[i]) ELSE Key(how, a[i])
  BY DEF Score
<1> HIDE DEF L
<1>5. \A i \in 1..Len(a) : L[i] \in Int
  <2> TAKE i \in 1..Len(a)
  <2> DEFINE k == Key(how, a[i])
  <2>1. k \in Int /\ L[i] = IF down THEN -k ELSE k
    BY <1>3, <1>4
  <2> HIDE DEF k
  <2> QED BY <2>1
<1> QED BY <1>1, <1>3, <1>4, <1>5 DEF Scored, Scores, L

\* A comparison that agrees with the keys sorts like Python.
LEMMA SortsLikePython ==
    ASSUME NEW a \in Arrays, \A i \in 1..Len(a) : a[i] # None, NEW how, NEW down \in BOOLEAN, NEW cmp,
           \A u, v \in Int : LET x == Key(how, u)
                                 y == Key(how, v)
                             IN  /\ cmp[<<u, v>>] < 0 <=> IF down THEN y < x ELSE x < y
                                 /\ cmp[<<u, v>>] = 0 <=> x = y
    PROVE  PythonSort(a, how, down) = JSSort(a, cmp) /\ JSSort(a, cmp) \in Arrays
<1> DEFINE L == Score(a, how, down)
           t == JSSort(a, cmp)
<1>1. Scored(a, L, how, down) /\ Scores(L, Len(a)) /\ \A i \in 1..Len(a) : a[i] \in Int
  BY ScoreFacts
<1> HIDE DEF L
<1>2. ASSUME NEW i \in 1..Len(a), NEW j \in 1..Len(a)
      PROVE  (cmp[<<a[i], a[j]>>] < 0 <=> L[i] < L[j]) /\ (cmp[<<a[i], a[j]>>] = 0 <=> L[i] = L[j])
  <2> DEFINE x == Key(how, a[i])
             y == Key(how, a[j])
             z == cmp[<<a[i], a[j]>>]
             lt == z < 0
             eq == z = 0
  <2>1. a[i] \in Int /\ a[j] \in Int
    BY <1>1
  <2>2. /\ lt <=> IF down THEN y < x ELSE x < y
        /\ eq <=> x = y
    BY <2>1
  <2>3. /\ x \in Int /\ y \in Int
        /\ L[i] = (IF down THEN -x ELSE x) /\ L[j] = (IF down THEN -y ELSE y)
    BY <1>1 DEF Scored
  <2> HIDE DEF x, y, lt, eq
  <2>4. (lt <=> L[i] < L[j]) /\ (eq <=> L[i] = L[j])
    <3>1. CASE down
      BY <2>2, <2>3, <3>1
    <3>2. CASE ~down
      BY <2>2, <2>3, <3>2
    <3> QED BY <3>1, <3>2
  <2> QED BY <2>4 DEF lt, eq
<1>3. t \in Arrays /\ Len(t) = Len(a) /\ \E q : Arranged(a, t, q, L)
  BY <1>1, <1>2, JSSortIs
<1> HIDE DEF t
<1>4. PythonSort(a, how, down) = t
  BY <1>1, <1>3, PythonSortIs
<1> QED BY <1>3, <1>4 DEF t

LEMMA SortTypes ==
    ASSUME NEW x \in Sortings \X BOOLEAN
    PROVE  x[1] \in {"none", "jsStyle", "notCallable", "constant", "negative"} /\ x[2] \in BOOLEAN
BY DEF Sortings, Keys

LEMMA SortedAnswers ==
    ASSUME NEW a \in Arrays, \A i \in 1..Len(a) : a[i] # None,
           NEW x, x[1] \in {"none", "constant", "negative"}, x[2] \in BOOLEAN
    PROVE  Answers("sort", x, a)
<1> DEFINE c == [op |-> "sort", args |-> x]
           how == x[1]
           down == x[2]
           p == [z \in Int \X Int |-> sort_compare_default(z[1], z[2], down)]
           q == [z \in Int \X Int |-> sort_compare_key_func(how, z[1], z[2], down)]
           cmp == IF how = "none" THEN p ELSE q
           t == JSSort(a, cmp)
<1>1. Perform("sort", a, x) = Ok(t, None)
  <2>1. Perform("sort", a, x) = sort(a, how, down)
    BY DEF Perform
  <2>2. CASE how = "none"
    <3>1. sort(a, how, down) = Ok(JSSort(a, p), None)
      BY <2>2 DEF sort, Keys
    <3>2. cmp = p
      BY <2>2
    <3> HIDE DEF p, q, cmp
    <3> QED BY <2>1, <3>1, <3>2
  <2>3. CASE how # "none"
    <3>1. how \in Keys /\ how # "jsStyle"
      BY <2>3 DEF Keys
    <3>2. sort(a, how, down) = Ok(JSSort(a, q), None)
      BY <2>3, <3>1 DEF sort
    <3>3. cmp = q
      BY <2>3
    <3> HIDE DEF p, q, cmp
    <3> QED BY <2>1, <3>2, <3>3
  <2> QED BY <2>2, <2>3
<1>2. Failure(c, a) = "none" /\ Answer(c, a) = None
  BY DEF Failure, Answer
<1>3. Edited(c, a) = PythonSort(a, how, down)
  BY <1>2 DEF Edited
<1>4. \A u, v \in Int : p[<<u, v>>] = sort_compare(u, v, down)
  BY DEF sort_compare_default
<1>5. \A u, v \in Int : q[<<u, v>>] = sort_compare(Key(how, u), Key(how, v), down)
  BY DEF sort_compare_key_func
<1>6. how \in {"none", "constant", "negative"} /\ down \in BOOLEAN
  OBVIOUS
<1> HIDE DEF p, q, how, down, c
<1>7. \A u, v \in Int : cmp[<<u, v>>] = sort_compare(Key(how, u), Key(how, v), down)
  <2>1. CASE how = "none"
    <3>1. cmp = p /\ \A u \in Int : Key(how, u) = u
      BY <2>1 DEF Key
    <3> HIDE DEF cmp
    <3> QED BY <1>4, <3>1
  <2>2. CASE how # "none"
    <3>1. cmp = q
      BY <2>2
    <3> HIDE DEF cmp
    <3> QED BY <1>5, <3>1
  <2> QED BY <2>1, <2>2
<1> HIDE DEF cmp
<1>8. ASSUME NEW u \in Int, NEW v \in Int
      PROVE  /\ cmp[<<u, v>>] < 0 <=> IF down THEN Key(how, v) < Key(how, u) ELSE Key(how, u) < Key(how, v)
             /\ cmp[<<u, v>>] = 0 <=> Key(how, u) = Key(how, v)
  <2> DEFINE k == Key(how, u)
             l == Key(how, v)
             d == cmp[<<u, v>>]
  <2>1. k \in Int /\ l \in Int
    BY DEF Key
  <2>2. d = sort_compare(k, l, down)
    BY <1>7
  <2> HIDE DEF k, l, d
  <2>3. /\ d < 0 <=> IF down THEN l < k ELSE k < l
        /\ d = 0 <=> k = l
    BY <1>6, <2>1, <2>2 DEF sort_compare
  <2> QED BY <2>3 DEF k, l, d
<1>9. PythonSort(a, how, down) = t /\ t \in Arrays
  BY <1>6, <1>8, SortsLikePython
<1> HIDE DEF t
<1> QED BY <1>1, <1>2, <1>3, <1>9 DEF Answers, Meets, Ok, c

LEMMA ReverseKeeps ==
    ASSUME NEW a \in Arrays
    PROVE  Reverse(a) \in Arrays
<1>0. Len(a) \in Nat /\ DOMAIN a = 1..Len(a)
  BY ElementFacts
<1>1. \A k \in 1..Len(a) : (Len(a) - k) + 1 \in 1..Len(a)
  BY <1>0
<1>2. \A k \in 1..Len(a) : a[(Len(a) - k) + 1] \in Items
  BY <1>1, ElementFacts
<1> QED BY <1>0, <1>2 DEF Reverse, Arrays

LEMMA JSStyleAnswers ==
    ASSUME NEW a \in Arrays, \A i \in 1..Len(a) : a[i] # None, NEW x, x[1] = "jsStyle", x[2] \in BOOLEAN
    PROVE  Answers("sort", x, a)
<1> DEFINE c == [op |-> "sort", args |-> x]
           cmp == [z \in Int \X Int |-> z[2] - z[1]]
           t == JSSort(a, cmp)
           u == PythonSort(a, "negative", FALSE)
           down == x[2]
<1>1. Perform("sort", a, x) = Ok(IF down THEN Reverse(t) ELSE t, None)
  <2>1. Perform("sort", a, x) = sort(a, "jsStyle", down)
    BY DEF Perform
  <2> QED BY <2>1 DEF sort, Keys
<1>2. Failure(c, a) = "none" /\ Answer(c, a) = None
  BY DEF Failure, Answer
<1>3. Edited(c, a) = IF down THEN Reverse(u) ELSE u
  BY <1>2 DEF Edited
<1> HIDE DEF c, u, down
<1>4. \A v, w \in Int : cmp[<<v, w>>] = w - v
  OBVIOUS
<1> HIDE DEF cmp
<1> DEFINE how == "negative"
           no == FALSE
<1>5. ASSUME NEW v \in Int, NEW w \in Int
      PROVE  /\ cmp[<<v, w>>] < 0 <=> IF no THEN Key(how, w) < Key(how, v) ELSE Key(how, v) < Key(how, w)
             /\ cmp[<<v, w>>] = 0 <=> Key(how, v) = Key(how, w)
  <2>1. Key(how, v) = -v /\ Key(how, w) = -w /\ cmp[<<v, w>>] = w - v
    BY <1>4 DEF Key
  <2> QED BY <2>1
<1>6. no \in BOOLEAN /\ u = PythonSort(a, how, no)
  BY DEF u
<1> HIDE DEF how, no
<1>7. u = t /\ t \in Arrays
  BY <1>5, <1>6, SortsLikePython
<1> HIDE DEF t
<1> DEFINE e == IF down THEN Reverse(t) ELSE t
<1>8. e \in Arrays
  BY <1>7, ReverseKeeps
<1>9. Edited(c, a) = e
  BY <1>3, <1>7
<1> HIDE DEF e
<1>10. Perform("sort", a, x) = Ok(e, None)
  BY <1>1 DEF e
<1>11. Perform("sort", a, x).arr = e /\ Perform("sort", a, x).err = "none" /\ Perform("sort", a, x).ret = None
  BY <1>10 DEF Ok
<1> QED BY <1>2, <1>8, <1>9, <1>11 DEF Answers, Meets, c

LEMMA NotCallableAnswers ==
    ASSUME NEW a \in Arrays, \A i \in 1..Len(a) : a[i] # None, NEW x, x[1] = "notCallable", x[2] \in BOOLEAN
    PROVE  Answers("sort", x, a)
<1> DEFINE c == [op |-> "sort", args |-> x]
           how == "notCallable"
           down == x[2]
           r == Perform("sort", a, x)
<1>0. Len(a) \in Nat /\ DOMAIN a = 1..Len(a)
  BY ElementFacts
<1>1. r = IF Len(a) > 1 THEN Err(a, "TypeError") ELSE Ok(a, None)
  <2>1. r = sort(a, how, down)
    BY DEF Perform
  <2> QED BY <2>1 DEF sort, Keys
<1>2. Failure(c, a) = (IF Len(a) > 1 THEN "TypeError" ELSE "none") /\ Answer(c, a) = None
  BY DEF Failure, Answer
<1>3. Failure(c, a) # "none" => Edited(c, a) = a
  BY DEF Edited
<1>4. Failure(c, a) = "none" => Edited(c, a) = PythonSort(a, how, down)
  BY DEF Edited
<1>5. down \in BOOLEAN
  OBVIOUS
<1> HIDE DEF c, how, down, r
<1>6. CASE Len(a) > 1
  <2>1. r.arr = a /\ r.err = "TypeError" /\ Failure(c, a) = "TypeError"
    BY <1>1, <1>2, <1>6 DEF Err
  <2> QED BY <1>3, <2>1 DEF Answers, Meets, r, c
<1>7. CASE ~(Len(a) > 1)
  <2>1. r.arr = a /\ r.err = "none" /\ r.ret = None /\ Failure(c, a) = "none"
    BY <1>1, <1>2, <1>7 DEF Ok
  <2> DEFINE L == Score(a, how, down)
             q == [i \in 1..Len(a) |-> i]
  <2>2. Scored(a, L, how, down)
    BY <1>5, ScoreFacts
  <2> HIDE DEF L
  <2>3. Arranged(a, a, q, L)
    <3>1. \A i, j \in 1..Len(a) : ~(i < j)
      BY <1>0, <1>7
    <3>2. q \in Bijection(1..Len(a), 1..Len(a))
      <4>1. /\ q \in [1..Len(a) -> 1..Len(a)]
            /\ \A j, k \in 1..Len(a) : q[j] = q[k] => j = k
            /\ \A w \in 1..Len(a) : \E v \in 1..Len(a) : q[v] = w
        OBVIOUS
      <4> HIDE DEF q
      <4> QED BY <1>0, <4>1, BijectionFacts, Zenon
    <3>3. \A i \in 1..Len(a) : a[i] = a[q[i]]
      OBVIOUS
    <3> QED BY <3>1, <3>2, <3>3 DEF Arranged
  <2> HIDE DEF q
  <2>4. PythonSort(a, how, down) = a
    BY <1>5, <2>2, <2>3, PythonSortIs
  <2> QED BY <1>2, <1>4, <2>1, <2>4 DEF Answers, Meets, r, c
<1> QED BY <1>6, <1>7

-----------------------------------------------------------------------------
(* The program.                                                            *)

LEMMA OperandFacts ==
    ASSUME NEW a \in Arrays, NEW v \in Operands
    PROVE  /\ v.kind \in {"list", "tuple", "proxy", "self"}
           /\ v.items \in Arrays /\ (v.kind = "self" => v.items = <<>>)
           /\ OperandItems(v, a) \in Arrays
<1>1. \A s \in BoundedSeq(Values, MaxOperand) : s \in Arrays
  <2>1. \A s \in BoundedSeq(Values, MaxOperand) : \E m \in Nat : s \in [1..m -> Values]
    <3>1. BoundedSeq(Values, MaxOperand) = UNION {[1..m -> Values] : m \in 0..MaxOperand}
      BY Zenon DEF BoundedSeq, SeqOf
    <3>2. ASSUME NEW s \in BoundedSeq(Values, MaxOperand) PROVE \E m \in 0..MaxOperand : s \in [1..m -> Values]
      BY <3>1, <3>2
    <3>3. \A s \in BoundedSeq(Values, MaxOperand) : \E m \in 0..MaxOperand : s \in [1..m -> Values]
      BY <3>2
    <3>4. 0..MaxOperand \subseteq Nat
      BY ArrayAssumption
    <3> QED BY <3>3, <3>4, Zenon
  <2>2. Values \subseteq Items
    BY DEF Values
  <2>3. ASSUME NEW s, NEW m \in Nat, s \in [1..m -> Values] PROVE s \in Seq(Items)
    BY <2>2, <2>3
  <2> QED BY <2>1, <2>3 DEF Arrays
<1>2. <<>> \in Arrays
  BY DEF Arrays
<1>3. \/ \E k \in {"list", "tuple", "proxy"}, s \in BoundedSeq(Values, MaxOperand) : v = [kind |-> k, items |-> s]
      \/ v = [kind |-> "self", items |-> <<>>]
  BY DEF Operands
<1>4. CASE \E k \in {"list", "tuple", "proxy"}, s \in BoundedSeq(Values, MaxOperand) : v = [kind |-> k, items |-> s]
  <2>1. PICK k \in {"list", "tuple", "proxy"}, s \in BoundedSeq(Values, MaxOperand) : v = [kind |-> k, items |-> s]
    BY <1>4
  <2>2. v.kind = k /\ v.items = s /\ k # "self"
    BY <2>1
  <2> QED BY <1>1, <2>2 DEF OperandItems
<1>5. CASE v = [kind |-> "self", items |-> <<>>]
  <2>1. v.kind = "self" /\ v.items = <<>>
    BY <1>5
  <2> QED BY <1>2, <2>1 DEF OperandItems
<1> QED BY <1>3, <1>4, <1>5

LEMMA EveryCallAnswers ==
    ASSUME NEW a \in Arrays, NEW op \in Operations, NEW x \in Arguments(op),
           op = "sort" => None \notin Range(a)
    PROVE  Answers(op, x, a)
<1>0. op \in {"len", "get", "set", "del", "getslice", "setslice", "delslice", "compare",
              "concat", "repeat", "iadd", "imul", "contains", "clear", "copy", "append",
              "insert", "extend", "pop", "remove", "index", "count", "reverse", "sort"}
  BY ArrayAssumption
<1>1. Indices \subseteq Int /\ Factors \subseteq Int /\ Values \subseteq Items
  BY ArrayAssumption DEF Indices, Values
<1>2. CASE op \in {"len", "clear", "copy", "reverse"}
  <2>1. x = <<>>
    BY <1>2 DEF Arguments
  <2> QED BY <1>2, <2>1, LenAnswers, ClearAnswers, CopyAnswers, ReverseAnswers
<1>3. CASE op \in {"get", "del", "pop"}
  <2>1. x \in [1..1 -> Indices]
    BY <1>3 DEF Arguments
  <2>2. x[1] \in Indices
    BY <2>1
  <2>3. x[1] \in Int
    BY <1>1, <2>2
  <2> QED BY <1>3, <2>3, GetAnswers, DelAnswers, PopAnswers
<1>4. CASE op \in {"set", "insert"}
  <2>1. x \in Indices \X Values
    BY <1>4 DEF Arguments
  <2>2. x[1] \in Int /\ x[2] \in Items
    BY <1>1, <2>1
  <2> QED BY <1>4, <2>2, SetAnswers, InsertAnswers
<1>5. CASE op \in {"getslice", "delslice"}
  <2>1. x \in [1..1 -> Slices]
    BY <1>5 DEF Arguments
  <2>2. x[1] \in Slices
    BY <2>1
  <2> QED BY <1>5, <2>2, GetSliceAnswers, DelSliceAnswers
<1>6. CASE op = "setslice"
  <2>1. x \in Slices \X Operands
    BY <1>6 DEF Arguments
  <2>2. x[1] \in Slices /\ x[2] \in Operands
    BY <2>1
  <2>3. x[2].items \in Arrays /\ (x[2].kind = "self" => x[2].items = <<>>) /\ OperandItems(x[2], a) \in Arrays
    BY <2>2, OperandFacts
  <2> QED BY <1>6, <2>2, <2>3, PlainSet, SteppedSet
<1>7. CASE op = "compare"
  <2>1. x \in Operands \X (Orders \cup {"==", "!="})
    BY <1>7 DEF Arguments
  <2>2. x[1] \in Operands /\ x[2] \in Orders \cup {"==", "!="}
    BY <2>1
  <2>3. OperandItems(x[1], a) \in Arrays /\ x[1].kind \in {"list", "tuple", "proxy", "self"}
    BY <2>2, OperandFacts
  <2> QED BY <1>7, <2>2, <2>3, CompareAnswers
<1>8. CASE op \in {"concat", "extend", "iadd"}
  <2>1. x[1] \in Operands
    <3>1. CASE op \in {"concat", "extend"}
      <4>1. x \in [1..1 -> Operands]
        BY <3>1 DEF Arguments
      <4> QED BY <4>1
    <3>2. CASE op = "iadd"
      <4>1. x \in [1..1 -> Lists]
        BY <3>2 DEF Arguments
      <4>2. x[1] \in Lists
        BY <4>1
      <4> QED BY <4>2 DEF Lists
    <3> QED BY <1>8, <3>1, <3>2
  <2>2. OperandItems(x[1], a) \in Arrays
    BY <2>1, OperandFacts
  <2> QED BY <1>8, <2>2, ConcatAnswers, ExtendAnswers, IaddAnswers
<1>9. CASE op \in {"repeat", "imul"}
  <2>1. x \in [1..1 -> Factors]
    BY <1>9 DEF Arguments
  <2>2. x[1] \in Factors
    BY <2>1
  <2>3. x[1] \in Int
    BY <1>1, <2>2
  <2> QED BY <1>9, <2>3, RepeatAnswers
<1>10. CASE op \in {"contains", "append", "remove", "count"}
  <2>1. x \in [1..1 -> Items]
    BY <1>10 DEF Arguments
  <2>2. x[1] \in Items
    BY <2>1
  <2> QED BY <1>10, <2>2, FindAnswers, AppendAnswers, RemoveAnswers
<1>11. CASE op = "index"
  <2>1. x \in Items \X Indices \X (Indices \cup {Missing})
    BY <1>11 DEF Arguments
  <2>2. x[2] \in Int /\ (x[3] \in Int \/ x[3] = Missing)
    BY <1>1, <2>1
  <2> QED BY <1>11, <2>2, IndexAnswers
<1>12. CASE op = "sort"
  <2>1. x \in Sortings \X BOOLEAN
    BY <1>12 DEF Arguments
  <2>2. x[1] \in {"none", "jsStyle", "notCallable", "constant", "negative"} /\ x[2] \in BOOLEAN
    BY <2>1, SortTypes
  <2>3. \A i \in 1..Len(a) : a[i] # None
    <3>1. \A i \in DOMAIN a : a[i] # None
      BY <1>12 DEF Range
    <3> QED BY <3>1, ElementFacts
  <2> QED BY <1>12, <2>2, <2>3, SortedAnswers, JSStyleAnswers, NotCallableAnswers
<1> QED BY <1>0, <1>2, <1>3, <1>4, <1>5, <1>6, <1>7, <1>8, <1>9, <1>10, <1>11, <1>12

\* Between operations the array is whatever it is; while a result is looked at,
\* there is no iterator, and nothing changes the array.
ArrayOK ==
    /\ arr \in Arrays
    /\ last # NoCall => arrIt = NoArrayIter
    /\ OperationsMeetStandard

LEMMA ArrayStarts == Init => ArrayOK
<1> SUFFICES ASSUME Init PROVE ArrayOK
  OBVIOUS
<1>1. arr \in BoundedSeq(Items, MaxLen) /\ last = NoCall
  BY DEF Init
<1>2. arr \in Arrays
  <2>1. \E m \in Nat : arr \in [1..m -> Items]
    BY <1>1, ArrayAssumption DEF BoundedSeq, SeqOf
  <2>2. ASSUME NEW m \in Nat, arr \in [1..m -> Items] PROVE arr \in Seq(Items)
    BY <2>2
  <2> QED BY <2>1, <2>2 DEF Arrays
<1> QED BY <1>1, <1>2 DEF ArrayOK, OperationsMeetStandard

\* A call that returns.
LEMMA CallKeeps ==
    ASSUME ArrayOK, NEW op \in Operations, NEW x \in Arguments(op), Do(op, x)
    PROVE  ArrayOK'
<1> DEFINE r == Perform(op, arr, x)
           c == [op |-> op, args |-> x]
<1>1. /\ arr' = r.arr /\ arrIt = NoArrayIter /\ arrIt' = arrIt /\ (op = "sort" => None \notin Range(arr))
      /\ last' = [op |-> op, args |-> x, before |-> arr, ret |-> r.ret, err |-> r.err, fresh |-> r.fresh]
  BY DEF Do
<1>2. arr \in Arrays
  BY DEF ArrayOK
<1>3. Answers(op, x, arr)
  BY <1>1, <1>2, EveryCallAnswers
<1> HIDE DEF r
<1>4. /\ last'.op = op /\ last'.args = x /\ last'.before = arr
      /\ last'.ret = r.ret /\ last'.err = r.err /\ last'.fresh = r.fresh
  BY <1>1
<1>5. arr' \in Arrays /\ (~Exempt(op, x, arr) => Meets(op, x, arr, r))
  BY <1>1, <1>3 DEF Answers, r
<1>6. Known' <=> Exempt(op, x, arr)
  BY <1>4 DEF Known, Grows, Exempt, r
<1>7. OperationsMeetStandard'
  <2> SUFFICES ASSUME ~Known'
               PROVE  LET d == [op |-> last'.op, args |-> last'.args]
                      IN  /\ last'.err = Failure(d, last'.before)
                          /\ arr' = Edited(d, last'.before)
                          /\ last'.err = "none" => last'.ret = Answer(d, last'.before)
                          /\ last'.op \in {"getslice", "concat", "repeat", "copy"} => last'.fresh
    BY DEF OperationsMeetStandard
  <2>1. Meets(op, x, arr, r)
    BY <1>5, <1>6
  <2> QED BY <1>1, <1>4, <2>1 DEF Meets
<1> QED BY <1>1, <1>5, <1>7 DEF ArrayOK

\* What changes the array behind an iterator leaves an array.
LEMMA MeanwhileKeeps ==
    ASSUME NEW a \in Arrays
    PROVE  /\ \A v \in Values : append(a, v).arr \in Arrays
           /\ \A i \in Int : pop(a, i).arr \in Arrays
           /\ clear_method(a).arr \in Arrays
<1>1. ASSUME NEW v \in Values PROVE append(a, v).arr \in Arrays
  <2>1. v \in Items
    BY DEF Values
  <2> QED BY <2>1, AppendIs
<1>2. ASSUME NEW i \in Int PROVE pop(a, i).arr \in Arrays
  <2> DEFINE x == <<i>>
  <2>1. x[1] = i
    OBVIOUS
  <2>2. Perform("pop", a, x) = pop(a, i)
    BY DEF Perform
  <2> HIDE DEF x
  <2>3. Answers("pop", x, a)
    BY <2>1, PopAnswers
  <2> QED BY <2>2, <2>3 DEF Answers
<1>3. clear_method(a).arr \in Arrays
  <2>1. Answers("clear", <<>>, a)
    BY ClearAnswers
  <2>2. Perform("clear", a, <<>>) = clear_method(a)
    BY DEF Perform
  <2> QED BY <2>1, <2>2 DEF Answers
<1> QED BY <1>1, <1>2, <1>3

LEMMA ArrayKeeps == ArrayOK /\ [Next]_vars => ArrayOK'
<1> SUFFICES ASSUME ArrayOK, [Next]_vars PROVE ArrayOK'
  OBVIOUS
<1>0. NoArrayIter.state = "none" /\ arr \in Arrays /\ (last # NoCall => arrIt = NoArrayIter)
  BY DEF NoArrayIter, ArrayOK
<1>1. ASSUME arr' \in Arrays, last' = NoCall PROVE ArrayOK'
  BY <1>1 DEF ArrayOK, OperationsMeetStandard
<1>2. ASSUME NEW op \in Operations, NEW x \in Arguments(op), Do(op, x) PROVE ArrayOK'
  BY <1>2, CallKeeps
<1>3. CASE Consume
  BY <1>0, <1>1, <1>3 DEF Consume
<1>4. CASE Empty
  <2>1. arr' = clear_method(arr).arr /\ last' = NoCall
    BY <1>4 DEF Empty
  <2> QED BY <1>0, <1>1, <2>1, MeanwhileKeeps
<1>5. CASE Iterate
  <2>1. last' = NoCall /\ arr' = arr
    BY <1>5 DEF Iterate, JSArrayProxy_iter, JSArrayProxy_iter_reverse
  <2> QED BY <1>0, <1>1, <2>1
<1>6. CASE \/ IterStep(JSArrayIterProxy_next) \/ IterStep(arrNextEnds) \/ IterStep(arrNextAgain)
           \/ IterStep(JSArrayIterProxy_dealloc)
  <2>1. arrIt.state # "none" /\ arr' = arr /\ last' = last
    BY <1>6 DEF IterStep, JSArrayIterProxy_next, arrNextEnds, arrNextAgain, JSArrayIterProxy_dealloc, arrIterVars
  <2> QED BY <1>0, <1>1, <2>1
<1>7. CASE Push
  <2>1. PICK v \in Values : Meanwhile(append(arr, v).arr)
    BY <1>7 DEF Push
  <2>2. arrIt.state # "none" /\ arr' = append(arr, v).arr /\ last' = last
    BY <2>1 DEF Meanwhile
  <2>3. arr' \in Arrays
    BY <1>0, <2>2, MeanwhileKeeps
  <2> QED BY <1>0, <1>1, <2>2, <2>3
<1>8. CASE Pop \/ Shift
  <2>1. arrIt.state # "none" /\ (arr' = pop(arr, -1).arr \/ arr' = pop(arr, 0).arr) /\ last' = last
    BY <1>8 DEF Pop, Shift, Meanwhile
  <2>2. -1 \in Int /\ 0 \in Int
    OBVIOUS
  <2>3. pop(arr, -1).arr \in Arrays /\ pop(arr, 0).arr \in Arrays
    BY <1>0, <2>2, MeanwhileKeeps
  <2> QED BY <1>0, <1>1, <2>1, <2>3
<1>9. CASE UNCHANGED vars
  <2>1. arr' = arr /\ arrIt' = arrIt /\ last' = last
    BY <1>9 DEF vars
  <2> QED BY <2>1 DEF ArrayOK, OperationsMeetStandard, Known, Grows
<1> QED BY <1>2, <1>3, <1>4, <1>5, <1>6, <1>7, <1>8, <1>9 DEF Next

\* Whatever the program does with a JavaScript Array as a Python list, every
\* operation leaves in the Array, and returns or raises, what Python's list does,
\* apart from the calls that Known names: for arrays and operands of any length,
\* any slices, and changes by JavaScript in between (src/src/JSArrayProxy.cc).
THEOREM ListsMeetStandard == Spec => []OperationsMeetStandard
<1>1. ArrayOK => OperationsMeetStandard
  BY DEF ArrayOK
<1> QED BY <1>1, ArrayStarts, ArrayKeeps, PTL DEF Spec
===================================================================================
