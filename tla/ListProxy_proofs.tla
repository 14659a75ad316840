---------------------------- MODULE ListProxy_proofs ----------------------------
(***************************************************************************)
(* What ListProxy promises for every list, every item and every program    *)
(* that calls the methods and changes the list from within its callbacks.  *)
(***************************************************************************)
EXTENDS ListProxy, SequenceTheorems, FiniteSetTheorems, WellFoundedInduction, TLAPS

-----------------------------------------------------------------------------
(* Induction, for facts about loops and sequences.                         *)

\* A set of natural numbers that is not empty has a least element.
LEMMA LeastNat ==
    ASSUME NEW T, T \subseteq Nat, T # {}
    PROVE  \E x \in T : \A y \in T : x <= y
<1> DEFINE R == OpToRel(<, Nat)
<1>0. IsWellFoundedOn(R, Nat)
  BY NatLessThanWellFounded
<1> HIDE DEF R
<1>1. \E x \in T : \A y \in T : ~(<<y, x>> \in R)
  BY <1>0, WFMin
<1>2. \A x, y \in Nat : x < y => <<x, y>> \in R
  BY DEF R, OpToRel
<1>3. PICK x \in T : \A y \in T : ~(<<y, x>> \in R)
  BY <1>1
<1>4. ASSUME NEW y \in T PROVE x <= y
  <2>1. x \in Nat /\ y \in Nat
    OBVIOUS
  <2>2. ~(y < x)
    BY <1>2, <1>3, <2>1
  <2> QED BY <2>1, <2>2
<1> QED BY <1>4

\* A set that holds 0 and the successor of each of its numbers holds them all.
LEMMA NatInd ==
    ASSUME NEW T, 0 \in T, \A n \in Nat : n \in T => n + 1 \in T
    PROVE  Nat \subseteq T
<1> SUFFICES ASSUME Nat \ T # {}
             PROVE  FALSE
  OBVIOUS
<1>1. PICK x \in Nat \ T : \A y \in Nat \ T : x <= y
  BY LeastNat
<1>2. x # 0 /\ x - 1 \in Nat
  BY <1>1
<1>3. x - 1 \in T
  BY <1>1, <1>2
<1>4. x - 1 + 1 \in T
  BY <1>2, <1>3
<1> QED BY <1>1, <1>4, <1>2

-----------------------------------------------------------------------------
(* How often an item occurs in a sequence.                                 *)

LEMMA SeqFacts ==
    ASSUME NEW S, NEW s \in Seq(S)
    PROVE  /\ Len(s) \in Nat /\ DOMAIN s = 1..Len(s)
           /\ \A i \in 1..Len(s) : s[i] \in S
           /\ s = [i \in 1..Len(s) |-> s[i]]
  BY LenProperties, ElementOfSeq

\* A function on 1..n is a sequence.
LEMMA IsSeq ==
    ASSUME NEW S, NEW n \in Nat, NEW s, DOMAIN s = 1..n, s = [i \in 1..n |-> s[i]],
           \A i \in 1..n : s[i] \in S
    PROVE  s \in Seq(S) /\ Len(s) = n
<1>1. s \in [1..n -> S]
  OBVIOUS
<1> QED BY <1>1, SMT

LEMMA CountFacts ==
    ASSUME NEW s \in Seq(Items), NEW x
    PROVE  /\ IsFiniteSet({i \in DOMAIN s : s[i] = x})
           /\ Count(s, x) \in Nat /\ Count(s, x) <= Len(s)
           /\ (\E i \in 1..Len(s) : s[i] = x) => Count(s, x) >= 1
           /\ (\A i \in 1..Len(s) : s[i] # x) => Count(s, x) = 0
<1> DEFINE P == {i \in DOMAIN s : s[i] = x}
<1>1. Len(s) \in Nat /\ DOMAIN s = 1..Len(s)
  BY SeqFacts
<1>2. IsFiniteSet(1..Len(s)) /\ Cardinality(1..Len(s)) = Len(s)
  BY <1>1, FS_Interval
<1>3. P \in SUBSET (1..Len(s))
  BY <1>1
<1>4. IsFiniteSet(P) /\ Cardinality(P) <= Len(s)
  BY <1>2, <1>3, FS_Subset
<1>5. Cardinality(P) \in Nat /\ (Cardinality(P) = 0 <=> P = {})
  BY <1>4, FS_CardinalityType, FS_EmptySet
<1>6. (\E i \in 1..Len(s) : s[i] = x) => P # {}
  BY <1>1
<1>7. (\A i \in 1..Len(s) : s[i] # x) => P = {}
  BY <1>1
<1>8. Count(s, x) = Cardinality(P)
  BY DEF Count
<1> HIDE DEF P
<1>9. IsFiniteSet({i \in DOMAIN s : s[i] = x})
  BY <1>4 DEF P
<1> QED BY <1>4, <1>5, <1>6, <1>7, <1>8, <1>9

LEMMA CountEmpty == \A x : Count(<<>>, x) = 0
<1> TAKE x
<1>1. <<>> \in Seq(Items)
  BY EmptySeq
<1>2. \A i \in 1..Len(<<>>) : <<>>[i] # x
  OBVIOUS
<1> QED BY <1>1, <1>2, CountFacts

\* One, if the two are the same; else none.
One(y, x) == IF y = x THEN 1 ELSE 0

LEMMA CountInt ==
    /\ \A s \in Seq(Items) : \A x : Count(s, x) \in Nat
    /\ \A x, y : One(x, y) \in 0..1
<1>1. \A x, y : One(x, y) \in 0..1
  BY DEF One
<1> QED BY <1>1, CountFacts

LEMMA CountExcept ==
    ASSUME NEW s \in Seq(Items), NEW i \in 1..Len(s), NEW y \in Items, NEW x
    PROVE  /\ [s EXCEPT ![i] = y] \in Seq(Items) /\ Len([s EXCEPT ![i] = y]) = Len(s)
           /\ Count([s EXCEPT ![i] = y], x) = Count(s, x) - One(s[i], x) + One(y, x)
<1> DEFINE P == {j \in DOMAIN s : s[j] = x}
           t == [s EXCEPT ![i] = y]
           Q == {j \in DOMAIN t : t[j] = x}
           Rest == P \ {i}
<1>1. Len(s) \in Nat /\ DOMAIN s = 1..Len(s)
  BY SeqFacts
<1>2. t \in Seq(Items) /\ Len(t) = Len(s) /\ DOMAIN t = DOMAIN s
  BY ExceptSeq, <1>1
<1>3. \A j \in DOMAIN s : t[j] = IF j = i THEN y ELSE s[j]
  OBVIOUS
<1>4. IsFiniteSet(P) /\ Cardinality(P) \in Nat
  BY CountFacts, FS_CardinalityType
<1>5. /\ IsFiniteSet(Rest)
      /\ Cardinality(Rest) = IF i \in P THEN Cardinality(P) - 1 ELSE Cardinality(P)
  BY <1>4, FS_RemoveElement
<1>6. /\ Cardinality(Rest \cup {i}) = Cardinality(Rest) + 1
  <2>1. i \notin Rest
    OBVIOUS
  <2> QED BY <1>5, <2>1, FS_AddElement
<1>7. i \in P <=> s[i] = x
  BY <1>1
<1>8. Q = IF y = x THEN Rest \cup {i} ELSE Rest
  BY <1>1, <1>2, <1>3
<1>9. Count(s, x) = Cardinality(P) /\ Count(t, x) = Cardinality(Q)
  BY DEF Count
<1> HIDE DEF P, Q, Rest, t
<1>10. Count(t, x) = Count(s, x) - One(s[i], x) + One(y, x)
  BY <1>4, <1>5, <1>6, <1>7, <1>8, <1>9 DEF One
<1> QED BY <1>2, <1>10 DEF t

\* Sets that correspond one to one have the same size.
LEMMA SameSize ==
    ASSUME NEW P, NEW Q, NEW p, IsFiniteSet(P), p \in [P -> Q],
           \A i, j \in P : p[i] = p[j] => i = j,
           \A j \in Q : \E i \in P : p[i] = j
    PROVE  IsFiniteSet(Q) /\ Cardinality(P) = Cardinality(Q) /\ Cardinality(P) \in Nat
<1>1. p \in Bijection(P, Q)
  BY DEF Bijection, Injection, Surjection, IsInjective
<1>2. ExistsBijection(P, Q)
  BY <1>1 DEF ExistsBijection
<1> QED BY <1>2, FS_Bijection, FS_CardinalityType

LEMMA CountConcat ==
    ASSUME NEW s \in Seq(Items), NEW t \in Seq(Items), NEW x
    PROVE  s \o t \in Seq(Items) /\ Len(s \o t) = Len(s) + Len(t)
           /\ Count(s \o t, x) = Count(s, x) + Count(t, x)
<1> DEFINE n == Len(s)
           m == Len(t)
           u == s \o t
           B == (n + 1)..(n + m)
           p == [i \in {i \in 1..m : t[i] = x} |-> n + i]
           P == {i \in 1..n : s[i] = x}
           T == {i \in 1..m : t[i] = x}
           Q == {j \in B : u[j] = x}
<1>1. n \in Nat /\ m \in Nat /\ DOMAIN s = 1..n /\ DOMAIN t = 1..m
  BY SeqFacts
<1>2. /\ u \in Seq(Items) /\ Len(u) = n + m /\ DOMAIN u = 1..(n + m)
      /\ \A i \in 1..(n + m) : u[i] = IF i <= n THEN s[i] ELSE t[i - n]
  BY ConcatProperties, SeqFacts
<1>3. p \in [T -> Q] /\ \A i, j \in T : p[i] = p[j] => i = j
  BY <1>1, <1>2
<1>4. \A j \in Q : \E i \in T : p[i] = j
  <2> TAKE j \in Q
  <2>1. j - n \in T /\ p[j - n] = j
    BY <1>1, <1>2
  <2> QED BY <2>1
<1>5. IsFiniteSet(T) /\ IsFiniteSet(Q) /\ Cardinality(T) = Cardinality(Q) /\ Cardinality(T) \in Nat
  <2>1. IsFiniteSet(T)
    BY <1>1, CountFacts
  <2> HIDE DEF p, T, Q
  <2> QED BY <1>3, <1>4, <2>1, SameSize
<1>6. IsFiniteSet(P) /\ Cardinality(P) \in Nat
  BY <1>1, CountFacts, FS_CardinalityType
<1>7. P \cap Q = {}
  BY <1>1
<1>8. Cardinality(P \cup Q) = Cardinality(P) + Cardinality(Q)
  <2>1. Cardinality(P \cup Q) = Cardinality(P) + Cardinality(Q) - Cardinality(P \cap Q)
    <3> HIDE DEF P, Q
    <3> QED BY <1>5, <1>6, FS_Union
  <2>2. Cardinality(P \cap Q) = 0
    BY <1>7, FS_EmptySet
  <2> HIDE DEF P, Q, T
  <2> QED BY <1>5, <1>6, <2>1, <2>2
<1>9. {i \in DOMAIN u : u[i] = x} = P \cup Q
  BY <1>1, <1>2
<1>10. /\ Count(s, x) = Cardinality(P) /\ Count(t, x) = Cardinality(T)
       /\ Count(u, x) = Cardinality(P \cup Q)
  BY <1>1, <1>9 DEF Count
<1> HIDE DEF P, Q, T, u, n, m
<1>11. Count(u, x) = Count(s, x) + Count(t, x)
  BY <1>5, <1>8, <1>10
<1> QED BY <1>2, <1>11 DEF u, n, m

LEMMA CountOne ==
    ASSUME NEW y \in Items, NEW x
    PROVE  <<y>> \in Seq(Items) /\ Len(<<y>>) = 1 /\ Count(<<y>>, x) = One(y, x)
<1>1. <<y>> \in Seq(Items) /\ Len(<<y>>) = 1 /\ DOMAIN <<y>> = {1} /\ <<y>>[1] = y
  OBVIOUS
<1> DEFINE P == {i \in DOMAIN <<y>> : <<y>>[i] = x}
<1>2. P = IF y = x THEN {1} ELSE {}
  BY <1>1
<1>3. Cardinality(P) = One(y, x)
  <2> HIDE DEF P
  <2> QED BY <1>2, FS_Singleton, FS_EmptySet DEF One
<1>4. Count(<<y>>, x) = Cardinality(P)
  BY DEF Count
<1> QED BY <1>1, <1>3, <1>4

LEMMA CountAppend ==
    ASSUME NEW s \in Seq(Items), NEW y \in Items, NEW x
    PROVE  Append(s, y) \in Seq(Items) /\ Len(Append(s, y)) = Len(s) + 1
           /\ Count(Append(s, y), x) = Count(s, x) + One(y, x)
<1>1. Append(s, y) = s \o <<y>>
  BY AppendIsConcat
<1>2. <<y>> \in Seq(Items) /\ Len(<<y>>) = 1 /\ Count(<<y>>, x) = One(y, x)
  BY CountOne
<1> DEFINE t == <<y>>
<1> HIDE DEF t
<1>3. s \o t \in Seq(Items) /\ Len(s \o t) = Len(s) + Len(t) /\ Count(s \o t, x) = Count(s, x) + Count(t, x)
  BY <1>2, CountConcat DEF t
<1> QED BY <1>1, <1>2, <1>3 DEF t

LEMMA CountReverse ==
    ASSUME NEW s \in Seq(Items), NEW x
    PROVE  /\ Reverse(s) \in Seq(Items) /\ Len(Reverse(s)) = Len(s)
           /\ Count(Reverse(s), x) = Count(s, x)
<1> DEFINE n == Len(s)
           t == Reverse(s)
           P == {i \in DOMAIN s : s[i] = x}
           Q == {i \in DOMAIN t : t[i] = x}
           p == [i \in P |-> n + 1 - i]
<1>1. n \in Nat /\ DOMAIN s = 1..n /\ \A i \in 1..n : s[i] \in Items
  BY SeqFacts
<1>2. t = [i \in 1..n |-> s[(n - i) + 1]]
  BY DEF Reverse
<1>3. DOMAIN t = 1..n /\ \A i \in 1..n : t[i] \in Items /\ t[i] = s[n + 1 - i]
  BY <1>1, <1>2
<1>4. t \in Seq(Items) /\ Len(t) = n
  <2> HIDE DEF n, t
  <2> QED BY <1>1, <1>2, <1>3, IsSeq
<1>5. p \in [P -> Q] /\ \A i, j \in P : p[i] = p[j] => i = j
  BY <1>1, <1>3
<1>6. \A j \in Q : \E i \in P : p[i] = j
  <2> TAKE j \in Q
  <2>1. n + 1 - j \in P /\ p[n + 1 - j] = j
    BY <1>1, <1>3
  <2> QED BY <2>1
<1>7. Cardinality(P) = Cardinality(Q)
  <2>1. IsFiniteSet(P)
    BY CountFacts
  <2> HIDE DEF p, P, Q
  <2> HIDE DEF n, t
  <2>2. p \in [P -> Q]
    BY <1>5
  <2>3. \A i, j \in P : p[i] = p[j] => i = j
    BY <1>5
  <2>4. IsFiniteSet(Q) /\ Cardinality(P) = Cardinality(Q) /\ Cardinality(P) \in Nat
    BY <1>6, <2>1, <2>2, <2>3, SameSize, SMTT(30)
  <2> QED BY <2>4
<1>8. Count(t, x) = Count(s, x)
  BY <1>7 DEF Count
<1> QED BY <1>4, <1>8

LEMMA SubSeqFacts ==
    ASSUME NEW s \in Seq(Items), NEW a \in 1..(Len(s) + 1), NEW b \in Int, b <= Len(s)
    PROVE  /\ SubSeq(s, a, b) \in Seq(Items)
           /\ Len(SubSeq(s, a, b)) = IF a <= b THEN b - a + 1 ELSE 0
           /\ \A i \in 1..(b - a + 1) : SubSeq(s, a, b)[i] = s[a + i - 1]
<1>1. Len(s) \in Nat /\ \A i \in 1..Len(s) : s[i] \in Items
  BY SeqFacts
<1>2. \A i \in a..b : s[i] \in Items
  BY <1>1
<1>3. a \in Int
  BY <1>1
<1> QED BY <1>2, <1>3, SubSeqProperties

\* A sequence in two parts.
LEMMA CountSplit ==
    ASSUME NEW s \in Seq(Items), NEW a \in 0..Len(s), NEW x
    PROVE  /\ SubSeq(s, 1, a) \in Seq(Items) /\ SubSeq(s, a + 1, Len(s)) \in Seq(Items)
           /\ Count(s, x) = Count(SubSeq(s, 1, a), x) + Count(SubSeq(s, a + 1, Len(s)), x)
<1>1. Len(s) \in Nat
  BY SeqFacts
<1>2. SubSeq(s, 1, a) \in Seq(Items) /\ SubSeq(s, a + 1, Len(s)) \in Seq(Items)
  BY <1>1, SubSeqFacts
<1>3. SubSeq(s, 1, a) \o SubSeq(s, a + 1, Len(s)) = s
  <2>1. CASE Len(s) = 0
    <3>1. s = <<>>
      BY <2>1, EmptySeq
    <3> QED BY <2>1, <3>1, SMT
  <2>2. CASE Len(s) > 0
    <3>1. SubSeq(s, 1, a) \o SubSeq(s, a + 1, Len(s)) = SubSeq(s, 1, Len(s))
      <4>1. 1 \in 1..Len(s) + 1 /\ a \in (1 - 1)..Len(s) /\ Len(s) \in a..Len(s)
        BY <1>1
      <4> QED BY <4>1, ConcatAdjacentSubSeq
    <3> QED BY <3>1, SubSeqFull
  <2>3. Len(s) = 0 \/ Len(s) > 0
    BY <1>1
  <2> QED BY <2>1, <2>2, <2>3
<1>4. Count(SubSeq(s, 1, a) \o SubSeq(s, a + 1, Len(s)), x)
        = Count(SubSeq(s, 1, a), x) + Count(SubSeq(s, a + 1, Len(s)), x)
  <2> DEFINE head == SubSeq(s, 1, a)
             tail == SubSeq(s, a + 1, Len(s))
  <2>1. head \in Seq(Items) /\ tail \in Seq(Items)
    BY <1>2
  <2> HIDE DEF head, tail
  <2>2. Count(head \o tail, x) = Count(head, x) + Count(tail, x)
    BY <2>1, CountConcat
  <2> QED BY <2>2 DEF head, tail
<1> QED BY <1>2, <1>3, <1>4

\* A sequence in three parts.
LEMMA CountThree ==
    ASSUME NEW s \in Seq(Items), NEW a \in 0..Len(s), NEW b \in a..Len(s), NEW x
    PROVE  /\ SubSeq(s, 1, a) \in Seq(Items) /\ SubSeq(s, a + 1, b) \in Seq(Items)
           /\ SubSeq(s, b + 1, Len(s)) \in Seq(Items)
           /\ Count(s, x) = Count(SubSeq(s, 1, a), x) + Count(SubSeq(s, a + 1, b), x)
                              + Count(SubSeq(s, b + 1, Len(s)), x)
<1>1. Len(s) \in Nat /\ b \in 0..Len(s) /\ a \in Nat /\ b \in Nat
  BY SeqFacts
<1>2. /\ SubSeq(s, 1, b) \in Seq(Items) /\ SubSeq(s, b + 1, Len(s)) \in Seq(Items)
      /\ Count(s, x) = Count(SubSeq(s, 1, b), x) + Count(SubSeq(s, b + 1, Len(s)), x)
  BY <1>1, CountSplit
<1> DEFINE t == SubSeq(s, 1, b)
<1>3. Len(t) = b /\ \A i \in 1..b : t[i] = s[i]
  BY <1>1, SubSeqFacts
<1>4. SubSeq(t, 1, a) = SubSeq(s, 1, a) /\ SubSeq(t, a + 1, b) = SubSeq(s, a + 1, b)
  <2>1. Len(SubSeq(t, 1, a)) = a /\ Len(SubSeq(s, 1, a)) = a
        /\ SubSeq(t, 1, a) \in Seq(Items) /\ SubSeq(s, 1, a) \in Seq(Items)
        /\ \A i \in 1..a : SubSeq(t, 1, a)[i] = t[i] /\ SubSeq(s, 1, a)[i] = s[i]
    <3> HIDE DEF t
    <3> QED BY <1>1, <1>2, <1>3, SubSeqFacts DEF t
  <2>2. /\ Len(SubSeq(t, a + 1, b)) = b - a /\ Len(SubSeq(s, a + 1, b)) = b - a
        /\ SubSeq(t, a + 1, b) \in Seq(Items) /\ SubSeq(s, a + 1, b) \in Seq(Items)
        /\ \A i \in 1..(b - a) : /\ SubSeq(t, a + 1, b)[i] = t[a + i]
                                 /\ SubSeq(s, a + 1, b)[i] = s[a + i]
    <3>1. t \in Seq(Items) /\ a + 1 \in 1..Len(t) + 1 /\ a + 1 \in 1..Len(s) + 1
      BY <1>1, <1>2, <1>3
    <3> HIDE DEF t
    <3> QED BY <1>1, <1>3, <3>1, SubSeqFacts
  <2>3. SubSeq(t, 1, a) = SubSeq(s, 1, a)
    <3> HIDE DEF t
    <3> QED BY <1>1, <1>3, <2>1, SeqEqual
  <2>4. SubSeq(t, a + 1, b) = SubSeq(s, a + 1, b)
    <3> HIDE DEF t
    <3>1. \A i \in 1..(b - a) : a + i \in 1..b
      BY <1>1
    <3> QED BY <1>1, <1>3, <2>2, <3>1, SeqEqual
  <2> QED BY <2>3, <2>4
<1>5. /\ SubSeq(t, 1, a) \in Seq(Items) /\ SubSeq(t, a + 1, Len(t)) \in Seq(Items)
      /\ Count(t, x) = Count(SubSeq(t, 1, a), x) + Count(SubSeq(t, a + 1, Len(t)), x)
  <2>1. t \in Seq(Items) /\ a \in 0..Len(t)
    BY <1>1, <1>2, <1>3
  <2> HIDE DEF t
  <2> QED BY <2>1, CountSplit
<1> QED BY <1>2, <1>3, <1>4, <1>5

-----------------------------------------------------------------------------
(* The body of a loop, done once for each k in 1..n: where it leads, and   *)
(* that a claim about each turn holds at the end if the body keeps it.     *)

\* Step k leads from D[k - 1] into D[k].
Leads(n, D, G) == \A k \in 1..n : \A g \in D[k - 1] : G[k][g] \in D[k]
\* f goes from h by the steps.
Path(f, n, h, G) == f = [k \in 0..n |-> IF k = 0 THEN h ELSE G[k][f[k - 1]]]
Stays(f, n, D) == \A k \in 0..n : f[k] \in D[k]

LEMMA LoopExists ==
    ASSUME NEW n \in Nat, NEW h, NEW D, NEW G, h \in D[0], Leads(n, D, G)
    PROVE  \E f : Path(f, n, h, G) /\ Stays(f, n, D)
<1> DEFINE Course(f, m) == /\ f = [k \in 0..m |-> IF k = 0 THEN h ELSE G[k][f[k - 1]]]
                           /\ \A k \in 0..m : f[k] \in D[k]
           T == {m \in Nat : m <= n => \E f : Course(f, m)}
<1>1. 0 \in T
  <2> DEFINE f == [k \in 0..0 |-> h]
  <2>1. f = [k \in 0..0 |-> IF k = 0 THEN h ELSE G[k][f[k - 1]]]
    OBVIOUS
  <2>2. \A k \in 0..0 : f[k] \in D[k]
    OBVIOUS
  <2> QED BY <2>1, <2>2
<1>2. ASSUME NEW m \in Nat, m \in T PROVE m + 1 \in T
  <2> SUFFICES ASSUME m + 1 <= n
               PROVE  \E f : Course(f, m + 1)
    OBVIOUS
  <2>1. PICK f : Course(f, m)
    BY <1>2
  <2> DEFINE g == [k \in 0..(m + 1) |-> IF k <= m THEN f[k] ELSE G[m + 1][f[m]]]
  <2>2. g = [k \in 0..(m + 1) |-> IF k = 0 THEN h ELSE G[k][g[k - 1]]]
    <3>1. f[0] = h /\ \A k \in 1..m : f[k] = G[k][f[k - 1]]
      BY <2>1
    <3>2. /\ g = [k \in 0..(m + 1) |-> g[k]]
          /\ \A k \in 0..m : g[k] = f[k]
          /\ g[m + 1] = G[m + 1][f[m]]
      OBVIOUS
    <3> HIDE DEF g
    <3>3. ASSUME NEW k \in 0..(m + 1) PROVE g[k] = IF k = 0 THEN h ELSE G[k][g[k - 1]]
      <4>1. CASE k = 0
        <5>1. k \in 0..m /\ f[k] = h
          BY <3>1, <4>1
        <5>2. g[k] = h
          BY <3>2, <5>1
        <5> QED BY <4>1, <5>2
      <4>2. CASE k \in 1..m
        <5>1. k \in 0..m /\ k - 1 \in 0..m /\ k # 0
          BY <4>2
        <5> QED BY <3>1, <3>2, <4>2, <5>1
      <4>3. CASE k = m + 1
        <5>1. k # 0 /\ k - 1 = m /\ m \in 0..m
          BY <4>3
        <5>2. g[m] = f[m]
          BY <3>2, <5>1
        <5> QED BY <3>2, <4>3, <5>1, <5>2
      <4> QED BY <4>1, <4>2, <4>3
    <3> QED BY <3>2, <3>3
  <2>3. \A k \in 0..(m + 1) : g[k] \in D[k]
    <3>1. m + 1 \in 1..n /\ f[m] \in D[(m + 1) - 1]
      BY <2>1
    <3>2. G[m + 1][f[m]] \in D[m + 1]
      BY <3>1 DEF Leads
    <3> QED BY <2>1, <3>2
  <2>4. Course(g, m + 1)
    BY <2>2, <2>3
  <2> HIDE DEF g, Course
  <2> QED BY <2>4
<1>3. n \in T
  <2> HIDE DEF T
  <2> QED BY <1>1, <1>2, NatInd
<1> QED BY <1>3 DEF Path, Stays

\* What every step keeps holds after every step.
LEMMA LoopKeeps ==
    ASSUME NEW n \in Nat, NEW f, NEW D, f[0] \in D[0],
           \A k \in 1..n : f[k - 1] \in D[k - 1] => f[k] \in D[k]
    PROVE  \A k \in 0..n : f[k] \in D[k]
<1> DEFINE T == {m \in Nat : m <= n => f[m] \in D[m]}
<1>1. 0 \in T
  OBVIOUS
<1>2. ASSUME NEW m \in Nat, m \in T PROVE m + 1 \in T
  <2> SUFFICES ASSUME m + 1 <= n PROVE f[m + 1] \in D[m + 1]
    OBVIOUS
  <2>1. m + 1 \in 1..n /\ (m + 1) - 1 = m /\ f[m] \in D[m]
    BY <1>2
  <2> QED BY <2>1
<1>3. Nat \subseteq T
  <2> HIDE DEF T
  <2> QED BY <1>1, <1>2, NatInd
<1> QED BY <1>3

-----------------------------------------------------------------------------
(* A heap, and what the operations of the C API do to it.                  *)

Heaps(v) == [list : Seq(Items), refs : [Items -> Int], out : Seq(Items), ret : {v}, freed : BOOLEAN]
IsHeap(h) == h \in Heaps(h.ret)

\* References to x beyond those for its places in the two lists.
Spare(h, x) == h.refs[x] - Count(h.list, x) - Count(h.out, x)
SameSpare(g, h) == \A x \in Items : Spare(g, x) = Spare(h, x)

LEMMA HeapFacts ==
    ASSUME NEW h, IsHeap(h)
    PROVE  /\ h.list \in Seq(Items) /\ h.out \in Seq(Items) /\ h.freed \in BOOLEAN
           /\ h.refs \in [Items -> Int]
           /\ Len(h.list) \in Nat /\ Size(h) = Len(h.list)
           /\ \A x \in Items : /\ h.refs[x] \in Int /\ Spare(h, x) \in Int
                               /\ Count(h.list, x) \in Nat /\ Count(h.out, x) \in Nat
<1>1. /\ h.list \in Seq(Items) /\ h.out \in Seq(Items) /\ h.freed \in BOOLEAN
      /\ h.refs \in [Items -> Int]
  BY DEF IsHeap, Heaps
<1>2. \A x \in Items : Count(h.list, x) \in Nat /\ Count(h.out, x) \in Nat
  BY <1>1, CountFacts
<1>3. Len(h.list) \in Nat
  BY <1>1, SeqFacts
<1> QED BY <1>1, <1>2, <1>3 DEF Size, Spare

LEMMA IncrefFacts ==
    ASSUME NEW h, IsHeap(h), NEW x \in Items
    PROVE  /\ IsHeap(Incref(h, x)) /\ Incref(h, x).list = h.list /\ Incref(h, x).out = h.out
           /\ Incref(h, x).ret = h.ret /\ Incref(h, x).freed = h.freed
           /\ \A y \in Items : /\ Incref(h, x).refs[y] = h.refs[y] + One(x, y)
                               /\ Spare(Incref(h, x), y) = Spare(h, y) + One(x, y)
<1> DEFINE r == [h.refs EXCEPT ![x] = h.refs[x] + 1]
           g == [h EXCEPT !.refs = r]
<1>1. h \in Heaps(h.ret) /\ h.refs \in [Items -> Int]
  BY DEF IsHeap, Heaps
<1>2. Incref(h, x) = g
  BY <1>1 DEF Incref, Heaps
<1>3. r \in [Items -> Int] /\ \A y \in Items : r[y] = h.refs[y] + One(x, y)
  BY <1>1 DEF One
<1> HIDE DEF r
<1>4. /\ g \in Heaps(h.ret) /\ g.list = h.list /\ g.out = h.out /\ g.ret = h.ret
      /\ g.freed = h.freed /\ g.refs = r
  BY <1>1, <1>3 DEF Heaps
<1> HIDE DEF g
<1>5. ASSUME NEW y \in Items PROVE Spare(g, y) = Spare(h, y) + One(x, y)
  <2>1. /\ h.refs[y] \in Int /\ Count(h.list, y) \in Nat /\ Count(h.out, y) \in Nat
        /\ One(x, y) \in Int
    BY HeapFacts DEF One
  <2> QED BY <1>3, <1>4, <2>1 DEF Spare
<1> QED BY <1>2, <1>3, <1>4, <1>5 DEF IsHeap

LEMMA DecrefFacts ==
    ASSUME NEW h, IsHeap(h), NEW x \in Items
    PROVE  /\ IsHeap(Decref(h, x)) /\ Decref(h, x).list = h.list /\ Decref(h, x).out = h.out
           /\ Decref(h, x).ret = h.ret /\ Decref(h, x).freed = h.freed
           /\ \A y \in Items : /\ Decref(h, x).refs[y] = h.refs[y] - One(x, y)
                               /\ Spare(Decref(h, x), y) = Spare(h, y) - One(x, y)
<1> DEFINE r == [h.refs EXCEPT ![x] = h.refs[x] - 1]
           g == [h EXCEPT !.refs = r]
<1>1. h \in Heaps(h.ret) /\ h.refs \in [Items -> Int]
  BY DEF IsHeap, Heaps
<1>2. Decref(h, x) = g
  BY <1>1 DEF Decref, Heaps
<1>3. r \in [Items -> Int] /\ \A y \in Items : r[y] = h.refs[y] - One(x, y)
  BY <1>1 DEF One
<1> HIDE DEF r
<1>4. /\ g \in Heaps(h.ret) /\ g.list = h.list /\ g.out = h.out /\ g.ret = h.ret
      /\ g.freed = h.freed /\ g.refs = r
  BY <1>1, <1>3 DEF Heaps
<1> HIDE DEF g
<1>5. ASSUME NEW y \in Items PROVE Spare(g, y) = Spare(h, y) - One(x, y)
  <2>1. /\ h.refs[y] \in Int /\ Count(h.list, y) \in Nat /\ Count(h.out, y) \in Nat
        /\ One(x, y) \in Int
    BY HeapFacts DEF One
  <2> QED BY <1>3, <1>4, <2>1 DEF Spare
<1> QED BY <1>2, <1>3, <1>4, <1>5 DEF IsHeap

\* The list is replaced, and nothing else.
LEMMA NewListFacts ==
    ASSUME NEW h, IsHeap(h), NEW s \in Seq(Items)
    PROVE  /\ IsHeap([h EXCEPT !.list = s]) /\ [h EXCEPT !.list = s].list = s
           /\ [h EXCEPT !.list = s].out = h.out /\ [h EXCEPT !.list = s].ret = h.ret
           /\ [h EXCEPT !.list = s].freed = h.freed /\ [h EXCEPT !.list = s].refs = h.refs
           /\ \A y \in Items : Spare([h EXCEPT !.list = s], y)
                                 = Spare(h, y) + Count(h.list, y) - Count(s, y)
<1> DEFINE g == [h EXCEPT !.list = s]
<1>1. h \in Heaps(h.ret)
  BY DEF IsHeap
<1>2. /\ g \in Heaps(h.ret) /\ g.list = s /\ g.out = h.out /\ g.ret = h.ret
      /\ g.freed = h.freed /\ g.refs = h.refs
  BY <1>1 DEF Heaps
<1> HIDE DEF g
<1>3. ASSUME NEW y \in Items
      PROVE  Spare(g, y) = Spare(h, y) + Count(h.list, y) - Count(s, y)
  <2>1. /\ h.refs[y] \in Int /\ Count(h.list, y) \in Nat /\ Count(h.out, y) \in Nat
        /\ Count(s, y) \in Nat
    BY HeapFacts, CountFacts
  <2> QED BY <1>2, <2>1 DEF Spare
<1> QED BY <1>2, <1>3 DEF g, IsHeap

LEMMA NewOutFacts ==
    ASSUME NEW h, IsHeap(h), NEW s \in Seq(Items)
    PROVE  /\ IsHeap([h EXCEPT !.out = s]) /\ [h EXCEPT !.out = s].list = h.list
           /\ [h EXCEPT !.out = s].out = s /\ [h EXCEPT !.out = s].ret = h.ret
           /\ [h EXCEPT !.out = s].freed = h.freed /\ [h EXCEPT !.out = s].refs = h.refs
           /\ \A y \in Items : Spare([h EXCEPT !.out = s], y)
                                 = Spare(h, y) + Count(h.out, y) - Count(s, y)
<1> DEFINE g == [h EXCEPT !.out = s]
<1>1. h \in Heaps(h.ret)
  BY DEF IsHeap
<1>2. /\ g \in Heaps(h.ret) /\ g.list = h.list /\ g.out = s /\ g.ret = h.ret
      /\ g.freed = h.freed /\ g.refs = h.refs
  BY <1>1 DEF Heaps
<1> HIDE DEF g
<1>3. ASSUME NEW y \in Items
      PROVE  Spare(g, y) = Spare(h, y) + Count(h.out, y) - Count(s, y)
  <2>1. /\ h.refs[y] \in Int /\ Count(h.list, y) \in Nat /\ Count(h.out, y) \in Nat
        /\ Count(s, y) \in Nat
    BY HeapFacts, CountFacts
  <2> QED BY <1>2, <2>1 DEF Spare
<1> QED BY <1>2, <1>3 DEF g, IsHeap

LEMMA HoldFacts ==
    ASSUME NEW h, IsHeap(h), NEW s \in Seq(Items)
    PROVE  /\ IsHeap(Hold(h, s)) /\ Hold(h, s).list = h.list /\ Hold(h, s).out = h.out
           /\ Hold(h, s).ret = h.ret /\ Hold(h, s).freed = h.freed
           /\ \A y \in Items : Spare(Hold(h, s), y) = Spare(h, y) + Count(s, y)
<1> DEFINE r == [y \in Items |-> h.refs[y] + Count(s, y)]
           g == [h EXCEPT !.refs = r]
<1>1. h \in Heaps(h.ret)
  BY DEF IsHeap
<1>2. Hold(h, s) = g
  BY <1>1 DEF Hold, Heaps
<1>3. ASSUME NEW y \in Items
      PROVE  r[y] = h.refs[y] + Count(s, y) /\ Count(s, y) \in Nat /\ r[y] \in Int
  <2>1. h.refs[y] \in Int /\ Count(s, y) \in Nat
    BY HeapFacts, CountFacts
  <2> QED BY <2>1
<1>4. r \in [Items -> Int]
  BY <1>3
<1> HIDE DEF r
<1>5. /\ g \in Heaps(h.ret) /\ g.list = h.list /\ g.out = h.out /\ g.ret = h.ret
      /\ g.freed = h.freed /\ g.refs = r
  BY <1>1, <1>4 DEF Heaps
<1> HIDE DEF g
<1>6. ASSUME NEW y \in Items PROVE Spare(g, y) = Spare(h, y) + Count(s, y)
  <2>1. h.refs[y] \in Int /\ Count(h.list, y) \in Nat /\ Count(h.out, y) \in Nat
    BY HeapFacts
  <2> QED BY <1>3, <1>5, <2>1 DEF Spare
<1> QED BY <1>2, <1>5, <1>6 DEF IsHeap

LEMMA DropFacts ==
    ASSUME NEW h, IsHeap(h), NEW s \in Seq(Items)
    PROVE  /\ IsHeap(Drop(h, s)) /\ Drop(h, s).list = h.list /\ Drop(h, s).out = h.out
           /\ Drop(h, s).ret = h.ret /\ Drop(h, s).freed = h.freed
           /\ \A y \in Items : Spare(Drop(h, s), y) = Spare(h, y) - Count(s, y)
<1> DEFINE r == [y \in Items |-> h.refs[y] - Count(s, y)]
           g == [h EXCEPT !.refs = r]
<1>1. h \in Heaps(h.ret)
  BY DEF IsHeap
<1>2. Drop(h, s) = g
  BY <1>1 DEF Drop, Heaps
<1>3. ASSUME NEW y \in Items
      PROVE  r[y] = h.refs[y] - Count(s, y) /\ Count(s, y) \in Nat /\ r[y] \in Int
  <2>1. h.refs[y] \in Int /\ Count(s, y) \in Nat
    BY HeapFacts, CountFacts
  <2> QED BY <2>1
<1>4. r \in [Items -> Int]
  BY <1>3
<1> HIDE DEF r
<1>5. /\ g \in Heaps(h.ret) /\ g.list = h.list /\ g.out = h.out /\ g.ret = h.ret
      /\ g.freed = h.freed /\ g.refs = r
  BY <1>1, <1>4 DEF Heaps
<1> HIDE DEF g
<1>6. ASSUME NEW y \in Items PROVE Spare(g, y) = Spare(h, y) - Count(s, y)
  <2>1. h.refs[y] \in Int /\ Count(h.list, y) \in Nat /\ Count(h.out, y) \in Nat
    BY HeapFacts
  <2> QED BY <1>3, <1>5, <2>1 DEF Spare
<1> QED BY <1>2, <1>5, <1>6 DEF IsHeap

LEMMA ReturnFacts ==
    ASSUME NEW h, IsHeap(h), NEW v
    PROVE  /\ IsHeap(Return(h, v)) /\ Return(h, v).list = h.list /\ Return(h, v).out = h.out
           /\ Return(h, v).ret = v /\ Return(h, v).freed = h.freed /\ SameSpare(Return(h, v), h)
<1> DEFINE g == Return(h, v)
<1>1. h \in Heaps(h.ret)
  BY DEF IsHeap
<1>2. /\ g \in Heaps(v) /\ g.list = h.list /\ g.out = h.out /\ g.ret = v
      /\ g.freed = h.freed /\ g.refs = h.refs
  BY <1>1 DEF Heaps, Return
<1> HIDE DEF g
<1>3. SameSpare(g, h)
  BY <1>2 DEF SameSpare, Spare
<1> QED BY <1>2, <1>3 DEF g, IsHeap

LEMMA ToJSFacts ==
    ASSUME NEW h, IsHeap(h), NEW x
    PROVE  /\ IsHeap(ToJS(h, x)) /\ ToJS(h, x).list = h.list /\ ToJS(h, x).out = h.out
           /\ ToJS(h, x).ret = x /\ ToJS(h, x).freed = (h.freed \/ h.refs[x] = 0)
           /\ SameSpare(ToJS(h, x), h)
<1> DEFINE b == h.freed \/ h.refs[x] = 0
           g == [h EXCEPT !.ret = x, !.freed = b]
<1>1. h \in Heaps(h.ret)
  BY DEF IsHeap
<1>2. ToJS(h, x) = g /\ b \in BOOLEAN
  BY <1>1 DEF ToJS, Heaps
<1> HIDE DEF b
<1>3. /\ g \in Heaps(x) /\ g.list = h.list /\ g.out = h.out /\ g.ret = x
      /\ g.freed = b /\ g.refs = h.refs
  BY <1>1, <1>2 DEF Heaps
<1> HIDE DEF g
<1>4. SameSpare(g, h)
  BY <1>3 DEF SameSpare, Spare
<1> QED BY <1>2, <1>3, <1>4 DEF b, IsHeap

-----------------------------------------------------------------------------
(* The operations on lists.                                                *)

LEMMA SetItemFacts ==
    ASSUME NEW h, IsHeap(h), NEW i \in 0..(Len(h.list) - 1), NEW x \in Items
    PROVE  /\ IsHeap(SetItem(h, i, x)) /\ SetItem(h, i, x).list = [h.list EXCEPT ![i + 1] = x]
           /\ Len(SetItem(h, i, x).list) = Len(h.list)
           /\ SetItem(h, i, x).out = h.out /\ SetItem(h, i, x).ret = h.ret
           /\ SetItem(h, i, x).freed = h.freed
           /\ \A y \in Items : Spare(SetItem(h, i, x), y) = Spare(h, y) - One(x, y)
<1> DEFINE s == [h.list EXCEPT ![i + 1] = x]
           old == h.list[i + 1]
           g == [h EXCEPT !.list = s]
<1>1. h.list \in Seq(Items) /\ Len(h.list) \in Nat /\ i + 1 \in 1..Len(h.list) /\ old \in Items
  <2>1. h.list \in Seq(Items) /\ Len(h.list) \in Nat
    BY HeapFacts
  <2>2. i + 1 \in 1..Len(h.list)
    BY <2>1
  <2> QED BY <2>1, <2>2, SeqFacts
<1>2. SetItem(h, i, x) = Decref(g, old)
  BY DEF SetItem, GetItem, IsHeap, Heaps
<1>3. /\ s \in Seq(Items) /\ Len(s) = Len(h.list)
      /\ \A y \in Items : Count(s, y) = Count(h.list, y) - One(old, y) + One(x, y)
  BY <1>1, CountExcept
<1> HIDE DEF s, old
<1>4. /\ IsHeap(g) /\ g.list = s /\ g.out = h.out /\ g.ret = h.ret /\ g.freed = h.freed
      /\ \A y \in Items : Spare(g, y) = Spare(h, y) + Count(h.list, y) - Count(s, y)
  BY <1>3, NewListFacts
<1> HIDE DEF g
<1>5. /\ IsHeap(Decref(g, old)) /\ Decref(g, old).list = s /\ Decref(g, old).out = h.out
      /\ Decref(g, old).ret = h.ret /\ Decref(g, old).freed = h.freed
      /\ \A y \in Items : Spare(Decref(g, old), y) = Spare(g, y) - One(old, y)
  BY <1>1, <1>4, DecrefFacts
<1>6. ASSUME NEW y \in Items PROVE Spare(Decref(g, old), y) = Spare(h, y) - One(x, y)
  <2>a. Spare(h, y) \in Int /\ Count(h.list, y) \in Nat
    BY HeapFacts
  <2>b. One(x, y) \in 0..1 /\ One(old, y) \in 0..1
    BY CountInt, Zenon
  <2>1. /\ Spare(h, y) \in Int /\ Count(h.list, y) \in Int
        /\ One(x, y) \in Int /\ One(old, y) \in Int
    BY <2>a, <2>b
  <2> QED BY <1>3, <1>4, <1>5, <2>1
<1> QED BY <1>2, <1>3, <1>5, <1>6 DEF s

LEMMA ListAppendFacts ==
    ASSUME NEW h, IsHeap(h), NEW x \in Items
    PROVE  /\ IsHeap(ListAppend(h, x)) /\ ListAppend(h, x).list = Append(h.list, x)
           /\ ListAppend(h, x).out = h.out /\ ListAppend(h, x).ret = h.ret
           /\ ListAppend(h, x).freed = h.freed /\ SameSpare(ListAppend(h, x), h)
<1> DEFINE s == Append(h.list, x)
           g == [h EXCEPT !.list = s]
<1>1. h.list \in Seq(Items)
  BY HeapFacts
<1>2. ListAppend(h, x) = Incref(g, x)
  BY DEF ListAppend, IsHeap, Heaps
<1>3. s \in Seq(Items) /\ \A y \in Items : Count(s, y) = Count(h.list, y) + One(x, y)
  BY <1>1, CountAppend
<1> HIDE DEF s
<1>4. /\ IsHeap(g) /\ g.list = s /\ g.out = h.out /\ g.ret = h.ret /\ g.freed = h.freed
      /\ \A y \in Items : Spare(g, y) = Spare(h, y) + Count(h.list, y) - Count(s, y)
  BY <1>3, NewListFacts
<1> HIDE DEF g
<1>5. /\ IsHeap(Incref(g, x)) /\ Incref(g, x).list = s /\ Incref(g, x).out = h.out
      /\ Incref(g, x).ret = h.ret /\ Incref(g, x).freed = h.freed
      /\ \A y \in Items : Spare(Incref(g, x), y) = Spare(g, y) + One(x, y)
  BY <1>4, IncrefFacts
<1>6. ASSUME NEW y \in Items PROVE Spare(Incref(g, x), y) = Spare(h, y)
  <2>1. Spare(h, y) \in Int /\ Count(h.list, y) \in Int /\ One(x, y) \in Int
    BY HeapFacts, CountInt
  <2> QED BY <1>3, <1>4, <1>5, <2>1
<1> QED BY <1>2, <1>5, <1>6 DEF s, SameSpare

\* The functions array_unshift and array_push insert and append with.
LEMMA ListInsertFacts ==
    ASSUME NEW h, IsHeap(h), NEW x \in Items
    PROVE  /\ IsHeap(ListInsert(h, 0, x)) /\ ListInsert(h, 0, x).list = <<x>> \o h.list
           /\ ListInsert(h, 0, x).out = h.out /\ ListInsert(h, 0, x).ret = h.ret
           /\ ListInsert(h, 0, x).freed = h.freed /\ SameSpare(ListInsert(h, 0, x), h)
<1> DEFINE one == <<x>>
           s == one \o h.list
           g == [h EXCEPT !.list = s]
<1>1. h.list \in Seq(Items) /\ Len(h.list) \in Nat
  BY HeapFacts
<1>2. InsertAt(h.list, 0 + 1, x) = s
  <2>1. SubSeq(h.list, 1, 0) = <<>>
    BY SubSeqEmpty
  <2>2. SubSeq(h.list, 1, Len(h.list)) = h.list
    BY <1>1, SubSeqFull
  <2>3. InsertAt(h.list, 0 + 1, x) = (<<>> \o <<x>>) \o h.list
    BY <2>1, <2>2 DEF InsertAt
  <2>4. <<>> \o <<x>> = <<x>>
    <3>1. <<x>> \in Seq(Items)
      OBVIOUS
    <3> QED BY <3>1, ConcatEmptySeq
  <2> QED BY <2>3, <2>4
<1>3. ListInsert(h, 0, x) = Incref(g, x)
  BY <1>2 DEF ListInsert, IsHeap, Heaps
<1>4. s \in Seq(Items) /\ \A y \in Items : Count(s, y) = One(x, y) + Count(h.list, y)
  <2>1. one \in Seq(Items) /\ \A y \in Items : Count(one, y) = One(x, y)
    BY CountOne
  <2> HIDE DEF one
  <2> QED BY <1>1, <2>1, CountConcat
<1> HIDE DEF s
<1>5. /\ IsHeap(g) /\ g.list = s /\ g.out = h.out /\ g.ret = h.ret /\ g.freed = h.freed
      /\ \A y \in Items : Spare(g, y) = Spare(h, y) + Count(h.list, y) - Count(s, y)
  BY <1>4, NewListFacts
<1> HIDE DEF g
<1>6. /\ IsHeap(Incref(g, x)) /\ Incref(g, x).list = s /\ Incref(g, x).out = h.out
      /\ Incref(g, x).ret = h.ret /\ Incref(g, x).freed = h.freed
      /\ \A y \in Items : Spare(Incref(g, x), y) = Spare(g, y) + One(x, y)
  BY <1>5, IncrefFacts
<1>7. ASSUME NEW y \in Items PROVE Spare(Incref(g, x), y) = Spare(h, y)
  <2>1. Spare(h, y) \in Int /\ Count(h.list, y) \in Int /\ One(x, y) \in Int
    BY HeapFacts, CountInt
  <2> QED BY <1>4, <1>5, <1>6, <2>1
<1> QED BY <1>3, <1>6, <1>7 DEF s, SameSpare

\* Without its first item a list is its rest.
LEMMA RemoveFirstFacts ==
    ASSUME NEW s \in Seq(Items), Len(s) > 0
    PROVE  /\ RemoveAt(s, 1) = SubSeq(s, 2, Len(s)) /\ RemoveAt(s, 1) \in Seq(Items)
           /\ \A y \in Items : Count(RemoveAt(s, 1), y) = Count(s, y) - One(s[1], y)
<1>1. Len(s) \in Nat /\ s[1] \in Items
  BY SeqFacts
<1>2. /\ SubSeq(s, 1, 1) \in Seq(Items) /\ SubSeq(s, 2, Len(s)) \in Seq(Items)
      /\ \A y : Count(s, y) = Count(SubSeq(s, 1, 1), y) + Count(SubSeq(s, 2, Len(s)), y)
  <2>1. 1 \in 0..Len(s) /\ 1 + 1 = 2
    BY <1>1
  <2> QED BY <2>1, CountSplit
<1>3. SubSeq(s, 1, 1) = <<s[1]>>
  <2>1. Len(SubSeq(s, 1, 1)) = 1 /\ SubSeq(s, 1, 1)[1] = s[1]
    BY <1>1, SubSeqFacts
  <2>2. <<s[1]>> \in Seq(Items) /\ Len(<<s[1]>>) = 1 /\ <<s[1]>>[1] = s[1]
    BY <1>1
  <2>3. \A i \in 1..1 : SubSeq(s, 1, 1)[i] = <<s[1]>>[i]
    BY <2>1, <2>2
  <2> DEFINE one == <<s[1]>>
  <2> HIDE DEF one
  <2> QED BY <1>2, <2>1, <2>2, <2>3, SeqEqual DEF one
<1>4. RemoveAt(s, 1) = SubSeq(s, 2, Len(s))
  <2>1. SubSeq(s, 1, 1 - 1) = <<>>
    BY SubSeqEmpty
  <2>2. <<>> \o SubSeq(s, 2, Len(s)) = SubSeq(s, 2, Len(s))
    BY <1>2, ConcatEmptySeq
  <2> QED BY <2>1, <2>2 DEF RemoveAt
<1>5. ASSUME NEW y \in Items PROVE Count(RemoveAt(s, 1), y) = Count(s, y) - One(s[1], y)
  <2>1. Count(SubSeq(s, 1, 1), y) = One(s[1], y)
    BY <1>1, <1>3, CountOne
  <2>2. One(s[1], y) \in 0..1 /\ Count(SubSeq(s, 2, Len(s)), y) \in Nat
    BY <1>2, CountInt
  <2>3. Count(s, y) = One(s[1], y) + Count(SubSeq(s, 2, Len(s)), y)
    BY <1>2, <2>1
  <2> DEFINE n == Count(SubSeq(s, 2, Len(s)), y)
             o == One(s[1], y)
  <2>4. Count(RemoveAt(s, 1), y) = n
    BY <1>4
  <2>5. n \in Nat /\ o \in 0..1 /\ Count(s, y) = o + n
    BY <2>2, <2>3
  <2> HIDE DEF n, o
  <2>6. n = (o + n) - o
    BY <2>5
  <2> QED BY <2>4, <2>5, <2>6 DEF o
<1> QED BY <1>2, <1>4, <1>5

LEMMA DelFirstFacts ==
    ASSUME NEW h, IsHeap(h), Len(h.list) > 0
    PROVE  /\ IsHeap(DelItem(h, 0)) /\ DelItem(h, 0).list = SubSeq(h.list, 2, Len(h.list))
           /\ DelItem(h, 0).out = h.out /\ DelItem(h, 0).ret = h.ret
           /\ DelItem(h, 0).freed = h.freed /\ SameSpare(DelItem(h, 0), h)
<1> DEFINE s == RemoveAt(h.list, 1)
           old == h.list[1]
           g == [h EXCEPT !.list = s]
<1>1. h.list \in Seq(Items) /\ Len(h.list) \in Nat /\ old \in Items
  BY HeapFacts, SeqFacts
<1>2. DelItem(h, 0) = Decref(g, old)
  BY DEF DelItem, GetItem, IsHeap, Heaps
<1>3. /\ s \in Seq(Items) /\ s = SubSeq(h.list, 2, Len(h.list))
      /\ \A y \in Items : Count(s, y) = Count(h.list, y) - One(old, y)
  BY <1>1, RemoveFirstFacts
<1> HIDE DEF s, old
<1>4. /\ IsHeap(g) /\ g.list = s /\ g.out = h.out /\ g.ret = h.ret /\ g.freed = h.freed
      /\ \A y \in Items : Spare(g, y) = Spare(h, y) + Count(h.list, y) - Count(s, y)
  BY <1>3, NewListFacts
<1> HIDE DEF g
<1>5. /\ IsHeap(Decref(g, old)) /\ Decref(g, old).list = s /\ Decref(g, old).out = h.out
      /\ Decref(g, old).ret = h.ret /\ Decref(g, old).freed = h.freed
      /\ \A y \in Items : Spare(Decref(g, old), y) = Spare(g, y) - One(old, y)
  BY <1>1, <1>4, DecrefFacts
<1>6. ASSUME NEW y \in Items PROVE Spare(Decref(g, old), y) = Spare(h, y)
  <2>1. Spare(h, y) \in Int /\ Count(h.list, y) \in Int /\ One(old, y) \in Int
    BY HeapFacts, CountInt
  <2> QED BY <1>3, <1>4, <1>5, <2>1
<1> QED BY <1>2, <1>3, <1>5, <1>6 DEF SameSpare

LEMMA GetSliceFacts ==
    ASSUME NEW h, IsHeap(h), h.out = <<>>, NEW a \in 0..Len(h.list), NEW b \in 0..Len(h.list)
    PROVE  /\ IsHeap(GetSlice(h, a, b)) /\ GetSlice(h, a, b).list = h.list
           /\ GetSlice(h, a, b).out = SubSeq(h.list, a + 1, b) /\ GetSlice(h, a, b).ret = h.ret
           /\ GetSlice(h, a, b).freed = h.freed /\ SameSpare(GetSlice(h, a, b), h)
<1> DEFINE s == SubSeq(h.list, a + 1, b)
           g == [h EXCEPT !.out = s]
<1>1. h.list \in Seq(Items) /\ Len(h.list) \in Nat
  BY HeapFacts
<1>2. s \in Seq(Items)
  BY <1>1, SubSeqFacts
<1>3. GetSlice(h, a, b) = Hold(g, s)
  BY DEF GetSlice
<1> HIDE DEF s
<1>4. /\ IsHeap(g) /\ g.list = h.list /\ g.out = s /\ g.ret = h.ret /\ g.freed = h.freed
      /\ \A y \in Items : Spare(g, y) = Spare(h, y) + Count(h.out, y) - Count(s, y)
  BY <1>2, NewOutFacts
<1> HIDE DEF g
<1>5. /\ IsHeap(Hold(g, s)) /\ Hold(g, s).list = h.list /\ Hold(g, s).out = s
      /\ Hold(g, s).ret = h.ret /\ Hold(g, s).freed = h.freed
      /\ \A y \in Items : Spare(Hold(g, s), y) = Spare(g, y) + Count(s, y)
  BY <1>2, <1>4, HoldFacts
<1>6. ASSUME NEW y \in Items PROVE Spare(Hold(g, s), y) = Spare(h, y)
  <2>1. Spare(h, y) \in Int /\ Count(s, y) \in Int /\ Count(h.out, y) = 0
    BY <1>2, HeapFacts, CountInt, CountEmpty
  <2> QED BY <1>4, <1>5, <2>1
<1> QED BY <1>3, <1>5, <1>6 DEF s, SameSpare

LEMMA SetSliceFacts ==
    ASSUME NEW h, IsHeap(h), NEW a \in 0..Len(h.list), NEW b \in a..Len(h.list), NEW s \in Seq(Items)
    PROVE  /\ IsHeap(SetSlice(h, a, b, s))
           /\ SetSlice(h, a, b, s).list
                = SubSeq(h.list, 1, a) \o s \o SubSeq(h.list, b + 1, Len(h.list))
           /\ SetSlice(h, a, b, s).out = h.out /\ SetSlice(h, a, b, s).ret = h.ret
           /\ SetSlice(h, a, b, s).freed = h.freed /\ SameSpare(SetSlice(h, a, b, s), h)
<1> DEFINE before == SubSeq(h.list, 1, a)
           old == SubSeq(h.list, a + 1, b)
           after == SubSeq(h.list, b + 1, Len(h.list))
           t == before \o s \o after
           g == [h EXCEPT !.list = t]
<1>1. h.list \in Seq(Items) /\ Len(h.list) \in Nat
  BY HeapFacts
<1>2. /\ before \in Seq(Items) /\ old \in Seq(Items) /\ after \in Seq(Items)
      /\ \A y : Count(h.list, y) = Count(before, y) + Count(old, y) + Count(after, y)
  BY <1>1, CountThree
<1>3. SetSlice(h, a, b, s) = Drop(Hold(g, s), old)
  BY DEF SetSlice
<1> HIDE DEF before, old, after
<1>4. /\ t \in Seq(Items)
      /\ \A y : Count(t, y) = Count(before, y) + Count(s, y) + Count(after, y)
  <2> DEFINE u == before \o s
  <2>1. u \in Seq(Items) /\ \A y : Count(u, y) = Count(before, y) + Count(s, y)
    BY <1>2, CountConcat
  <2> HIDE DEF u
  <2>2. u \o after \in Seq(Items) /\ \A y : Count(u \o after, y) = Count(u, y) + Count(after, y)
    BY <1>2, <2>1, CountConcat
  <2> QED BY <2>1, <2>2 DEF u
<1> HIDE DEF t
<1>5. /\ IsHeap(g) /\ g.list = t /\ g.out = h.out /\ g.ret = h.ret /\ g.freed = h.freed
      /\ \A y \in Items : Spare(g, y) = Spare(h, y) + Count(h.list, y) - Count(t, y)
  BY <1>4, NewListFacts
<1> HIDE DEF g
<1> DEFINE held == Hold(g, s)
<1>6. /\ IsHeap(held) /\ held.list = t /\ held.out = h.out
      /\ held.ret = h.ret /\ held.freed = h.freed
      /\ \A y \in Items : Spare(held, y) = Spare(g, y) + Count(s, y)
  BY <1>5, HoldFacts
<1> HIDE DEF held
<1>7. /\ IsHeap(Drop(held, old)) /\ Drop(held, old).list = t /\ Drop(held, old).out = h.out
      /\ Drop(held, old).ret = h.ret /\ Drop(held, old).freed = h.freed
      /\ \A y \in Items : Spare(Drop(held, old), y) = Spare(held, y) - Count(old, y)
  BY <1>2, <1>6, DropFacts
<1>8. ASSUME NEW y \in Items PROVE Spare(Drop(held, old), y) = Spare(h, y)
  <2>1. /\ Spare(h, y) \in Int /\ Count(before, y) \in Int /\ Count(s, y) \in Int
        /\ Count(old, y) \in Int /\ Count(after, y) \in Int
    BY <1>2, HeapFacts, CountInt
  <2> QED BY <1>2, <1>4, <1>5, <1>6, <1>7, <2>1
<1> QED BY <1>3, <1>7, <1>8 DEF held, t, before, after, SameSpare

-----------------------------------------------------------------------------
(* Least and greatest elements, and positions in a list.                   *)

LEMMA MinFacts ==
    ASSUME NEW T, T \subseteq Nat, T # {}
    PROVE  Min(T) \in T /\ \A y \in T : Min(T) <= y
<1>1. \E x \in T : \A y \in T : x <= y
  BY LeastNat
<1> QED BY <1>1 DEF Min

LEMMA MaxFacts ==
    ASSUME NEW n \in Nat, NEW T, T \subseteq 0..n, T # {}
    PROVE  Max(T) \in T /\ \A y \in T : y <= Max(T)
<1> DEFINE U == {n - x : x \in T}
<1>1. U \subseteq Nat /\ U # {}
  OBVIOUS
<1>2. PICK u \in U : \A y \in U : u <= y
  <2> HIDE DEF U
  <2> QED BY <1>1, LeastNat
<1>3. PICK x \in T : u = n - x
  OBVIOUS
<1>4. ASSUME NEW y \in T PROVE y <= x
  <2>1. n - y \in U
    OBVIOUS
  <2>2. n - x <= n - y /\ x \in Int /\ y \in Int
    BY <1>2, <1>3, <2>1
  <2> QED BY <2>2
<1>5. \E z \in T : \A y \in T : y <= z
  BY <1>4
<1> QED BY <1>5 DEF Max

LEMMA MinMaxTwo ==
    ASSUME NEW a \in Int, NEW b \in Int
    PROVE  Min({a, b}) = Least(a, b) /\ Max({a, b}) = Most(a, b)
<1>1. \E x \in {a, b} : \A y \in {a, b} : x <= y
  OBVIOUS
<1>2. \E x \in {a, b} : \A y \in {a, b} : y <= x
  OBVIOUS
<1>3. Min({a, b}) \in {a, b} /\ \A y \in {a, b} : Min({a, b}) <= y
  BY <1>1 DEF Min
<1>4. Max({a, b}) \in {a, b} /\ \A y \in {a, b} : y <= Max({a, b})
  BY <1>2 DEF Max
<1> QED BY <1>3, <1>4 DEF Least, Most

\* The clamp of the code is the one of the standard.
LEMMA PositionFacts ==
    ASSUME NEW s \in Seq(Items), NEW n \in Int
    PROVE  /\ ActualIndex(n, Len(s)) \in 0..Len(s) /\ Position(n, s) = ActualIndex(n, Len(s))
           /\ normalizeSliceTerm(n, Len(s)) = ActualIndex(n, Len(s))
<1>1. Len(s) \in Nat
  BY SeqFacts
<1> DEFINE e == n + (IF n < 0 THEN Len(s) ELSE 0)
<1>2. e \in Int
  BY <1>1
<1>3. Max({0, e}) = Most(0, e) /\ Most(0, e) \in Int
  <2> DEFINE z == 0
  <2>1. Most(z, e) \in Int /\ z \in Int
    BY <1>2 DEF Most
  <2> HIDE DEF e, z
  <2>2. Max({z, e}) = Most(z, e)
    BY <1>2, <2>1, MinMaxTwo, Zenon
  <2> QED BY <2>1, <2>2 DEF z
<1>4. Min({Len(s), Max({0, e})}) = Least(Len(s), Most(0, e))
  BY <1>1, <1>3, MinMaxTwo
<1>5. Position(n, s) = Min({Len(s), Max({0, e})})
  BY DEF Position
<1>6. Least(Len(s), Most(0, e)) = ActualIndex(n, Len(s))
  BY <1>1 DEF Least, Most, ActualIndex
<1> QED BY <1>1, <1>4, <1>5, <1>6 DEF ActualIndex, normalizeSliceTerm, Least, Most

-----------------------------------------------------------------------------
(* The methods that change the list.                                       *)

\* No item has fewer references than the two lists need.
Sound(h) == \A x \in Items : Spare(h, x) >= 0
\* A call from h to g that leaves the counts as they should be.
Fair(g, h) == SameSpare(g, h) /\ g.freed = h.freed

LEMMA ReverseFacts ==
    ASSUME NEW h, IsHeap(h), NEW args
    PROVE  /\ IsHeap(array_reverse(h, args)) /\ Fair(array_reverse(h, args), h)
           /\ array_reverse(h, args).list = Edited("reverse", h.list, args)
           /\ array_reverse(h, args).out = h.out
<1> DEFINE s == Reverse(h.list)
           g == [h EXCEPT !.list = s]
<1>1. h.list \in Seq(Items) /\ Len(h.list) \in Nat /\ DOMAIN h.list = 1..Len(h.list)
  BY HeapFacts, SeqFacts
<1>2. s \in Seq(Items) /\ \A y : Count(s, y) = Count(h.list, y)
  BY <1>1, CountReverse
<1>3. s = Edited("reverse", h.list, args)
  BY <1>1 DEF Reverse, Edited
<1>4. array_reverse(h, args) = Return(g, "self")
  BY DEF array_reverse, ReturnSelf
<1> HIDE DEF s
<1>5. /\ IsHeap(g) /\ g.list = s /\ g.out = h.out /\ g.freed = h.freed
      /\ \A y \in Items : Spare(g, y) = Spare(h, y) + Count(h.list, y) - Count(s, y)
  BY <1>2, NewListFacts
<1> HIDE DEF g
<1>6. ASSUME NEW y \in Items PROVE Spare(g, y) = Spare(h, y)
  <2>1. Spare(h, y) \in Int /\ Count(h.list, y) \in Int
    BY HeapFacts
  <2> QED BY <1>2, <1>5, <2>1
<1>7. /\ IsHeap(Return(g, "self")) /\ Return(g, "self").list = s /\ Return(g, "self").out = h.out
      /\ Return(g, "self").freed = h.freed /\ SameSpare(Return(g, "self"), g)
  BY <1>5, ReturnFacts
<1> QED BY <1>3, <1>4, <1>6, <1>7 DEF Fair, SameSpare

LEMMA PopFacts ==
    ASSUME NEW h, IsHeap(h), NEW args
    PROVE  /\ IsHeap(array_pop(h, args)) /\ array_pop(h, args).out = h.out
           /\ array_pop(h, args).list = Edited("pop", h.list, args)
           /\ array_pop(h, args).ret = Answer("pop", h.list, args)
           /\ Sound(h) => Fair(array_pop(h, args), h)
<1>1. h.list \in Seq(Items) /\ Len(h.list) \in Nat /\ Size(h) = Len(h.list)
  BY HeapFacts
<1>2. Edited("pop", h.list, args) = SubSeq(h.list, 1, Len(h.list) - 1)
  BY DEF Edited
<1>3. Answer("pop", h.list, args) = IF h.list = <<>> THEN Undefined ELSE h.list[Len(h.list)]
  BY DEF Answer, LastOr
<1>4. CASE Size(h) = 0
  <2>1. h.list = <<>>
    BY <1>1, <1>4, EmptySeq
  <2>2. SubSeq(h.list, 1, Len(h.list) - 1) = <<>>
    BY <1>1, <1>4, SubSeqEmpty
  <2>3. array_pop(h, args) = Return(h, Undefined)
    BY <1>4 DEF array_pop
  <2> QED BY <1>2, <1>3, <2>1, <2>2, <2>3, ReturnFacts DEF Fair
<1>5. CASE Size(h) # 0
  <2> DEFINE s == SubSeq(h.list, 1, Len(h.list) - 1)
             x == h.list[Len(h.list)]
             g == [h EXCEPT !.list = s]
             j == ToJS(g, x)
  <2>1. Len(h.list) >= 1 /\ h.list # <<>>
    BY <1>1, <1>5
  <2>2. x \in Items
    BY <1>1, <2>1, SeqFacts
  <2>3. array_pop(h, args) = Decref(j, x)
    <3>1. GetItem(h, Size(h) - 1) = x
      BY <1>1 DEF GetItem
    <3>2. [h EXCEPT !.list = Front(@)] = g
      BY DEF Front, IsHeap, Heaps
    <3> QED BY <1>5, <3>1, <3>2 DEF array_pop
  <2>4. s \in Seq(Items) /\ h.list = Append(s, x)
    <3>1. 1 \in 1..Len(h.list) + 1 /\ Len(h.list) - 1 \in Int
      BY <1>1
    <3>2. /\ s \in Seq(Items) /\ Len(s) = Len(h.list) - 1
          /\ \A i \in 1..(Len(h.list) - 1) : s[i] = h.list[i]
      BY <1>1, <2>1, <3>1, SubSeqFacts
    <3> HIDE DEF s, x
    <3>3. /\ Append(s, x) \in Seq(Items) /\ Len(Append(s, x)) = Len(h.list)
          /\ \A i \in 1..Len(s) : Append(s, x)[i] = s[i]
          /\ Append(s, x)[Len(s) + 1] = x
      BY <1>1, <2>2, <3>2, AppendProperties
    <3>4. ASSUME NEW i \in 1..Len(h.list) PROVE h.list[i] = Append(s, x)[i]
      <4>1. CASE i = Len(h.list)
        BY <1>1, <3>2, <3>3, <4>1 DEF x
      <4>2. CASE i # Len(h.list)
        BY <1>1, <3>2, <3>3, <4>2
      <4> QED BY <4>1, <4>2
    <3>5. h.list = Append(s, x)
      BY <1>1, <3>3, <3>4, SeqEqual
    <3> QED BY <3>2, <3>5
  <2> HIDE DEF s, x
  <2>5. \A y : Count(h.list, y) = Count(s, y) + One(x, y)
    BY <2>2, <2>4, CountAppend
  <2>6. /\ IsHeap(g) /\ g.list = s /\ g.out = h.out /\ g.freed = h.freed /\ g.refs = h.refs
        /\ \A y \in Items : Spare(g, y) = Spare(h, y) + Count(h.list, y) - Count(s, y)
    BY <2>4, NewListFacts
  <2> HIDE DEF g
  <2>7. /\ IsHeap(j) /\ j.list = s /\ j.out = h.out /\ j.ret = x
        /\ j.freed = (g.freed \/ g.refs[x] = 0) /\ SameSpare(j, g)
    BY <2>6, ToJSFacts
  <2>8. Sound(h) => j.freed = h.freed
    <3>1. h.refs[x] \in Int /\ Count(h.list, x) \in Nat /\ Count(h.out, x) \in Nat
      BY <2>2, HeapFacts
    <3>2. Count(h.list, x) >= 1
      <4>1. One(x, x) = 1 /\ Count(s, x) \in Nat
        BY <2>4, CountInt DEF One
      <4> QED BY <2>5, <4>1
    <3>3. Sound(h) => h.refs[x] # 0
      BY <2>2, <3>1, <3>2 DEF Sound, Spare
    <3>4. h.freed \in BOOLEAN
      BY HeapFacts
    <3> QED BY <2>6, <2>7, <3>3, <3>4
  <2> HIDE DEF j
  <2>9. /\ IsHeap(Decref(j, x)) /\ Decref(j, x).list = s /\ Decref(j, x).out = h.out
        /\ Decref(j, x).ret = x /\ Decref(j, x).freed = j.freed
        /\ \A y \in Items : Spare(Decref(j, x), y) = Spare(j, y) - One(x, y)
    BY <2>2, <2>7, DecrefFacts
  <2>10. ASSUME NEW y \in Items PROVE Spare(Decref(j, x), y) = Spare(h, y)
    <3>1. Spare(h, y) \in Int /\ Count(s, y) \in Nat /\ One(x, y) \in 0..1
      BY <2>4, HeapFacts, CountInt
    <3> QED BY <2>5, <2>6, <2>7, <2>9, <3>1 DEF SameSpare
  <2> QED BY <1>2, <1>3, <2>1, <2>3, <2>8, <2>9, <2>10 DEF Fair, SameSpare, s, x
<1> QED BY <1>4, <1>5

\* shift() drops its reference first, and that is all that is wrong with it.
LEMMA ShiftFacts ==
    ASSUME NEW h, IsHeap(h), NEW args
    PROVE  /\ IsHeap(array_shift(h, args)) /\ array_shift(h, args).out = h.out
           /\ array_shift(h, args).list = Edited("shift", h.list, args)
           /\ array_shift(h, args).ret = Answer("shift", h.list, args)
           /\ SameSpare(array_shift(h, args), h)
<1>1. h.list \in Seq(Items) /\ Len(h.list) \in Nat /\ Size(h) = Len(h.list)
  BY HeapFacts
<1>2. Edited("shift", h.list, args) = SubSeq(h.list, 2, Len(h.list))
  BY DEF Edited
<1>3. Answer("shift", h.list, args) = IF h.list = <<>> THEN Undefined ELSE h.list[1]
  BY DEF Answer
<1>4. CASE Size(h) = 0
  <2>1. h.list = <<>>
    BY <1>1, <1>4, EmptySeq
  <2>2. SubSeq(h.list, 2, Len(h.list)) = <<>>
    BY <1>1, <1>4, SubSeqEmpty
  <2>3. array_shift(h, args) = Return(h, Undefined)
    BY <1>4 DEF array_shift
  <2> QED BY <1>2, <1>3, <2>1, <2>2, <2>3, ReturnFacts
<1>5. CASE Size(h) # 0
  <2> DEFINE g == DelItem(h, 0)
  <2>1. Len(h.list) > 0 /\ h.list # <<>>
    BY <1>1, <1>5
  <2>2. /\ IsHeap(g) /\ g.list = SubSeq(h.list, 2, Len(h.list)) /\ g.out = h.out
        /\ SameSpare(g, h)
    BY <2>1, DelFirstFacts
  <2>3. array_shift(h, args) = ToJS(g, h.list[1])
    BY <1>5 DEF array_shift, GetItem
  <2> HIDE DEF g
  <2>4. /\ IsHeap(ToJS(g, h.list[1])) /\ ToJS(g, h.list[1]).list = g.list
        /\ ToJS(g, h.list[1]).out = g.out /\ ToJS(g, h.list[1]).ret = h.list[1]
        /\ SameSpare(ToJS(g, h.list[1]), g)
    BY <2>2, ToJSFacts
  <2> QED BY <1>2, <1>3, <2>1, <2>2, <2>3, <2>4 DEF SameSpare
<1> QED BY <1>4, <1>5

-----------------------------------------------------------------------------
(* The methods that add items, one for each turn of a loop.                *)

\* A prefix grows by one item.
LEMMA PrefixStep ==
    ASSUME NEW s \in Seq(Items), NEW k \in 1..Len(s)
    PROVE  /\ SubSeq(s, 1, k) = Append(SubSeq(s, 1, k - 1), s[k])
           /\ SubSeq(s, 1, k) \in Seq(Items) /\ SubSeq(s, 1, k - 1) \in Seq(Items)
           /\ s[k] \in Items
<1>1. Len(s) \in Nat /\ k \in Nat /\ k - 1 \in Nat /\ s[k] \in Items
  BY SeqFacts
<1>2. /\ SubSeq(s, 1, k - 1) \in Seq(Items) /\ Len(SubSeq(s, 1, k - 1)) = k - 1
      /\ \A i \in 1..(k - 1) : SubSeq(s, 1, k - 1)[i] = s[i]
  <2>1. 1 \in 1..(Len(s) + 1) /\ k - 1 \in Int /\ k - 1 <= Len(s)
    BY <1>1
  <2> QED BY <1>1, <2>1, SubSeqFacts
<1>3. /\ SubSeq(s, 1, k) \in Seq(Items) /\ Len(SubSeq(s, 1, k)) = k
      /\ \A i \in 1..k : SubSeq(s, 1, k)[i] = s[i]
  <2>1. 1 \in 1..(Len(s) + 1) /\ k \in Int /\ k <= Len(s)
    BY <1>1
  <2> QED BY <1>1, <2>1, SubSeqFacts
<1> DEFINE t == SubSeq(s, 1, k - 1)
           x == s[k]
<1>4. /\ Append(t, x) \in Seq(Items) /\ Len(Append(t, x)) = k
      /\ \A i \in 1..(k - 1) : Append(t, x)[i] = t[i]
      /\ Append(t, x)[k] = x
  <2> HIDE DEF t, x
  <2>1. t \in Seq(Items) /\ x \in Items /\ Len(t) = k - 1
    BY <1>1, <1>2 DEF t, x
  <2>2. (k - 1) + 1 = k
    BY <1>1
  <2> QED BY <2>1, <2>2, AppendProperties
<1>5. ASSUME NEW i \in 1..k PROVE SubSeq(s, 1, k)[i] = Append(t, x)[i]
  <2>1. CASE i = k
    BY <1>3, <1>4, <2>1
  <2>2. CASE i # k
    <3>1. i \in 1..(k - 1)
      BY <1>1, <2>2
    <3> QED BY <1>2, <1>3, <1>4, <3>1
  <2> QED BY <2>1, <2>2
<1>6. SubSeq(s, 1, k) = Append(t, x)
  <2> HIDE DEF t, x
  <2> QED BY <1>3, <1>4, <1>5, SeqEqual
<1> QED BY <1>1, <1>2, <1>3, <1>6

LEMMA AppendToConcat ==
    ASSUME NEW s \in Seq(Items), NEW t \in Seq(Items), NEW x \in Items
    PROVE  Append(s \o t, x) = s \o Append(t, x)
<1> DEFINE one == <<x>>
<1>1. one \in Seq(Items) /\ s \o t \in Seq(Items)
  BY ConcatProperties
<1>2. Append(s \o t, x) = (s \o t) \o one /\ Append(t, x) = t \o one
  BY <1>1, AppendIsConcat
<1> HIDE DEF one
<1>3. (s \o t) \o one = s \o (t \o one)
  BY <1>1, ConcatAssociative
<1> QED BY <1>2, <1>3

\* An item is passed in, put at the end, and let go of.
LEMMA PushStep ==
    ASSUME NEW h, IsHeap(h), NEW v \in Items
    PROVE  LET g == Decref(ListAppend(ToPython(h, v), v), v)
           IN  /\ IsHeap(g) /\ g.list = Append(h.list, v) /\ g.out = h.out /\ g.ret = h.ret
               /\ Fair(g, h)
<1> DEFINE a == ToPython(h, v)
           b == ListAppend(a, v)
           g == Decref(b, v)
<1>1. /\ IsHeap(a) /\ a.list = h.list /\ a.out = h.out /\ a.ret = h.ret /\ a.freed = h.freed
      /\ \A y \in Items : Spare(a, y) = Spare(h, y) + One(v, y)
  BY IncrefFacts DEF ToPython
<1> HIDE DEF a
<1>2. /\ IsHeap(b) /\ b.list = Append(h.list, v) /\ b.out = h.out /\ b.ret = h.ret
      /\ b.freed = h.freed /\ SameSpare(b, a)
  BY <1>1, ListAppendFacts
<1> HIDE DEF b
<1>3. /\ IsHeap(g) /\ g.list = Append(h.list, v) /\ g.out = h.out /\ g.ret = h.ret
      /\ g.freed = h.freed /\ \A y \in Items : Spare(g, y) = Spare(b, y) - One(v, y)
  BY <1>2, DecrefFacts
<1>4. ASSUME NEW y \in Items PROVE Spare(g, y) = Spare(h, y)
  <2>1. Spare(h, y) \in Int /\ One(v, y) \in 0..1
    BY HeapFacts, CountInt
  <2> QED BY <1>1, <1>2, <1>3, <2>1 DEF SameSpare
<1> QED BY <1>3, <1>4 DEF a, b, Fair, SameSpare

LEMMA PushFacts ==
    ASSUME NEW h, IsHeap(h), NEW args \in Seq(Items)
    PROVE  /\ IsHeap(array_push(h, args)) /\ Fair(array_push(h, args), h)
           /\ array_push(h, args).list = Edited("push", h.list, args)
           /\ array_push(h, args).ret = Answer("push", h.list, args)
           /\ array_push(h, args).out = h.out
<1> DEFINE Body(g, v) == Decref(ListAppend(ToPython(g, v), v), v)
           n == Len(args)
           after[k \in 0..n] == IF k = 0 THEN h ELSE Body(after[k - 1], args[k])
           D == [k \in 0..n |-> {g \in Heaps(h.ret) : /\ g.list = h.list \o SubSeq(args, 1, k)
                                                      /\ g.out = h.out /\ Fair(g, h)}]
           G == [k \in 1..n |-> [g \in D[k - 1] |-> Body(g, args[k])]]
<1>1. array_push(h, args) = Return(after[n], Size(after[n]))
  BY DEF array_push, Walk
<1>2. n \in Nat /\ h.list \in Seq(Items)
  BY HeapFacts, SeqFacts
<1>3. h \in D[0]
  <2>1. SubSeq(args, 1, 0) = <<>> /\ h.list \o <<>> = h.list
    BY <1>2, SubSeqEmpty, ConcatEmptySeq
  <2> QED BY <1>2, <2>1 DEF IsHeap, Fair, SameSpare
<1> HIDE DEF Body
<1>4. ASSUME NEW k \in 1..n, NEW g \in D[k - 1] PROVE Body(g, args[k]) \in D[k]
  <2>1. k - 1 \in 0..n /\ k \in 0..n
    BY <1>2
  <2>2. /\ IsHeap(g) /\ g.ret = h.ret /\ g.list = h.list \o SubSeq(args, 1, k - 1)
        /\ g.out = h.out /\ Fair(g, h)
    BY <2>1 DEF IsHeap, Heaps
  <2>3. /\ SubSeq(args, 1, k) = Append(SubSeq(args, 1, k - 1), args[k])
        /\ SubSeq(args, 1, k - 1) \in Seq(Items) /\ args[k] \in Items
    BY PrefixStep
  <2> DEFINE b == Body(g, args[k])
  <2>4. /\ IsHeap(b) /\ b.list = Append(g.list, args[k]) /\ b.out = g.out /\ b.ret = g.ret
        /\ Fair(b, g)
    BY <2>2, <2>3, PushStep DEF Body
  <2> HIDE DEF b
  <2>5. b.list = h.list \o SubSeq(args, 1, k)
    BY <1>2, <2>2, <2>3, <2>4, AppendToConcat
  <2>6. b \in Heaps(h.ret) /\ Fair(b, h) /\ b.out = h.out
    BY <2>2, <2>4 DEF IsHeap, Fair, SameSpare
  <2> QED BY <2>1, <2>5, <2>6 DEF b
<1>5. after[n] \in D[n]
  <2>1. \A k \in 1..n : \A g \in D[k - 1] : G[k][g] = Body(g, args[k])
    OBVIOUS
  <2>2. Leads(n, D, G)
    BY <1>4 DEF Leads
  <2>3. \E f : f = [k \in 0..n |-> IF k = 0 THEN h ELSE Body(f[k - 1], args[k])]
    <3> HIDE DEF D, G, n, after
    <3>1. PICK f : Path(f, n, h, G) /\ Stays(f, n, D)
      BY <1>2, <1>3, <2>2, LoopExists
    <3>2. \A k \in 1..n : G[k][f[k - 1]] = Body(f[k - 1], args[k])
      <4> TAKE k \in 1..n
      <4>1. k - 1 \in 0..n
        BY <1>2
      <4> QED BY <2>1, <3>1, <4>1 DEF Stays
    <3>3. f = [k \in 0..n |-> IF k = 0 THEN h ELSE Body(f[k - 1], args[k])]
      <4>1. \A k \in 0..n : k # 0 => k \in 1..n
        BY <1>2
      <4> QED BY <3>1, <3>2, <4>1 DEF Path
    <3> QED BY <3>3
  <2>4. after = [k \in 0..n |-> IF k = 0 THEN h ELSE Body(after[k - 1], args[k])]
    BY <2>3
  <2> HIDE DEF after
  <2>5. after[0] = h /\ \A k \in 1..n : after[k] = Body(after[k - 1], args[k])
    BY <1>2, <2>4
  <2> HIDE DEF D, G, n
  <2>6. \A k \in 0..n : after[k] \in D[k]
    BY <1>2, <1>3, <1>4, <2>5, LoopKeeps
  <2> QED BY <1>2, <2>6
<1> DEFINE g == after[n]
<1> HIDE DEF after
<1>6. /\ IsHeap(g) /\ g.list = h.list \o args /\ g.out = h.out /\ Fair(g, h)
  <2>1. SubSeq(args, 1, n) = args
    BY SubSeqFull
  <2>2. n \in 0..n
    BY <1>2
  <2>3. D[n] = {j \in Heaps(h.ret) : /\ j.list = h.list \o SubSeq(args, 1, n)
                                     /\ j.out = h.out /\ Fair(j, h)}
    <3> HIDE DEF n
    <3> QED BY <2>2, Zenon
  <2> HIDE DEF D, n
  <2> QED BY <1>2, <1>5, <2>1, <2>3 DEF IsHeap, Heaps
<1> HIDE DEF g
<1>7. /\ IsHeap(Return(g, Size(g))) /\ Return(g, Size(g)).list = g.list
      /\ Return(g, Size(g)).out = g.out /\ Return(g, Size(g)).ret = Len(g.list)
      /\ Return(g, Size(g)).freed = g.freed /\ SameSpare(Return(g, Size(g)), g)
  BY <1>6, ReturnFacts DEF Size
<1>8. /\ Edited("push", h.list, args) = h.list \o args
      /\ Answer("push", h.list, args) = Len(h.list \o args)
  BY DEF Edited, Answer
<1> QED BY <1>1, <1>6, <1>7, <1>8 DEF g, Fair, SameSpare

\* (Its own lemma: the provers find the instance for items at once.)
LEMMA ConcatItems ==
    ASSUME NEW s \in Seq(Items), NEW t \in Seq(Items), NEW u \in Seq(Items)
    PROVE  s \o (t \o u) = (s \o t) \o u
  BY ConcatAssociative

\* A suffix grows by one item.
LEMMA SuffixStep ==
    ASSUME NEW s \in Seq(Items), NEW k \in 1..Len(s)
    PROVE  /\ SubSeq(s, k, Len(s)) = <<s[k]>> \o SubSeq(s, k + 1, Len(s))
           /\ SubSeq(s, k, Len(s)) \in Seq(Items) /\ SubSeq(s, k + 1, Len(s)) \in Seq(Items)
           /\ s[k] \in Items
<1> DEFINE n == Len(s)
           one == SubSeq(s, k, k)
           x == s[k]
<1>1. n \in Nat /\ k \in Nat /\ x \in Items
  BY SeqFacts
<1>2. SubSeq(s, k, n) \in Seq(Items) /\ SubSeq(s, k + 1, n) \in Seq(Items)
  <2>1. k \in 1..(n + 1) /\ k + 1 \in 1..(n + 1) /\ n \in Int /\ n <= n
    BY <1>1
  <2> QED BY <2>1, SubSeqFacts
<1>3. one \in Seq(Items) /\ Len(one) = 1 /\ one[1] = x
  <2>1. k \in 1..(n + 1) /\ k \in Int /\ k <= n /\ k - k + 1 = 1 /\ k + 1 - 1 = k /\ 1 \in 1..1
    BY <1>1
  <2> HIDE DEF x
  <2>2. Len(one) = 1 /\ one \in Seq(Items) /\ one[1] = s[k + 1 - 1]
    BY <1>1, <2>1, SubSeqFacts
  <2> QED BY <2>1, <2>2 DEF x
<1>4. one = <<x>>
  <2> HIDE DEF one, x
  <2>1. <<x>> \in Seq(Items) /\ Len(<<x>>) = 1 /\ <<x>>[1] = x
    BY <1>1
  <2>2. \A i \in 1..Len(one) : one[i] = <<x>>[i]
    BY <1>3, <2>1
  <2> QED BY <1>3, <2>1, <2>2, SeqEqual
<1>5. one \o SubSeq(s, k + 1, n) = SubSeq(s, k, n)
  <2>1. k \in 1..n + 1 /\ k \in (k - 1)..n /\ n \in k..n
    BY <1>1
  <2> QED BY <2>1, ConcatAdjacentSubSeq
<1> QED BY <1>1, <1>2, <1>4, <1>5

\* An item is passed in, put in front, and let go of.
LEMMA UnshiftStep ==
    ASSUME NEW h, IsHeap(h), NEW v \in Items
    PROVE  LET g == Decref(ListInsert(ToPython(h, v), 0, v), v)
           IN  /\ IsHeap(g) /\ g.list = <<v>> \o h.list /\ g.out = h.out /\ g.ret = h.ret
               /\ Fair(g, h)
<1> DEFINE a == ToPython(h, v)
           b == ListInsert(a, 0, v)
           g == Decref(b, v)
<1>1. /\ IsHeap(a) /\ a.list = h.list /\ a.out = h.out /\ a.ret = h.ret /\ a.freed = h.freed
      /\ \A y \in Items : Spare(a, y) = Spare(h, y) + One(v, y)
  BY IncrefFacts DEF ToPython
<1> HIDE DEF a
<1>2. /\ IsHeap(b) /\ b.list = <<v>> \o h.list /\ b.out = h.out /\ b.ret = h.ret
      /\ b.freed = h.freed /\ SameSpare(b, a)
  BY <1>1, ListInsertFacts
<1> HIDE DEF b
<1>3. /\ IsHeap(g) /\ g.list = <<v>> \o h.list /\ g.out = h.out /\ g.ret = h.ret
      /\ g.freed = h.freed /\ \A y \in Items : Spare(g, y) = Spare(b, y) - One(v, y)
  BY <1>2, DecrefFacts
<1>4. ASSUME NEW y \in Items PROVE Spare(g, y) = Spare(h, y)
  <2>1. Spare(h, y) \in Int /\ One(v, y) \in 0..1
    BY HeapFacts, CountInt
  <2> QED BY <1>1, <1>2, <1>3, <2>1 DEF SameSpare
<1> QED BY <1>3, <1>4 DEF a, b, Fair, SameSpare

LEMMA UnshiftFacts ==
    ASSUME NEW h, IsHeap(h), NEW args \in Seq(Items)
    PROVE  /\ IsHeap(array_unshift(h, args)) /\ Fair(array_unshift(h, args), h)
           /\ array_unshift(h, args).list = Edited("unshift", h.list, args)
           /\ array_unshift(h, args).ret = Answer("unshift", h.list, args)
           /\ array_unshift(h, args).out = h.out
<1> DEFINE Body(g, v) == Decref(ListInsert(ToPython(g, v), 0, v), v)
           r == Reverse(args)
           n == Len(r)
           after[k \in 0..n] == IF k = 0 THEN h ELSE Body(after[k - 1], r[k])
           D == [k \in 0..n |-> {g \in Heaps(h.ret) :
                                   /\ g.list = SubSeq(args, n - k + 1, n) \o h.list
                                   /\ g.out = h.out /\ Fair(g, h)}]
           G == [k \in 1..n |-> [g \in D[k - 1] |-> Body(g, r[k])]]
<1>1. array_unshift(h, args) = Return(after[n], Size(after[n]))
  BY DEF array_unshift, Walk
<1>9. n \in Nat /\ n = Len(args) /\ \A k \in 1..n : r[k] = args[n - k + 1]
  BY SeqFacts, CountReverse DEF Reverse
<1>2. n \in Nat /\ h.list \in Seq(Items)
  BY <1>9, HeapFacts
<1> HIDE DEF Body, r
<1>3. h \in D[0]
  <2>1. SubSeq(args, n - 0 + 1, n) = <<>> /\ <<>> \o h.list = h.list
    BY <1>2, SubSeqEmpty, ConcatEmptySeq
  <2> QED BY <1>2, <2>1 DEF IsHeap, Fair, SameSpare
<1>4. ASSUME NEW k \in 1..n, NEW g \in D[k - 1] PROVE Body(g, r[k]) \in D[k]
  <2>1. k - 1 \in 0..n /\ k \in 0..n /\ n - (k - 1) + 1 = n - k + 2
    BY <1>2
  <2>2. /\ IsHeap(g) /\ g.ret = h.ret /\ g.list = SubSeq(args, n - k + 2, n) \o h.list
        /\ g.out = h.out /\ Fair(g, h)
    BY <2>1 DEF IsHeap, Heaps
  <2> DEFINE i == n - k + 1
             x == args[i]
             t == SubSeq(args, i + 1, n)
             b == Body(g, x)
  <2>3. i \in 1..Len(args) /\ i + 1 = n - k + 2
    BY <1>9
  <2>4. SubSeq(args, i, n) = <<x>> \o t /\ t \in Seq(Items) /\ x \in Items
    <3> HIDE DEF i, n
    <3> QED BY <1>9, <2>3, SuffixStep
  <2>5. r[k] = x
    BY <1>9
  <2>6. g.list = t \o h.list
    BY <2>2, <2>3
  <2> HIDE DEF x, t
  <2>7. /\ IsHeap(b) /\ b.list = <<x>> \o g.list /\ b.out = g.out /\ b.ret = g.ret
        /\ Fair(b, g)
    BY <2>2, <2>4, UnshiftStep DEF Body
  <2> HIDE DEF b
  <2>8. b.list = SubSeq(args, i, n) \o h.list
    <3> DEFINE one == <<x>>
    <3>1. one \in Seq(Items)
      BY <2>4
    <3>2. b.list = one \o (t \o h.list) /\ SubSeq(args, i, n) = one \o t
      BY <2>4, <2>6, <2>7
    <3> HIDE DEF one, i, n
    <3>3. one \o (t \o h.list) = (one \o t) \o h.list
      <4>1. t \in Seq(Items) /\ h.list \in Seq(Items)
        BY <1>2, <2>4
      <4> QED BY <3>1, <4>1, ConcatItems
    <3> QED BY <3>2, <3>3
  <2>9. b \in Heaps(h.ret) /\ Fair(b, h) /\ b.out = h.out
    BY <2>2, <2>7 DEF IsHeap, Fair, SameSpare
  <2> QED BY <2>1, <2>5, <2>8, <2>9 DEF b
<1>5. after[n] \in D[n]
  <2>1. \A k \in 1..n : \A g \in D[k - 1] : G[k][g] = Body(g, r[k])
    OBVIOUS
  <2>2. Leads(n, D, G)
    BY <1>4 DEF Leads
  <2>3. \E f : f = [k \in 0..n |-> IF k = 0 THEN h ELSE Body(f[k - 1], r[k])]
    <3> HIDE DEF D, G, n, after
    <3>1. PICK f : Path(f, n, h, G) /\ Stays(f, n, D)
      BY <1>2, <1>3, <2>2, LoopExists
    <3>2. \A k \in 1..n : G[k][f[k - 1]] = Body(f[k - 1], r[k])
      <4> TAKE k \in 1..n
      <4>1. k - 1 \in 0..n
        BY <1>2
      <4> QED BY <2>1, <3>1, <4>1 DEF Stays
    <3>3. f = [k \in 0..n |-> IF k = 0 THEN h ELSE Body(f[k - 1], r[k])]
      <4>1. \A k \in 0..n : k # 0 => k \in 1..n
        BY <1>2
      <4> QED BY <3>1, <3>2, <4>1 DEF Path
    <3> QED BY <3>3
  <2>4. after = [k \in 0..n |-> IF k = 0 THEN h ELSE Body(after[k - 1], r[k])]
    BY <2>3
  <2> HIDE DEF after
  <2>5. after[0] = h /\ \A k \in 1..n : after[k] = Body(after[k - 1], r[k])
    BY <1>2, <2>4
  <2> HIDE DEF D, G, n
  <2>6. \A k \in 0..n : after[k] \in D[k]
    BY <1>2, <1>3, <1>4, <2>5, LoopKeeps
  <2> QED BY <1>2, <2>6
<1> DEFINE g == after[n]
<1> HIDE DEF after
<1>6. /\ IsHeap(g) /\ g.list = args \o h.list /\ g.out = h.out /\ Fair(g, h)
  <2>1. SubSeq(args, n - n + 1, n) = args
    <3>1. n - n + 1 = 1
      BY <1>2
    <3> QED BY <1>9, <3>1, SubSeqFull
  <2>2. n \in 0..n
    BY <1>2
  <2>3. D[n] = {j \in Heaps(h.ret) : /\ j.list = SubSeq(args, n - n + 1, n) \o h.list
                                     /\ j.out = h.out /\ Fair(j, h)}
    <3> HIDE DEF n
    <3> QED BY <2>2, Zenon
  <2> HIDE DEF D, n
  <2> QED BY <1>2, <1>5, <2>1, <2>3 DEF IsHeap, Heaps
<1> HIDE DEF g
<1>7. /\ IsHeap(Return(g, Size(g))) /\ Return(g, Size(g)).list = g.list
      /\ Return(g, Size(g)).out = g.out /\ Return(g, Size(g)).ret = Len(g.list)
      /\ Return(g, Size(g)).freed = g.freed /\ SameSpare(Return(g, Size(g)), g)
  BY <1>6, ReturnFacts DEF Size
<1>8. /\ Edited("unshift", h.list, args) = args \o h.list
      /\ Answer("unshift", h.list, args) = Len(args \o h.list)
  BY DEF Edited, Answer
<1> QED BY <1>1, <1>6, <1>7, <1>8 DEF g, Fair, SameSpare

-----------------------------------------------------------------------------
(* The methods that go over places of the list.                            *)

LEMMA UptoFacts ==
    ASSUME NEW a \in Int, NEW b \in Int
    PROVE  /\ Len(Upto(a, b)) \in Nat
           /\ Len(Upto(a, b)) = IF a <= b THEN b - a ELSE 0
           /\ \A k \in 1..Len(Upto(a, b)) : Upto(a, b)[k] = a + k - 1
<1> DEFINE n == Most(b - a, 0)
           t == Upto(a, b)
<1>1. n \in Nat /\ n = IF a <= b THEN b - a ELSE 0
  BY DEF Most
<1>2. t = [k \in 1..n |-> a + k - 1]
  BY DEF Upto
<1> HIDE DEF n, t
<1>3. t \in Seq(Int) /\ Len(t) = n
  <2>1. \A k \in 1..n : a + k - 1 \in Int
    BY <1>1
  <2>2. DOMAIN t = 1..n /\ t = [k \in 1..n |-> t[k]] /\ \A k \in 1..n : t[k] \in Int
    BY <1>2, <2>1
  <2> QED BY <1>1, <2>2, IsSeq
<1>4. \A k \in 1..n : t[k] = a + k - 1
  BY <1>2
<1> QED BY <1>1, <1>3, <1>4 DEF t

LEMMA DowntoFacts ==
    ASSUME NEW b \in Int, NEW a \in Int
    PROVE  /\ Len(Downto(b, a)) \in Nat
           /\ Len(Downto(b, a)) = IF a <= b THEN b - a + 1 ELSE 0
           /\ \A k \in 1..Len(Downto(b, a)) : Downto(b, a)[k] = b - k + 1
<1> DEFINE n == Most(b - a + 1, 0)
           t == Downto(b, a)
<1>1. n \in Nat /\ n = IF a <= b THEN b - a + 1 ELSE 0
  BY DEF Most
<1>2. t = [k \in 1..n |-> b - k + 1]
  BY DEF Downto
<1> HIDE DEF n, t
<1>3. t \in Seq(Int) /\ Len(t) = n
  <2>1. \A k \in 1..n : b - k + 1 \in Int
    BY <1>1
  <2>2. DOMAIN t = 1..n /\ t = [k \in 1..n |-> t[k]] /\ \A k \in 1..n : t[k] \in Int
    BY <1>2, <2>1
  <2> DEFINE S == Int
  <2>3. \A k \in 1..n : t[k] \in S
    BY <2>2
  <2> HIDE DEF S
  <2>4. t \in Seq(S) /\ Len(t) = n
    BY <1>1, <2>2, <2>3, IsSeq
  <2> QED BY <2>4 DEF S
<1>4. \A k \in 1..n : t[k] = b - k + 1
  BY <1>2
<1> QED BY <1>1, <1>3, <1>4 DEF t

\* The places that the arguments name.
LEMMA ClampFacts ==
    ASSUME NEW s \in Seq(Items), NEW args, NEW k \in Nat, Len(args) \in Nat,
           k <= Len(args) => args[k] \in Int
    PROVE  /\ ActualIndex(Arg(args, k, 0), Len(s)) = From(args, k, s)
           /\ ActualIndex(Arg(args, k, Len(s)), Len(s)) = Until(args, k, s)
           /\ From(args, k, s) \in 0..Len(s) /\ Until(args, k, s) \in 0..Len(s)
<1>1. Len(s) \in Nat
  BY SeqFacts
<1>2. CASE k <= Len(args)
  <2>1. args[k] \in Int /\ args[k] # Undefined
    BY <1>2, ItemsAssumption
  <2>2. /\ From(args, k, s) = Position(args[k], s) /\ Until(args, k, s) = Position(args[k], s)
        /\ Arg(args, k, 0) = args[k] /\ Arg(args, k, Len(s)) = args[k]
    BY <1>2, <2>1 DEF From, Until, Arg
  <2>3. ActualIndex(args[k], Len(s)) \in 0..Len(s) /\ Position(args[k], s) = ActualIndex(args[k], Len(s))
    BY <2>1, PositionFacts
  <2> QED BY <2>2, <2>3
<1>3. CASE ~(k <= Len(args))
  <2>1. /\ From(args, k, s) = 0 /\ Until(args, k, s) = Len(s)
        /\ Arg(args, k, 0) = 0 /\ Arg(args, k, Len(s)) = Len(s)
    BY <1>3 DEF From, Until, Arg
  <2>2. ActualIndex(0, Len(s)) = 0 /\ ActualIndex(Len(s), Len(s)) = Len(s)
    BY <1>1 DEF ActualIndex, Least, Most
  <2> QED BY <1>1, <2>1, <2>2
<1> QED BY <1>2, <1>3

\* Set beforehand is what v is given for.
LEMMA FillStep ==
    ASSUME NEW h, IsHeap(h), NEW v \in Items, NEW i \in 0..(Len(h.list) - 1)
    PROVE  LET g == SetItem(Incref(h, v), i, v)
           IN  /\ IsHeap(g) /\ g.list = [h.list EXCEPT ![i + 1] = v] /\ g.out = h.out
               /\ g.ret = h.ret /\ Fair(g, h)
<1> DEFINE a == Incref(h, v)
           g == SetItem(a, i, v)
<1>1. /\ IsHeap(a) /\ a.list = h.list /\ a.out = h.out /\ a.ret = h.ret /\ a.freed = h.freed
      /\ \A y \in Items : Spare(a, y) = Spare(h, y) + One(v, y)
  BY IncrefFacts
<1> HIDE DEF a
<1>2. /\ IsHeap(g) /\ g.list = [a.list EXCEPT ![i + 1] = v] /\ g.out = a.out /\ g.ret = a.ret
      /\ g.freed = a.freed /\ \A y \in Items : Spare(g, y) = Spare(a, y) - One(v, y)
  <2>1. i \in 0..(Len(a.list) - 1)
    BY <1>1
  <2> QED BY <1>1, <2>1, SetItemFacts
<1> HIDE DEF g
<1>3. ASSUME NEW y \in Items PROVE Spare(g, y) = Spare(h, y)
  <2>1. Spare(h, y) \in Int /\ One(v, y) \in 0..1
    BY HeapFacts, CountInt
  <2> QED BY <1>1, <1>2, <2>1
<1> QED BY <1>1, <1>2, <1>3 DEF a, g, Fair, SameSpare

\* The list s, with t in the places from a to b.
Mixed(s, t, a, b) == [i \in DOMAIN s |-> IF Within(i, a, b) THEN t[i] ELSE s[i]]
Fits(s, t, a, b) == \A i \in 1..Len(s) : Within(i, a, b) => t[i] \in Items

Put(s, i, x) == [s EXCEPT ![i] = x]

LEMMA MixedFacts ==
    ASSUME NEW s \in Seq(Items), NEW t, NEW a \in Int, NEW b \in Int, Fits(s, t, a, b)
    PROVE  /\ Mixed(s, t, a, b) \in Seq(Items) /\ Len(Mixed(s, t, a, b)) = Len(s)
           /\ b <= a => Mixed(s, t, a, b) = s
<1> DEFINE m == Mixed(s, t, a, b)
<1>1. Len(s) \in Nat /\ DOMAIN s = 1..Len(s) /\ s = [i \in 1..Len(s) |-> s[i]]
      /\ \A i \in 1..Len(s) : s[i] \in Items
  BY SeqFacts
<1>2. m = [i \in 1..Len(s) |-> IF Within(i, a, b) THEN t[i] ELSE s[i]]
  BY <1>1 DEF Mixed
<1>3. m \in Seq(Items) /\ Len(m) = Len(s)
  <2>1. \A i \in 1..Len(s) : m[i] \in Items
    BY <1>1, <1>2 DEF Fits
  <2>2. DOMAIN m = 1..Len(s) /\ m = [i \in 1..Len(s) |-> m[i]]
    BY <1>2
  <2> HIDE DEF m
  <2> QED BY <1>1, <2>1, <2>2, IsSeq
<1>4. b <= a => m = s
  <2> SUFFICES ASSUME b <= a PROVE m = s
    OBVIOUS
  <2>1. \A i \in 1..Len(s) : ~Within(i, a, b)
    BY DEF Within
  <2> QED BY <1>1, <1>2, <2>1
<1> QED BY <1>3, <1>4

\* One more place, at the end or at the start.
LEMMA MixedMore ==
    ASSUME NEW s \in Seq(Items), NEW t, NEW a \in Int, NEW b \in Int, a <= b
    PROVE  /\ b + 1 \in 1..Len(s)
                => Put(Mixed(s, t, a, b), b + 1, t[b + 1]) = Mixed(s, t, a, b + 1)
           /\ a \in 1..Len(s) => Put(Mixed(s, t, a, b), a, t[a]) = Mixed(s, t, a - 1, b)
<1> DEFINE m == Mixed(s, t, a, b)
<1>1. Len(s) \in Nat /\ DOMAIN s = 1..Len(s)
  BY SeqFacts
<1>2. m = [i \in 1..Len(s) |-> IF Within(i, a, b) THEN t[i] ELSE s[i]]
  BY <1>1 DEF Mixed
<1>3. ASSUME b + 1 \in 1..Len(s) PROVE Put(m, b + 1, t[b + 1]) = Mixed(s, t, a, b + 1)
  <2>1. \A i \in 1..Len(s) : Within(i, a, b + 1) <=> (Within(i, a, b) \/ i = b + 1)
    BY DEF Within
  <2>2. Mixed(s, t, a, b + 1) = [i \in 1..Len(s) |-> IF Within(i, a, b + 1) THEN t[i] ELSE s[i]]
    BY <1>1 DEF Mixed
  <2> QED BY <1>2, <1>3, <2>1, <2>2 DEF Put
<1>4. ASSUME a \in 1..Len(s) PROVE Put(m, a, t[a]) = Mixed(s, t, a - 1, b)
  <2>1. \A i \in 1..Len(s) : Within(i, a - 1, b) <=> (Within(i, a, b) \/ i = a)
    BY DEF Within
  <2>2. Mixed(s, t, a - 1, b) = [i \in 1..Len(s) |-> IF Within(i, a - 1, b) THEN t[i] ELSE s[i]]
    BY <1>1 DEF Mixed
  <2> QED BY <1>2, <1>4, <2>1, <2>2 DEF Put
<1> QED BY <1>3, <1>4

LEMMA FillFacts ==
    ASSUME NEW h, IsHeap(h), NEW args, Len(args) \in Nat, args[1] \in Items,
           2 <= Len(args) => args[2] \in Int, 3 <= Len(args) => args[3] \in Int
    PROVE  /\ IsHeap(array_fill(h, args)) /\ Fair(array_fill(h, args), h)
           /\ array_fill(h, args).list = Edited("fill", h.list, args)
           /\ array_fill(h, args).out = h.out
<1> DEFINE L == h.list
           v == args[1]
           start == From(args, 2, L)
           end == Until(args, 3, L)
           turns == Upto(start, end)
           n == Len(turns)
           j == ToPython(h, v)
           Body(g, i) == SetItem(Incref(g, v), i, v)
           after[k \in 0..n] == IF k = 0 THEN j ELSE Body(after[k - 1], turns[k])
           t == [i \in 1..Len(L) |-> v]
           D == [k \in 0..n |-> {g \in Heaps(h.ret) : /\ g.list = Mixed(L, t, start, start + k)
                                                      /\ g.out = h.out /\ Fair(g, j)}]
           G == [k \in 1..n |-> [g \in D[k - 1] |-> Body(g, turns[k])]]
<1>7. L \in Seq(Items) /\ Len(L) \in Nat /\ Size(h) = Len(L) /\ v \in Items
  BY HeapFacts
<1>8. /\ ActualIndex(Arg(args, 2, 0), Len(L)) = start /\ start \in 0..Len(L)
      /\ ActualIndex(Arg(args, 3, Len(L)), Len(L)) = end /\ end \in 0..Len(L)
  <2> HIDE DEF L
  <2> QED BY <1>7, ClampFacts DEF L
<1>1. array_fill(h, args) = Return(Decref(after[n], v), "self")
  BY <1>7, <1>8 DEF array_fill, Walk, ReturnSelf
<1>9. /\ n \in Nat /\ n = (IF start <= end THEN end - start ELSE 0)
      /\ \A k \in 1..n : turns[k] = start + k - 1
  <2> HIDE DEF start, end
  <2> QED BY <1>8, UptoFacts
<1>2. n \in Nat
  BY <1>9
<1> HIDE DEF Body, start, end, turns, n
<1>10. /\ IsHeap(j) /\ j.list = L /\ j.out = h.out /\ j.ret = h.ret /\ j.freed = h.freed
       /\ \A y \in Items : Spare(j, y) = Spare(h, y) + One(v, y)
  BY <1>7, IncrefFacts DEF ToPython
<1> HIDE DEF j
<1>11. \A i \in 1..Len(L) : t[i] = v /\ t[i] \in Items
  BY <1>7
<1> HIDE DEF L, t, v
<1>3. j \in D[0]
  <2>1. start + 0 = start /\ start \in Int /\ start <= start
    BY <1>7, <1>8
  <2>2. Fits(L, t, start, start)
    BY <1>11 DEF Fits
  <2>3. Mixed(L, t, start, start) = L
    BY <1>7, <2>1, <2>2, MixedFacts
  <2> QED BY <1>2, <1>10, <2>1, <2>3 DEF IsHeap, Fair, SameSpare
<1>4. ASSUME NEW k \in 1..n, NEW g \in D[k - 1] PROVE Body(g, turns[k]) \in D[k]
  <2>1. k - 1 \in 0..n /\ k \in 0..n
    BY <1>2
  <2>2. /\ IsHeap(g) /\ g.ret = h.ret /\ g.list = Mixed(L, t, start, start + (k - 1))
        /\ g.out = h.out /\ Fair(g, j)
    BY <2>1 DEF IsHeap, Heaps
  <2> DEFINE i == turns[k]
             e == start + (k - 1)
             b == Body(g, i)
  <2>3. /\ i = e /\ e \in Int /\ start <= e /\ e + 1 = start + k /\ e + 1 \in 1..Len(L)
        /\ start \in Int /\ i + 1 = e + 1
    BY <1>7, <1>8, <1>9
  <2> HIDE DEF i, e
  <2>4. g.list = Mixed(L, t, start, e)
    BY <2>2 DEF e
  <2>5. /\ Len(g.list) = Len(L)
        /\ Put(g.list, e + 1, t[e + 1]) = Mixed(L, t, start, e + 1)
    <3>1. Fits(L, t, start, e)
      BY <1>11 DEF Fits
    <3>2. Len(Mixed(L, t, start, e)) = Len(L)
      BY <1>7, <2>3, <3>1, MixedFacts
    <3> QED BY <1>7, <2>3, <2>4, <3>2, MixedMore
  <2>6. /\ IsHeap(b) /\ b.list = [g.list EXCEPT ![i + 1] = v] /\ b.out = g.out /\ b.ret = g.ret
        /\ Fair(b, g)
    <3>1. i \in 0..(Len(g.list) - 1)
      BY <1>7, <2>3, <2>5
    <3> QED BY <1>7, <2>2, <3>1, FillStep DEF Body
  <2> HIDE DEF b
  <2>7. b.list = Mixed(L, t, start, start + k)
    <3>1. t[e + 1] = v
      BY <1>11, <2>3
    <3> QED BY <2>3, <2>5, <2>6, <3>1 DEF Put
  <2>8. b \in Heaps(h.ret) /\ Fair(b, j) /\ b.out = h.out
    BY <2>2, <2>6 DEF IsHeap, Fair, SameSpare
  <2> QED BY <2>1, <2>7, <2>8 DEF b, i
<1>5. after[n] \in D[n]
  <2>1. \A k \in 1..n : \A g \in D[k - 1] : G[k][g] = Body(g, turns[k])
    OBVIOUS
  <2>2. Leads(n, D, G)
    BY <1>4 DEF Leads
  <2>3. \E f : f = [k \in 0..n |-> IF k = 0 THEN j ELSE Body(f[k - 1], turns[k])]
    <3> HIDE DEF D, G, n, after
    <3>1. PICK f : Path(f, n, j, G) /\ Stays(f, n, D)
      BY <1>2, <1>3, <2>2, LoopExists
    <3>2. \A k \in 1..n : G[k][f[k - 1]] = Body(f[k - 1], turns[k])
      <4> TAKE k \in 1..n
      <4>1. k - 1 \in 0..n
        BY <1>2
      <4> QED BY <2>1, <3>1, <4>1 DEF Stays
    <3>3. f = [k \in 0..n |-> IF k = 0 THEN j ELSE Body(f[k - 1], turns[k])]
      <4>1. \A k \in 0..n : k # 0 => k \in 1..n
        BY <1>2
      <4> QED BY <3>1, <3>2, <4>1 DEF Path
    <3> QED BY <3>3
  <2>4. after = [k \in 0..n |-> IF k = 0 THEN j ELSE Body(after[k - 1], turns[k])]
    BY <2>3
  <2> HIDE DEF after
  <2>5. after[0] = j /\ \A k \in 1..n : after[k] = Body(after[k - 1], turns[k])
    BY <1>2, <2>4
  <2> HIDE DEF D, G, n
  <2>6. \A k \in 0..n : after[k] \in D[k]
    BY <1>2, <1>3, <1>4, <2>5, LoopKeeps
  <2> QED BY <1>2, <2>6
<1> DEFINE g == after[n]
<1> HIDE DEF after
<1>6. IsHeap(g) /\ g.list = Mixed(L, t, start, start + n) /\ g.out = h.out /\ Fair(g, j)
  <2>1. n \in 0..n
    BY <1>2
  <2>2. D[n] = {i \in Heaps(h.ret) : /\ i.list = Mixed(L, t, start, start + n)
                                     /\ i.out = h.out /\ Fair(i, j)}
    BY <2>1, Zenon
  <2> HIDE DEF D
  <2> QED BY <1>5, <2>2 DEF IsHeap, Heaps
<1> HIDE DEF g
<1>12. Mixed(L, t, start, start + n) = Edited("fill", L, args)
  <2>1. Edited("fill", L, args) = [i \in DOMAIN L |-> IF Within(i, start, end) THEN v ELSE L[i]]
    BY DEF Edited, start, end, v
  <2>2. DOMAIN L = 1..Len(L)
    BY <1>7, SeqFacts
  <2>3. \A i \in 1..Len(L) : Within(i, start, start + n) <=> Within(i, start, end)
    BY <1>7, <1>8, <1>9 DEF Within
  <2> QED BY <1>11, <2>1, <2>2, <2>3 DEF Mixed
<1> DEFINE e == Decref(g, v)
<1>13. /\ IsHeap(e) /\ e.list = g.list /\ e.out = g.out /\ e.freed = g.freed
       /\ \A y \in Items : Spare(e, y) = Spare(g, y) - One(v, y)
  BY <1>6, <1>7, DecrefFacts
<1> HIDE DEF e
<1>14. ASSUME NEW y \in Items PROVE Spare(e, y) = Spare(h, y)
  <2>1. Spare(h, y) \in Int /\ One(v, y) \in 0..1
    BY HeapFacts, CountInt, <1>7
  <2> QED BY <1>6, <1>10, <1>13, <2>1 DEF Fair, SameSpare
<1>15. /\ IsHeap(Return(e, "self")) /\ Return(e, "self").list = e.list
       /\ Return(e, "self").out = e.out /\ Return(e, "self").freed = e.freed
       /\ SameSpare(Return(e, "self"), e)
  BY <1>13, ReturnFacts
<1> QED BY <1>1, <1>6, <1>10, <1>12, <1>13, <1>14, <1>15 DEF g, e, L, Fair, SameSpare

\* An item is copied, without a reference.
LEMMA CopyStep ==
    ASSUME NEW h, IsHeap(h), NEW i \in 0..(Len(h.list) - 1), NEW k \in 0..(Len(h.list) - 1)
    PROVE  LET g == SetItem(h, i, GetItem(h, k))
           IN  /\ IsHeap(g) /\ g.list = Put(h.list, i + 1, h.list[k + 1]) /\ g.out = h.out
               /\ g.ret = h.ret /\ g.freed = h.freed
<1> DEFINE x == h.list[k + 1]
<1>1. GetItem(h, k) = x
  BY DEF GetItem
<1>2. x \in Items
  <2>1. k + 1 \in 1..Len(h.list) /\ h.list \in Seq(Items)
    BY HeapFacts
  <2> QED BY <2>1, SeqFacts
<1> HIDE DEF x
<1>3. /\ IsHeap(SetItem(h, i, x)) /\ SetItem(h, i, x).list = [h.list EXCEPT ![i + 1] = x]
      /\ SetItem(h, i, x).out = h.out /\ SetItem(h, i, x).ret = h.ret
      /\ SetItem(h, i, x).freed = h.freed
  BY <1>2, SetItemFacts
<1> QED BY <1>1, <1>3 DEF Put, x

\* The list moved by d places.
Moved(s, d) == [i \in 1..Len(s) |-> s[i + d]]

\* From the first place to the last: what is copied has not been written over.
LEMMA CopyUp ==
    ASSUME NEW h, IsHeap(h), NEW target \in 0..Len(h.list), NEW start \in 0..Len(h.list),
           NEW count \in Int, count <= Len(h.list) - target, count <= Len(h.list) - start,
           start >= target \/ target >= start + count
    PROVE  LET Copy(g, i) == SetItem(g, target + i, GetItem(g, start + i))
               g == Walk(Copy, h, Upto(0, count))
           IN  /\ IsHeap(g) /\ g.out = h.out /\ g.freed = h.freed
               /\ g.list = Mixed(h.list, Moved(h.list, start - target), target, target + count)
<1> DEFINE L == h.list
           t == Moved(L, start - target)
           turns == Upto(0, count)
           n == Len(turns)
           Body(g, i) == SetItem(g, target + i, GetItem(g, start + i))
           after[k \in 0..n] == IF k = 0 THEN h ELSE Body(after[k - 1], turns[k])
           D == [k \in 0..n |-> {g \in Heaps(h.ret) : /\ g.list = Mixed(L, t, target, target + k)
                                                      /\ g.out = h.out /\ g.freed = h.freed}]
           G == [k \in 1..n |-> [g \in D[k - 1] |-> Body(g, turns[k])]]
<1>7. L \in Seq(Items) /\ Len(L) \in Nat /\ Size(h) = Len(L) /\ target \in Nat /\ start \in Nat
  BY HeapFacts
<1>1. LET Copy(g, i) == SetItem(g, target + i, GetItem(g, start + i))
      IN  Walk(Copy, h, Upto(0, count)) = after[n]
  BY DEF Walk
<1>9. /\ n \in Nat /\ n = (IF 0 <= count THEN count ELSE 0)
      /\ \A k \in 1..n : turns[k] = k - 1
  <2> DEFINE z == 0
  <2>1. z \in Int
    OBVIOUS
  <2> HIDE DEF z
  <2>2. /\ Len(Upto(z, count)) \in Nat
        /\ Len(Upto(z, count)) = IF z <= count THEN count - z ELSE 0
        /\ \A k \in 1..Len(Upto(z, count)) : Upto(z, count)[k] = z + k - 1
    BY <2>1, UptoFacts
  <2>3. turns = Upto(z, count)
    BY DEF z
  <2> HIDE DEF turns
  <2> QED BY <2>2, <2>3 DEF z
<1>2. n \in Nat
  BY <1>9
<1> HIDE DEF Body, turns, n
<1>8. \A i \in 1..Len(L) : i + (start - target) \in 1..Len(L) =>
          t[i] = L[i + (start - target)] /\ t[i] \in Items
  BY <1>7, SeqFacts DEF Moved
<1>10. \A i \in 1..Len(L) : L[i] \in Items
  BY <1>7, SeqFacts
<1> HIDE DEF L, t
<1>11. ASSUME NEW k \in 0..n PROVE Fits(L, t, target, target + k) /\ target + k \in Int
  <2>1. ASSUME NEW i \in 1..Len(L), Within(i, target, target + k) PROVE i + (start - target) \in 1..Len(L)
    BY <1>7, <1>9, <2>1 DEF Within, L
  <2> QED BY <1>7, <1>8, <1>9, <2>1 DEF Fits
<1>3. h \in D[0]
  <2>1. target + 0 = target /\ target \in Int /\ target <= target /\ 0 \in 0..n
    BY <1>2, <1>7
  <2>2. Fits(L, t, target, target)
    BY <1>11, <2>1
  <2>3. Mixed(L, t, target, target) = L
    BY <1>7, <2>1, <2>2, MixedFacts
  <2> QED BY <1>2, <2>1, <2>3 DEF IsHeap, L
<1>4. ASSUME NEW k \in 1..n, NEW g \in D[k - 1] PROVE Body(g, turns[k]) \in D[k]
  <2> DEFINE i == turns[k]
             e == target + (k - 1)
             f == start + (k - 1)
             b == Body(g, i)
  <2>1. k - 1 \in 0..n /\ k \in 0..n
    BY <1>2
  <2>2. /\ IsHeap(g) /\ g.ret = h.ret /\ g.list = Mixed(L, t, target, e)
        /\ g.out = h.out /\ g.freed = h.freed
    BY <2>1 DEF IsHeap, Heaps
  <2>3. /\ target + i = e /\ start + i = f /\ e \in Int /\ target <= e /\ e + 1 = target + k
        /\ e + 1 \in 1..Len(L) /\ target \in Int /\ f \in Int /\ f + 1 \in 1..Len(L)
        /\ e + 1 + (start - target) = f + 1
        /\ ~Within(f + 1, target, e)
    <3>1. k \in Nat /\ k >= 1 /\ k <= count /\ i = k - 1
      BY <1>9
    <3>2. Len(L) \in Nat /\ count <= Len(L) - target /\ count <= Len(L) - start
      BY <1>7 DEF L
    <3> HIDE DEF i
    <3>3. target + i = e /\ start + i = f /\ e \in Int /\ f \in Int /\ target \in Int
      BY <1>7, <3>1
    <3>4. target <= e /\ e + 1 = target + k /\ e + 1 + (start - target) = f + 1
      BY <1>7, <3>1
    <3>5. e + 1 \in 1..Len(L)
      <4> HIDE DEF f
      <4> QED BY <1>7, <3>1, <3>2, <3>3, <3>4
    <3>6. f + 1 \in 1..Len(L)
      BY <1>7, <3>1, <3>2
    <3>7. ~Within(f + 1, target, e)
      <4>1. start >= target \/ target >= start + count
        OBVIOUS
      <4>2. ~(target < f + 1 /\ f + 1 <= e)
        BY <1>7, <3>1, <4>1
      <4> QED BY <4>2 DEF Within
    <3> QED BY <3>3, <3>4, <3>5, <3>6, <3>7
  <2>4. Fits(L, t, target, e)
    BY <1>11, <2>1
  <2> HIDE DEF i, e, f
  <2>5. Len(g.list) = Len(L)
    BY <1>7, <2>2, <2>3, <2>4, MixedFacts
  <2>6. Put(g.list, e + 1, t[e + 1]) = Mixed(L, t, target, e + 1)
    BY <1>7, <2>2, <2>3, MixedMore
  <2>7. g.list[f + 1] = t[e + 1]
    <3>1. g.list[f + 1] = L[f + 1]
      BY <1>7, <2>2, <2>3, SeqFacts DEF Mixed
    <3> QED BY <1>8, <2>3, <3>1
  <2>8. /\ IsHeap(b) /\ b.list = Put(g.list, e + 1, g.list[f + 1]) /\ b.out = g.out /\ b.ret = g.ret
        /\ b.freed = g.freed
    <3>1. e \in 0..(Len(g.list) - 1) /\ f \in 0..(Len(g.list) - 1)
      BY <1>7, <2>3, <2>5
    <3>2. b = SetItem(g, e, GetItem(g, f))
      BY <2>3 DEF Body
    <3> HIDE DEF b
    <3> QED BY <2>2, <3>1, <3>2, CopyStep
  <2> HIDE DEF b
  <2>9. b.list = Mixed(L, t, target, target + k)
    BY <2>3, <2>6, <2>7, <2>8
  <2>10. b \in Heaps(h.ret) /\ b.freed = h.freed /\ b.out = h.out
    BY <2>2, <2>8 DEF IsHeap
  <2> QED BY <2>1, <2>9, <2>10 DEF b, i
<1>5. after[n] \in D[n]
  <2>1. \A k \in 1..n : \A g \in D[k - 1] : G[k][g] = Body(g, turns[k])
    OBVIOUS
  <2>2. Leads(n, D, G)
    BY <1>4 DEF Leads
  <2>3. \E f : f = [k \in 0..n |-> IF k = 0 THEN h ELSE Body(f[k - 1], turns[k])]
    <3> HIDE DEF D, G, n, after
    <3>1. PICK f : Path(f, n, h, G) /\ Stays(f, n, D)
      BY <1>2, <1>3, <2>2, LoopExists
    <3>2. \A k \in 1..n : G[k][f[k - 1]] = Body(f[k - 1], turns[k])
      <4> TAKE k \in 1..n
      <4>1. k - 1 \in 0..n
        BY <1>2
      <4> QED BY <2>1, <3>1, <4>1 DEF Stays
    <3>3. f = [k \in 0..n |-> IF k = 0 THEN h ELSE Body(f[k - 1], turns[k])]
      <4>1. \A k \in 0..n : k # 0 => k \in 1..n
        BY <1>2
      <4> QED BY <3>1, <3>2, <4>1 DEF Path
    <3> QED BY <3>3
  <2>4. after = [k \in 0..n |-> IF k = 0 THEN h ELSE Body(after[k - 1], turns[k])]
    BY <2>3
  <2> HIDE DEF after
  <2>5. after[0] = h /\ \A k \in 1..n : after[k] = Body(after[k - 1], turns[k])
    BY <1>2, <2>4
  <2> HIDE DEF D, G, n
  <2>6. \A k \in 0..n : after[k] \in D[k]
    BY <1>2, <1>3, <1>4, <2>5, LoopKeeps
  <2> QED BY <1>2, <2>6
<1> DEFINE g == after[n]
<1> HIDE DEF after
<1>6. IsHeap(g) /\ g.list = Mixed(L, t, target, target + n) /\ g.out = h.out /\ g.freed = h.freed
  <2>1. n \in 0..n
    BY <1>2
  <2>2. D[n] = {i \in Heaps(h.ret) : /\ i.list = Mixed(L, t, target, target + n)
                                     /\ i.out = h.out /\ i.freed = h.freed}
    BY <2>1, Zenon
  <2> HIDE DEF D
  <2> QED BY <1>5, <2>2 DEF IsHeap, Heaps
<1> HIDE DEF g
<1>12. Mixed(L, t, target, target + n) = Mixed(L, t, target, target + count)
  <2>1. DOMAIN L = 1..Len(L)
    BY <1>7, SeqFacts
  <2>2. \A i \in 1..Len(L) : Within(i, target, target + n) <=> Within(i, target, target + count)
    BY <1>7, <1>9 DEF Within
  <2> QED BY <2>1, <2>2 DEF Mixed
<1> QED BY <1>1, <1>6, <1>12 DEF g, L, t

\* From the last place to the first, likewise.
LEMMA CopyDown ==
    ASSUME NEW h, IsHeap(h), NEW target \in 0..Len(h.list), NEW start \in 0..Len(h.list),
           NEW count \in Int, count <= Len(h.list) - target, count <= Len(h.list) - start,
           start < target, 1 <= count
    PROVE  LET Copy(g, i) == SetItem(g, target + i, GetItem(g, start + i))
               g == Walk(Copy, h, Downto(count - 1, 0))
           IN  /\ IsHeap(g) /\ g.out = h.out /\ g.freed = h.freed
               /\ g.list = Mixed(h.list, Moved(h.list, start - target), target, target + count)
<1> DEFINE L == h.list
           t == Moved(L, start - target)
           turns == Downto(count - 1, 0)
           n == Len(turns)
           Body(g, i) == SetItem(g, target + i, GetItem(g, start + i))
           after[k \in 0..n] == IF k = 0 THEN h ELSE Body(after[k - 1], turns[k])
           D == [k \in 0..n |-> {g \in Heaps(h.ret) : /\ g.list = Mixed(L, t, target + count - k, target + count)
                                                      /\ g.out = h.out /\ g.freed = h.freed}]
           G == [k \in 1..n |-> [g \in D[k - 1] |-> Body(g, turns[k])]]
<1>7. L \in Seq(Items) /\ Len(L) \in Nat /\ Size(h) = Len(L) /\ target \in Nat /\ start \in Nat
  BY HeapFacts
<1>1. LET Copy(g, i) == SetItem(g, target + i, GetItem(g, start + i))
      IN  Walk(Copy, h, Downto(count - 1, 0)) = after[n]
  BY DEF Walk
<1>9. n \in Nat /\ n = count /\ \A k \in 1..n : turns[k] = count - k
  <2> DEFINE z == 0
             c == count - 1
  <2>1. z \in Int /\ c \in Int /\ z <= c /\ c - z + 1 = count
    OBVIOUS
  <2> HIDE DEF z, c
  <2>2. /\ Len(Downto(c, z)) \in Nat
        /\ Len(Downto(c, z)) = IF z <= c THEN c - z + 1 ELSE 0
        /\ \A k \in 1..Len(Downto(c, z)) : Downto(c, z)[k] = c - k + 1
    BY <2>1, DowntoFacts
  <2>3. turns = Downto(c, z)
    BY DEF z, c
  <2> HIDE DEF turns
  <2> QED BY <2>1, <2>2, <2>3 DEF c
<1>2. n \in Nat
  BY <1>9
<1> HIDE DEF Body, turns, n
<1>8. \A i \in 1..Len(L) : i + (start - target) \in 1..Len(L) =>
          t[i] = L[i + (start - target)] /\ t[i] \in Items
  BY <1>7, SeqFacts DEF Moved
<1>10. \A i \in 1..Len(L) : L[i] \in Items
  BY <1>7, SeqFacts
<1> HIDE DEF L, t
<1>11. ASSUME NEW k \in 0..n 
      PROVE  Fits(L, t, target + count - k, target + count)
  <2>1. ASSUME NEW i \in 1..Len(L), Within(i, target + count - k, target + count)
        PROVE  i + (start - target) \in 1..Len(L)
    BY <1>7, <1>9, <2>1 DEF Within, L
  <2> QED BY <1>7, <1>8, <1>9, <2>1 DEF Fits
<1>3. h \in D[0]
  <2> DEFINE e == target + count
  <2>1. target + count - 0 = e /\ e \in Int /\ e <= e /\ 0 \in 0..n
    BY <1>2, <1>7
  <2>2. Fits(L, t, e, e)
    BY <1>11, <2>1
  <2>3. Mixed(L, t, e, e) = L
    <3> HIDE DEF e
    <3> QED BY <1>7, <2>1, <2>2, MixedFacts
  <2> QED BY <1>2, <2>1, <2>3 DEF IsHeap, L
<1>4. ASSUME NEW k \in 1..n, NEW g \in D[k - 1] PROVE Body(g, turns[k]) \in D[k]
  <2> DEFINE i == turns[k]
             end == target + count
             e == target + count - (k - 1)
             f == start + count - (k - 1)
             b == Body(g, i)
  <2>1. k - 1 \in 0..n /\ k \in 0..n
    BY <1>2
  <2>2. /\ IsHeap(g) /\ g.ret = h.ret /\ g.list = Mixed(L, t, e, end)
        /\ g.out = h.out /\ g.freed = h.freed
    BY <2>1 DEF IsHeap, Heaps
  <2>3. /\ target + i = e - 1 /\ start + i = f - 1 /\ e \in Int /\ e <= end
        /\ e - 1 = target + count - k /\ end \in Int
        /\ e \in 1..Len(L) /\ f \in Int /\ f \in 1..Len(L)
        /\ e + (start - target) = f
        /\ ~Within(f, e, end)
    <3>1. k \in Nat /\ k >= 1 /\ k <= count /\ i = count - k
      BY <1>9
    <3>2. Len(L) \in Nat /\ count <= Len(L) - target /\ count <= Len(L) - start
      BY <1>7 DEF L
    <3> HIDE DEF i
    <3> QED BY <1>7, <3>1, <3>2 DEF Within
  <2>4. Fits(L, t, e, end)
    BY <1>11, <2>1
  <2> HIDE DEF i, e, f, end
  <2>5. Len(g.list) = Len(L)
    BY <1>7, <2>2, <2>3, <2>4, MixedFacts
  <2>6. Put(g.list, e, t[e]) = Mixed(L, t, e - 1, end)
    BY <1>7, <2>2, <2>3, MixedMore
  <2>7. g.list[f] = t[e]
    <3>1. g.list[f] = L[f]
      BY <1>7, <2>2, <2>3, SeqFacts DEF Mixed
    <3> QED BY <1>8, <2>3, <3>1
  <2>8. /\ IsHeap(b) /\ b.list = Put(g.list, e, g.list[f]) /\ b.out = g.out /\ b.ret = g.ret
        /\ b.freed = g.freed
    <3>1. /\ e - 1 \in 0..(Len(g.list) - 1) /\ f - 1 \in 0..(Len(g.list) - 1)
          /\ e - 1 + 1 = e /\ f - 1 + 1 = f
      <4>1. Len(g.list) \in Nat /\ e \in 1..Len(g.list) /\ f \in 1..Len(g.list)
        BY <1>7, <2>3, <2>5
      <4> HIDE DEF b
      <4> QED BY <4>1
    <3>2. b = SetItem(g, e - 1, GetItem(g, f - 1))
      BY <2>3 DEF Body
    <3> HIDE DEF b
    <3>3. b.list = Put(g.list, e - 1 + 1, g.list[f - 1 + 1])
      BY <2>2, <3>1, <3>2, CopyStep
    <3> QED BY <2>2, <3>1, <3>2, <3>3, CopyStep
  <2> HIDE DEF b
  <2>9. b.list = Mixed(L, t, target + count - k, target + count)
    BY <2>3, <2>6, <2>7, <2>8 DEF end
  <2>10. b \in Heaps(h.ret) /\ b.freed = h.freed /\ b.out = h.out
    BY <2>2, <2>8 DEF IsHeap
  <2> QED BY <2>1, <2>9, <2>10 DEF b, i
<1>5. after[n] \in D[n]
  <2>1. \A k \in 1..n : \A g \in D[k - 1] : G[k][g] = Body(g, turns[k])
    OBVIOUS
  <2>2. Leads(n, D, G)
    BY <1>4 DEF Leads
  <2>3. \E f : f = [k \in 0..n |-> IF k = 0 THEN h ELSE Body(f[k - 1], turns[k])]
    <3> HIDE DEF D, G, n, after
    <3>1. PICK f : Path(f, n, h, G) /\ Stays(f, n, D)
      BY <1>2, <1>3, <2>2, LoopExists
    <3>2. \A k \in 1..n : G[k][f[k - 1]] = Body(f[k - 1], turns[k])
      <4> TAKE k \in 1..n
      <4>1. k - 1 \in 0..n
        BY <1>2
      <4> QED BY <2>1, <3>1, <4>1 DEF Stays
    <3>3. f = [k \in 0..n |-> IF k = 0 THEN h ELSE Body(f[k - 1], turns[k])]
      <4>1. \A k \in 0..n : k # 0 => k \in 1..n
        BY <1>2
      <4> QED BY <3>1, <3>2, <4>1 DEF Path
    <3> QED BY <3>3
  <2>4. after = [k \in 0..n |-> IF k = 0 THEN h ELSE Body(after[k - 1], turns[k])]
    BY <2>3
  <2> HIDE DEF after
  <2>5. after[0] = h /\ \A k \in 1..n : after[k] = Body(after[k - 1], turns[k])
    BY <1>2, <2>4
  <2> HIDE DEF D, G, n
  <2>6. \A k \in 0..n : after[k] \in D[k]
    BY <1>2, <1>3, <1>4, <2>5, LoopKeeps
  <2> QED BY <1>2, <2>6
<1> DEFINE g == after[n]
<1> HIDE DEF after
<1>6. IsHeap(g) /\ g.list = Mixed(L, t, target + count - n, target + count) /\ g.out = h.out /\ g.freed = h.freed
  <2>1. n \in 0..n
    BY <1>2
  <2>2. D[n] = {i \in Heaps(h.ret) : /\ i.list = Mixed(L, t, target + count - n, target + count)
                                     /\ i.out = h.out /\ i.freed = h.freed}
    BY <2>1, Zenon
  <2> HIDE DEF D
  <2> QED BY <1>5, <2>2 DEF IsHeap, Heaps
<1> HIDE DEF g
<1>12. target + count - n = target
  BY <1>7, <1>9
<1>13. IsHeap(g) /\ g.out = h.out /\ g.freed = h.freed
       /\ g.list = Mixed(h.list, Moved(h.list, start - target), target, target + count)
  BY <1>6, <1>12 DEF L, t
<1>14. LET Copy(f, i) == SetItem(f, target + i, GetItem(f, start + i))
       IN  Walk(Copy, h, Downto(count - 1, 0)) = g
  BY <1>1, Zenon DEF g
<1> HIDE DEF g
<1> QED BY <1>13, <1>14, Zenon

\* What copyWithin copies, once its arguments are indices.
CopyOver(h, target, start, end, size) ==
    LET count == Least(end - start, size - target)
        overlap == start < target /\ target < start + count
        Copy(g, i) == SetItem(g, target + i, GetItem(g, start + i))
    IN  Walk(Copy, h, IF overlap THEN Downto(count - 1, 0) ELSE Upto(0, count))

LEMMA CopyOverFacts ==
    ASSUME NEW h, IsHeap(h), NEW target \in 0..Len(h.list), NEW start \in 0..Len(h.list),
           NEW end \in 0..Len(h.list)
    PROVE  LET g == CopyOver(h, target, start, end, Len(h.list))
               move == start - target
           IN  /\ IsHeap(g) /\ g.out = h.out /\ g.freed = h.freed
               /\ g.list = [i \in DOMAIN h.list |->
                              IF target < i /\ Within(i + move, start, end)
                              THEN h.list[i + move] ELSE h.list[i]]
<1> DEFINE L == h.list
           move == start - target
           count == Least(end - start, Len(L) - target)
           overlap == start < target /\ target < start + count
           Copy(g, i) == SetItem(g, target + i, GetItem(g, start + i))
           g == CopyOver(h, target, start, end, Len(L))
           t == Moved(L, move)
<1>1. L \in Seq(Items) /\ Len(L) \in Nat /\ DOMAIN L = 1..Len(L)
  BY HeapFacts, SeqFacts
<1>2. target \in Nat /\ start \in Nat /\ end \in Nat /\ target <= Len(L) /\ start <= Len(L)
      /\ end <= Len(L)
  BY <1>1
<1>3. g = Walk(Copy, h, IF overlap THEN Downto(count - 1, 0) ELSE Upto(0, count))
  BY Zenon DEF CopyOver
<1>4. count \in Int /\ count <= Len(L) - target /\ count <= Len(L) - start
      /\ count <= end - start /\ (count = end - start \/ count = Len(L) - target)
  <2> HIDE DEF L
  <2> QED BY <1>1, <1>2 DEF Least
<1> HIDE DEF g, count
<1>5. IsHeap(g) /\ g.out = h.out /\ g.freed = h.freed /\ g.list = Mixed(L, t, target, target + count)
  <2>1. CASE overlap
    <3>a. (IF overlap THEN Downto(count - 1, 0) ELSE Upto(0, count)) = Downto(count - 1, 0)
      BY <2>1
    <3>1. g = Walk(Copy, h, Downto(count - 1, 0))
      <4> HIDE DEF overlap
      <4> QED BY <1>3, <3>a, Zenon
    <3>2. start < target /\ 1 <= count
      BY <1>2, <1>4, <2>1
    <3> QED BY <1>4, <3>1, <3>2, CopyDown DEF Walk
  <2>2. CASE ~overlap
    <3>a. (IF overlap THEN Downto(count - 1, 0) ELSE Upto(0, count)) = Upto(0, count)
      BY <2>2
    <3>1. g = Walk(Copy, h, Upto(0, count))
      <4> HIDE DEF overlap
      <4> QED BY <1>3, <3>a, Zenon
    <3>2. start >= target \/ target >= start + count
      BY <1>2, <1>4, <2>2
    <3> QED BY <1>4, <3>1, <3>2, CopyUp DEF Walk
  <2> QED BY <2>1, <2>2
<1> HIDE DEF L
<1>6. \A i \in 1..Len(L) : Within(i, target, target + count)
                             <=> target < i /\ Within(i + move, start, end)
  <2> TAKE i \in 1..Len(L)
  <2> DEFINE size == Len(L)
  <2>a. target \in Int /\ start \in Int /\ end \in Int
    BY <1>2
  <2>b. count \in Int
    BY <1>4
  <2>c. size \in Nat
    BY <1>1
  <2>d. i \in Int /\ i <= size /\ i >= 1
    <3> HIDE DEF size
    <3> QED BY <2>c DEF size
  <2>1. i \in Int /\ i <= size /\ i >= 1 /\ size \in Nat /\ target \in Int /\ start \in Int
        /\ end \in Int /\ count \in Int
    BY <2>a, <2>b, <2>c, <2>d
  <2>2. count <= size - target /\ count <= end - start
        /\ (count = end - start \/ count = size - target)
    BY <1>4
  <2> HIDE DEF size
  <2>3. (target < i /\ i <= target + count)
          <=> (target < i /\ start < i + (start - target) /\ i + (start - target) <= end)
    BY <2>1, <2>2
  <2> QED BY <2>3 DEF Within
<1>7. t = [i \in 1..Len(L) |-> L[i + move]]
  BY DEF Moved
<1> HIDE DEF move, t
<1>8. \A i \in 1..Len(L) : t[i] = L[i + move]
  BY <1>7
<1>9. Mixed(L, t, target, target + count)
        = [i \in 1..Len(L) |-> IF Within(i, target, target + count) THEN t[i] ELSE L[i]]
  BY <1>1 DEF Mixed
<1>10. Mixed(L, t, target, target + count)
         = [i \in DOMAIN L |-> IF target < i /\ Within(i + move, start, end)
                                THEN L[i + move] ELSE L[i]]
  BY <1>1, <1>6, <1>8, <1>9
<1> QED BY <1>5, <1>10 DEF g, L, move

LEMMA CopyWithinFacts ==
    ASSUME NEW h, IsHeap(h), NEW args, Len(args) \in Nat,
           \A k \in 1..3 : k <= Len(args) => args[k] \in Int
    PROVE  /\ IsHeap(array_copyWithin(h, args)) /\ array_copyWithin(h, args).out = h.out
           /\ array_copyWithin(h, args).freed = h.freed
           /\ array_copyWithin(h, args).list = Edited("copyWithin", h.list, args)
<1> DEFINE L == h.list
           target == From(args, 1, L)
           start == From(args, 2, L)
           end == Until(args, 3, L)
           g == CopyOver(h, target, start, end, Len(L))
<1>1. L \in Seq(Items) /\ Len(L) \in Nat /\ Size(h) = Len(L)
  BY HeapFacts
<1>2. /\ ActualIndex(Arg(args, 1, 0), Len(L)) = target /\ target \in 0..Len(L)
      /\ ActualIndex(Arg(args, 2, 0), Len(L)) = start /\ start \in 0..Len(L)
      /\ ActualIndex(Arg(args, 3, Len(L)), Len(L)) = end /\ end \in 0..Len(L)
  <2>1. 1 \in Nat /\ 2 \in Nat /\ 3 \in Nat /\ 1 \in 1..3 /\ 2 \in 1..3 /\ 3 \in 1..3
    OBVIOUS
  <2> HIDE DEF L
  <2> QED BY <1>1, <2>1, ClampFacts
<1>3. array_copyWithin(h, args) = Return(g, "self")
  <2>1. array_copyWithin(h, args) =
          Return(CopyOver(h, ActualIndex(Arg(args, 1, 0), Size(h)), ActualIndex(Arg(args, 2, 0), Size(h)),
                          ActualIndex(Arg(args, 3, Size(h)), Size(h)), Size(h)), "self")
    BY Zenon DEF array_copyWithin, ReturnSelf, CopyOver
  <2> HIDE DEF L, target, start, end
  <2> QED BY <1>1, <1>2, <2>1
<1>4. Edited("copyWithin", L, args) =
        LET move == start - target
        IN  [i \in DOMAIN L |-> IF target < i /\ Within(i + move, start, end)
                                 THEN L[i + move] ELSE L[i]]
  BY DEF Edited
<1> HIDE DEF target, start, end
<1>5. IsHeap(g) /\ g.list = Edited("copyWithin", L, args) /\ g.out = h.out /\ g.freed = h.freed
  <2> HIDE DEF L, g
  <2>1. /\ IsHeap(g) /\ g.out = h.out /\ g.freed = h.freed
        /\ g.list = LET move == start - target
                   IN  [i \in DOMAIN L |-> IF target < i /\ Within(i + move, start, end)
                                            THEN L[i + move] ELSE L[i]]
    <3>1. target \in 0..Len(h.list) /\ start \in 0..Len(h.list) /\ end \in 0..Len(h.list)
      BY <1>2 DEF L
    <3>2. LET f == CopyOver(h, target, start, end, Len(h.list))
              move == start - target
          IN  /\ IsHeap(f) /\ f.out = h.out /\ f.freed = h.freed
              /\ f.list = [i \in DOMAIN h.list |->
                             IF target < i /\ Within(i + move, start, end)
                             THEN h.list[i + move] ELSE h.list[i]]
      BY <3>1, CopyOverFacts, Zenon
    <3> QED BY <3>2, Zenon DEF L, g
  <2> QED BY <1>4, <2>1
<1> HIDE DEF g
<1>7. /\ IsHeap(Return(g, "self")) /\ Return(g, "self").list = g.list
      /\ Return(g, "self").out = g.out /\ Return(g, "self").freed = g.freed
  BY <1>5, ReturnFacts
<1> QED BY <1>3, <1>5, <1>7

\* What delete gives the list is not its own, and so costs None a reference.
LEMMA DeleteFacts ==
    ASSUME NEW h, IsHeap(h), NEW args, args[1] \in Int
    PROVE  /\ IsHeap(delete_(h, args)) /\ delete_(h, args).out = h.out
           /\ delete_(h, args).freed = h.freed
           /\ args[1] \in 0..(Len(h.list) - 1)
                => /\ delete_(h, args).list = Edited("delete", h.list, args)
                   /\ delete_(h, args).ret = TRUE
           /\ args[1] \notin 0..(Len(h.list) - 1)
                => /\ delete_(h, args).ret = FALSE /\ delete_(h, args).list = h.list
                   /\ Fair(delete_(h, args), h)
<1> DEFINE L == h.list
           i == args[1]
<1>1. L \in Seq(Items) /\ Len(L) \in Nat /\ Size(h) = Len(L) /\ DOMAIN L = 1..Len(L)
  BY HeapFacts, SeqFacts
<1>2. CASE i \in 0..(Len(L) - 1)
  <2> DEFINE g == SetItem(h, i, None)
  <2>1. delete_(h, args) = Return(g, TRUE)
    BY <1>1, <1>2 DEF delete_
  <2>2. /\ IsHeap(g) /\ g.list = [L EXCEPT ![i + 1] = None] /\ g.out = h.out /\ g.freed = h.freed
    BY <1>2, ItemsAssumption, SetItemFacts
  <2> HIDE DEF g
  <2>3. /\ IsHeap(Return(g, TRUE)) /\ Return(g, TRUE).list = g.list /\ Return(g, TRUE).ret = TRUE
        /\ Return(g, TRUE).out = g.out /\ Return(g, TRUE).freed = g.freed
    BY <2>2, ReturnFacts
  <2>4. Edited("delete", L, args) = [k \in DOMAIN L |-> IF k = i + 1 THEN None ELSE L[k]]
    BY DEF Edited
  <2>5. [L EXCEPT ![i + 1] = None] = [k \in DOMAIN L |-> IF k = i + 1 THEN None ELSE L[k]]
    <3> HIDE DEF i
    <3> QED BY <1>1
  <2> QED BY <1>2, <2>1, <2>2, <2>3, <2>4, <2>5
<1>3. CASE i \notin 0..(Len(L) - 1)
  <2>1. delete_(h, args) = Return(h, FALSE)
    BY <1>1, <1>3 DEF delete_
  <2>2. /\ IsHeap(Return(h, FALSE)) /\ Return(h, FALSE).list = h.list
        /\ Return(h, FALSE).ret = FALSE /\ Return(h, FALSE).out = h.out
        /\ Return(h, FALSE).freed = h.freed /\ SameSpare(Return(h, FALSE), h)
    BY ReturnFacts
  <2> QED BY <1>3, <2>1, <2>2 DEF Fair
<1> QED BY <1>2, <1>3

\* The list with k more items, all None.
Padded(s, k) == [i \in 1..(Len(s) + k) |-> IF i <= Len(s) THEN s[i] ELSE None]

LEMMA PaddedFacts ==
    ASSUME NEW s \in Seq(Items), NEW k \in Nat
    PROVE  /\ Padded(s, k) \in Seq(Items) /\ Len(Padded(s, k)) = Len(s) + k
           /\ Padded(s, 0) = s
           /\ Append(Padded(s, k), None) = Padded(s, k + 1)
<1>1. Len(s) \in Nat /\ s = [i \in 1..Len(s) |-> s[i]] /\ \A i \in 1..Len(s) : s[i] \in Items
  BY SeqFacts
<1>2. ASSUME NEW j \in Nat PROVE Padded(s, j) \in Seq(Items) /\ Len(Padded(s, j)) = Len(s) + j
  <2> DEFINE p == Padded(s, j)
             n == Len(s) + j
  <2>1. n \in Nat /\ p = [i \in 1..n |-> IF i <= Len(s) THEN s[i] ELSE None]
    BY <1>1 DEF Padded
  <2>2. \A i \in 1..n : p[i] \in Items
    BY <1>1, <2>1, ItemsAssumption
  <2>3. DOMAIN p = 1..n /\ p = [i \in 1..n |-> p[i]]
    BY <2>1
  <2> HIDE DEF p, n
  <2>4. p \in Seq(Items) /\ Len(p) = n
    BY <2>1, <2>2, <2>3, IsSeq
  <2> QED BY <2>4 DEF p, n
<1>3. Padded(s, 0) = s
  <2>1. Len(s) + 0 = Len(s)
    BY <1>1
  <2> QED BY <1>1, <2>1 DEF Padded
<1>4. Append(Padded(s, k), None) = Padded(s, k + 1)
  <2> DEFINE p == Padded(s, k)
             q == Padded(s, k + 1)
  <2>1. /\ p \in Seq(Items) /\ Len(p) = Len(s) + k
        /\ q \in Seq(Items) /\ Len(q) = Len(s) + k + 1
    BY <1>1, <1>2
  <2>2. /\ \A i \in 1..(Len(s) + k) : p[i] = q[i]
        /\ q[Len(s) + k + 1] = None
    BY <1>1 DEF Padded
  <2> HIDE DEF p, q
  <2>3. /\ Append(p, None) \in Seq(Items) /\ Len(Append(p, None)) = Len(p) + 1
        /\ \A i \in 1..Len(p) : Append(p, None)[i] = p[i]
        /\ Append(p, None)[Len(p) + 1] = None
    BY <2>1, ItemsAssumption, AppendProperties
  <2>4. ASSUME NEW i \in 1..Len(q) PROVE Append(p, None)[i] = q[i]
    <3>1. CASE i = Len(q)
      BY <1>1, <2>1, <2>2, <2>3, <3>1
    <3>2. CASE i # Len(q)
      BY <1>1, <2>1, <2>2, <2>3, <3>2
    <3> QED BY <3>1, <3>2
  <2>5. Append(p, None) = q
    BY <1>1, <2>1, <2>3, <2>4, SeqEqual
  <2> QED BY <2>5 DEF p, q
<1> QED BY <1>2, <1>3, <1>4

\* An assignment beyond the end fills the gap first.
LEMMA GapFacts ==
    ASSUME NEW h, IsHeap(h), NEW to \in Nat, to >= Len(h.list)
    PROVE  LET g == Walk(LAMBDA g, i : ListAppend(g, None), h, Upto(Size(h), to))
           IN  /\ IsHeap(g) /\ g.list = Padded(h.list, to - Len(h.list)) /\ g.out = h.out
               /\ g.ret = h.ret /\ Fair(g, h)
<1> DEFINE L == h.list
           turns == Upto(Len(L), to)
           n == Len(turns)
           Body(g, i) == ListAppend(g, None)
           after[k \in 0..n] == IF k = 0 THEN h ELSE Body(after[k - 1], turns[k])
           D == [k \in 0..n |-> {g \in Heaps(h.ret) : /\ g.list = Padded(L, k)
                                                      /\ g.out = h.out /\ Fair(g, h)}]
           G == [k \in 1..n |-> [g \in D[k - 1] |-> Body(g, turns[k])]]
<1>7. L \in Seq(Items) /\ Len(L) \in Nat /\ Size(h) = Len(L)
  BY HeapFacts
<1>1. Walk(LAMBDA g, i : ListAppend(g, None), h, Upto(Size(h), to)) = after[n]
  BY <1>7, Zenon DEF Walk
<1>10. n \in Nat /\ n = to - Len(L)
  <2>1. Len(L) \in Int /\ to \in Int /\ Len(L) <= to
    BY <1>7
  <2> HIDE DEF L
  <2> QED BY <2>1, UptoFacts
<1>2. n \in Nat
  BY <1>10
<1> HIDE DEF Body, turns, n
<1>3. h \in D[0]
  <2>1. Padded(L, 0) = L /\ 0 \in 0..n
    BY <1>2, <1>7, PaddedFacts
  <2> QED BY <2>1 DEF IsHeap, Fair, SameSpare
<1>4. ASSUME NEW k \in 1..n, NEW g \in D[k - 1] PROVE Body(g, turns[k]) \in D[k]
  <2>1. k - 1 \in 0..n /\ k \in 0..n /\ k - 1 \in Nat /\ k - 1 + 1 = k
    BY <1>2
  <2>2. /\ IsHeap(g) /\ g.ret = h.ret /\ g.list = Padded(L, k - 1)
        /\ g.out = h.out /\ Fair(g, h)
    BY <2>1 DEF IsHeap, Heaps
  <2> DEFINE b == ListAppend(g, None)
  <2>3. /\ IsHeap(b) /\ b.list = Append(g.list, None) /\ b.out = g.out /\ b.ret = g.ret
        /\ b.freed = g.freed /\ SameSpare(b, g)
    BY <2>2, ItemsAssumption, ListAppendFacts
  <2> HIDE DEF b
  <2>4. b.list = Padded(L, k)
    <3> DEFINE m == k - 1
    <3>1. m \in Nat /\ m + 1 = k
      BY <2>1
    <3>2. b.list = Append(Padded(L, m), None)
      BY <2>2, <2>3
    <3> HIDE DEF m, L
    <3> QED BY <1>7, <3>1, <3>2, PaddedFacts
  <2>5. b \in Heaps(h.ret) /\ Fair(b, h) /\ b.out = h.out
    BY <2>2, <2>3 DEF IsHeap, Fair, SameSpare
  <2> QED BY <2>1, <2>4, <2>5 DEF b, Body
<1>5. after[n] \in D[n]
  <2>1. \A k \in 1..n : \A g \in D[k - 1] : G[k][g] = Body(g, turns[k])
    OBVIOUS
  <2>2. Leads(n, D, G)
    BY <1>4 DEF Leads
  <2>3. \E f : f = [k \in 0..n |-> IF k = 0 THEN h ELSE Body(f[k - 1], turns[k])]
    <3> HIDE DEF D, G, n, after
    <3>1. PICK f : Path(f, n, h, G) /\ Stays(f, n, D)
      BY <1>2, <1>3, <2>2, LoopExists
    <3>2. \A k \in 1..n : G[k][f[k - 1]] = Body(f[k - 1], turns[k])
      <4> TAKE k \in 1..n
      <4>1. k - 1 \in 0..n
        BY <1>2
      <4> QED BY <2>1, <3>1, <4>1 DEF Stays
    <3>3. f = [k \in 0..n |-> IF k = 0 THEN h ELSE Body(f[k - 1], turns[k])]
      <4>1. \A k \in 0..n : k # 0 => k \in 1..n
        BY <1>2
      <4> QED BY <3>1, <3>2, <4>1 DEF Path
    <3> QED BY <3>3
  <2>4. after = [k \in 0..n |-> IF k = 0 THEN h ELSE Body(after[k - 1], turns[k])]
    BY <2>3
  <2> HIDE DEF after
  <2>5. after[0] = h /\ \A k \in 1..n : after[k] = Body(after[k - 1], turns[k])
    BY <1>2, <2>4
  <2> HIDE DEF D, G, n
  <2>6. \A k \in 0..n : after[k] \in D[k]
    BY <1>2, <1>3, <1>4, <2>5, LoopKeeps
  <2> QED BY <1>2, <2>6
<1>6. n \in 0..n
  BY <1>2
<1>8. D[n] = {i \in Heaps(h.ret) : i.list = Padded(L, n) /\ i.out = h.out /\ Fair(i, h)}
  BY <1>6, Zenon
<1> HIDE DEF D, after
<1>9. /\ IsHeap(after[n]) /\ after[n].list = Padded(L, n) /\ after[n].out = h.out
      /\ after[n].ret = h.ret /\ Fair(after[n], h)
  BY <1>5, <1>8 DEF IsHeap, Heaps
<1> QED BY <1>1, <1>10, <1>9 DEF Walk

LEMMA SetFacts ==
    ASSUME NEW h, IsHeap(h), NEW args, args[1] = LengthKey \/ args[1] \in Nat, args[2] \in Items
    PROVE  /\ IsHeap(defineProperty(h, args)) /\ defineProperty(h, args).out = h.out
           /\ args[1] = LengthKey => /\ defineProperty(h, args).list = h.list
                                     /\ defineProperty(h, args).ret = FALSE
           /\ args[1] # LengthKey => /\ defineProperty(h, args).list = Edited("set", h.list, args)
                                     /\ defineProperty(h, args).ret = TRUE
           /\ args[1] < Len(h.list) => Fair(defineProperty(h, args), h)
<1> DEFINE L == h.list
           i == args[1]
           v == args[2]
           r == defineProperty(h, args)
<1>1. L \in Seq(Items) /\ Len(L) \in Nat /\ Size(h) = Len(L) /\ DOMAIN L = 1..Len(L) /\ i \in Int
  BY HeapFacts, SeqFacts DEF LengthKey
<1>2. CASE i = LengthKey
  <2>1. r = Return(h, FALSE)
    <3>1. i \notin 0..(Size(h) - 1)
      BY <1>2 DEF LengthKey
    <3> QED BY <1>2, <3>1 DEF defineProperty, Walk
  <2> HIDE DEF r
  <2>2. IsHeap(r) /\ r.out = h.out /\ r.list = L /\ r.ret = FALSE /\ Fair(r, h)
    BY <2>1, ReturnFacts DEF Fair
  <2> QED BY <1>2, <2>2 DEF r
<1>3. i \in Nat => Edited("set", L, args)
        = [k \in 1..Most(Len(L), i + 1) |-> IF k = i + 1 THEN v
                                            ELSE IF k \in DOMAIN L THEN L[k] ELSE None]
  <2> SUFFICES ASSUME i \in Nat PROVE Edited("set", L, args)
        = [k \in 1..Most(Len(L), i + 1) |-> IF k = i + 1 THEN v
                                            ELSE IF k \in DOMAIN L THEN L[k] ELSE None]
    OBVIOUS
  <2> DEFINE a == Len(L)
             b == i + 1
  <2>1. a \in Int /\ b \in Int
    BY <1>1
  <2> HIDE DEF a, b
  <2>2. Max({a, b}) = Most(a, b)
    BY <2>1, MinMaxTwo
  <2> QED BY <2>2 DEF Edited, a, b
<1>4. CASE i \in 0..(Len(L) - 1)
  <2> DEFINE g == SetItem(Incref(h, v), i, v)
  <2>1. r = Return(g, TRUE) /\ i # LengthKey
    BY <1>1, <1>4 DEF defineProperty, ToPython, LengthKey
  <2>2. IsHeap(g) /\ g.list = [L EXCEPT ![i + 1] = v] /\ g.out = h.out /\ Fair(g, h)
    BY <1>4, FillStep
  <2> HIDE DEF g
  <2>3. /\ IsHeap(Return(g, TRUE)) /\ Return(g, TRUE).list = g.list /\ Return(g, TRUE).ret = TRUE
        /\ Return(g, TRUE).out = g.out /\ Return(g, TRUE).freed = g.freed
        /\ SameSpare(Return(g, TRUE), g)
    BY <2>2, ReturnFacts
  <2>4. Edited("set", L, args) = [L EXCEPT ![i + 1] = v]
    <3>1. Most(Len(L), i + 1) = Len(L)
      BY <1>1, <1>4 DEF Most
    <3> HIDE DEF i, v, L
    <3> QED BY <1>1, <1>3, <1>4, <3>1
  <2> QED BY <2>1, <2>2, <2>3, <2>4 DEF Fair, SameSpare
<1>5. CASE i \in Nat /\ i >= Len(L)
  <2> DEFINE j == Decref(ToPython(h, v), v)
             g == Walk(LAMBDA g, k : ListAppend(g, None), j, Upto(Size(h), i))
             f == [g EXCEPT !.freed = @ \/ g.refs[v] = 0]
             e == ListAppend(f, v)
  <2>1. r = Return(e, TRUE) /\ i # LengthKey
    <3>1. i # LengthKey /\ i \notin 0..(Size(h) - 1)
      BY <1>1, <1>5 DEF LengthKey
    <3> QED BY <3>1 DEF defineProperty, Walk
  <2>2. IsHeap(j) /\ j.list = L /\ j.out = h.out /\ Size(j) = Size(h)
    <3> DEFINE a == ToPython(h, v)
    <3>1. IsHeap(a) /\ a.list = L /\ a.out = h.out
      BY IncrefFacts DEF ToPython
    <3> HIDE DEF a
    <3>2. IsHeap(Decref(a, v)) /\ Decref(a, v).list = L /\ Decref(a, v).out = h.out
      BY <3>1, DecrefFacts
    <3> QED BY <3>2 DEF a, Size
  <2> HIDE DEF j
  <2>3. IsHeap(g) /\ g.list = Padded(L, i - Len(L)) /\ g.out = h.out
    <3>1. i \in Nat /\ i >= Len(j.list) /\ g = Walk(LAMBDA x, k : ListAppend(x, None), j, Upto(Size(j), i))
      BY <1>5, <2>2, Zenon DEF Walk
    <3> HIDE DEF g
    <3> QED BY <2>2, <3>1, GapFacts DEF Walk
  <2> HIDE DEF g
  <2>4. IsHeap(f) /\ f.list = g.list /\ f.out = g.out
    <3> DEFINE c == g.freed \/ g.refs[v] = 0
    <3>1. g \in Heaps(g.ret) /\ c \in BOOLEAN
      BY <2>3 DEF IsHeap
    <3>2. f = [g EXCEPT !.freed = c]
      BY <3>1 DEF Heaps
    <3> HIDE DEF c, f
    <3> QED BY <3>1, <3>2 DEF IsHeap, Heaps
  <2> HIDE DEF f
  <2>5. IsHeap(e) /\ e.list = Append(f.list, v) /\ e.out = f.out
    BY <2>4, ListAppendFacts
  <2> HIDE DEF e
  <2>6. /\ IsHeap(Return(e, TRUE)) /\ Return(e, TRUE).list = e.list /\ Return(e, TRUE).ret = TRUE
        /\ Return(e, TRUE).out = e.out
    BY <2>5, ReturnFacts
  <2>7. Append(Padded(L, i - Len(L)), v) = Edited("set", L, args)
    <3> DEFINE p == Padded(L, i - Len(L))
               q == Edited("set", L, args)
    <3>1. i - Len(L) \in Nat /\ Len(L) + (i - Len(L)) = i /\ Most(Len(L), i + 1) = i + 1
      BY <1>1, <1>5 DEF Most
    <3>2. p \in Seq(Items) /\ Len(p) = i
      <4> HIDE DEF i, L
      <4> QED BY <1>1, <3>1, PaddedFacts
    <3>3. p = [k \in 1..i |-> IF k <= Len(L) THEN L[k] ELSE None]
      BY <3>1 DEF Padded
    <3>4. q = [k \in 1..(i + 1) |-> IF k = i + 1 THEN v
                                    ELSE IF k \in DOMAIN L THEN L[k] ELSE None]
      BY <1>3, <1>5, <3>1
    <3>5. \A k \in 1..i : q[k] = p[k]
      <4> HIDE DEF p, q, L, i, v
      <4> QED BY <1>1, <1>5, <3>3, <3>4
    <3>6. q[i + 1] = v /\ DOMAIN q = 1..(i + 1) /\ q = [k \in 1..(i + 1) |-> q[k]]
      <4> HIDE DEF p, q, L, i, v
      <4> QED BY <1>1, <1>5, <3>4
    <3> HIDE DEF p, q, i, v, L
    <3>7. q \in Seq(Items) /\ Len(q) = i + 1
      <4>1. \A k \in 1..i : p[k] \in Items
        BY <3>2, SeqFacts
      <4>2. \A k \in 1..(i + 1) : q[k] \in Items
        <5> TAKE k \in 1..(i + 1)
        <5>1. CASE k = i + 1
          BY <3>6, <5>1 DEF v
        <5>2. CASE k # i + 1
          <6>1. k \in 1..i
            BY <1>5, <5>2
          <6> QED BY <3>5, <4>1, <6>1
        <5> QED BY <5>1, <5>2
      <4>3. i + 1 \in Nat
        BY <1>5
      <4> QED BY <3>6, <4>2, <4>3, IsSeq
    <3>8. /\ Append(p, v) \in Seq(Items) /\ Len(Append(p, v)) = i + 1
          /\ \A k \in 1..i : Append(p, v)[k] = p[k] /\ Append(p, v)[i + 1] = v
      BY <1>5, <3>2, AppendProperties DEF v
    <3>9. Append(p, v)[i + 1] = v
      BY <1>5, <3>2, AppendProperties DEF v
    <3>10. ASSUME NEW k \in 1..Len(q) PROVE Append(p, v)[k] = q[k]
      <4>1. CASE k = i + 1
        BY <3>6, <3>9, <4>1
      <4>2. CASE k # i + 1
        <5>1. k \in 1..i
          BY <1>5, <3>7, <4>2
        <5> QED BY <3>5, <3>8, <5>1
      <4> QED BY <4>1, <4>2
    <3>11. Append(p, v) \in Seq(Items) /\ Len(Append(p, v)) = Len(q)
      BY <3>7, <3>8
    <3>12. Append(p, v) = q
      BY <3>7, <3>10, <3>11, SeqEqual
    <3> QED BY <3>12 DEF p, q, L, i, v
  <2> HIDE DEF r
  <2>8. IsHeap(r) /\ r.out = h.out /\ r.ret = TRUE
    BY <2>1, <2>2, <2>3, <2>4, <2>5, <2>6
  <2>9. r.list = Edited("set", L, args)
    BY <2>1, <2>3, <2>4, <2>5, <2>6, <2>7
  <2>10. i # LengthKey /\ ~(i < Len(L))
    BY <1>1, <1>5, <2>1
  <2> QED BY <2>8, <2>9, <2>10 DEF r
<1>6. i = LengthKey \/ i \in 0..(Len(L) - 1) \/ (i \in Nat /\ i >= Len(L))
  BY <1>1
<1> QED BY <1>2, <1>4, <1>5, <1>6

LEMMA SliceFacts ==
    ASSUME NEW h, IsHeap(h), h.out = <<>>, NEW args, Len(args) \in Nat, Len(args) >= 1,
           args[1] \in Int, 2 <= Len(args) => args[2] \in Int \cup {Undefined}
    PROVE  /\ IsHeap(array_slice(h, args)) /\ array_slice(h, args).list = h.list
           /\ array_slice(h, args).out = Answer("slice", h.list, args)
           /\ Fair(array_slice(h, args), h)
<1> DEFINE L == h.list
           start == From(args, 1, L)
           stop == Until(args, 2, L)
           g == GetSlice(h, start, stop)
<1>1. L \in Seq(Items) /\ Len(L) \in Nat /\ Size(h) = Len(L)
  BY HeapFacts
<1>2. start = normalizeSliceTerm(args[1], Len(L)) /\ start \in 0..Len(L)
  <2>1. start = Position(args[1], L)
    BY DEF From
  <2> HIDE DEF L, start
  <2> QED BY <1>1, <2>1, PositionFacts
<1>3. /\ stop = IF Arg(args, 2, Undefined) = Undefined THEN Len(L)
                ELSE normalizeSliceTerm(args[2], Len(L))
      /\ stop \in 0..Len(L)
  <2>1. CASE 2 <= Len(args) /\ args[2] # Undefined
    <3>1. stop = Position(args[2], L) /\ Arg(args, 2, Undefined) = args[2] /\ args[2] \in Int
      BY <2>1 DEF Until, Arg
    <3> HIDE DEF L, stop
    <3> QED BY <1>1, <2>1, <3>1, PositionFacts
  <2>2. CASE ~(2 <= Len(args) /\ args[2] # Undefined)
    <3>1. stop = Len(L) /\ Arg(args, 2, Undefined) = Undefined
      BY <2>2 DEF Until, Arg
    <3> QED BY <1>1, <3>1
  <2> QED BY <2>1, <2>2
<1>4. array_slice(h, args) = Return(g, "list")
  <2> HIDE DEF L, start, stop
  <2> QED BY <1>1, <1>2, <1>3 DEF array_slice, ReturnList
<1>5. /\ IsHeap(g) /\ g.list = h.list /\ g.out = SubSeq(L, start + 1, stop)
      /\ g.freed = h.freed /\ SameSpare(g, h)
  <2> HIDE DEF start, stop
  <2> QED BY <1>2, <1>3, GetSliceFacts
<1>6. Answer("slice", L, args) = SubSeq(L, start + 1, stop)
  BY DEF Answer
<1> HIDE DEF g
<1>7. /\ IsHeap(Return(g, "list")) /\ Return(g, "list").list = g.list
      /\ Return(g, "list").out = g.out /\ Return(g, "list").freed = g.freed
      /\ SameSpare(Return(g, "list"), g)
  BY <1>5, ReturnFacts
<1> QED BY <1>4, <1>5, <1>6, <1>7 DEF Fair, SameSpare

\* One or two places, and then items.
PlacesThenItems(args) ==
    /\ \A k \in 1..2 : k <= Len(args) => args[k] \in Int
    /\ SubSeq(args, 3, Len(args)) \in Seq(Items)
    /\ Len(args) <= 2 => SubSeq(args, 3, Len(args)) = <<>>

\* splice() keeps the list of its new items; without any, it keeps nothing.
LEMMA SpliceFacts ==
    ASSUME NEW h, IsHeap(h), h.out = <<>>, NEW S, NEW args \in Seq(S),
           PlacesThenItems(args)
    PROVE  /\ IsHeap(array_splice(h, args)) /\ array_splice(h, args).freed = h.freed
           /\ array_splice(h, args).list = Edited("splice", h.list, args)
           /\ array_splice(h, args).out = Answer("splice", h.list, args)
           /\ Len(args) <= 2 => Fair(array_splice(h, args), h)
<1> DEFINE L == h.list
           start == From(args, 1, L)
           n == Deleted(L, args)
           new == SubSeq(args, 3, Len(args))
           a == GetSlice(h, start, start + n)
           b == Hold(a, new)
           c == SetSlice(b, start, start + n, new)
<1>1. L \in Seq(Items) /\ Len(L) \in Nat /\ Size(h) = Len(L) /\ Len(args) \in Nat
  BY HeapFacts, SeqFacts
<1>2. ActualIndex(Arg(args, 1, 0), Len(L)) = start /\ start \in 0..Len(L)
  <2>1. 1 \in Nat /\ (1 <= Len(args) => args[1] \in Int)
    BY DEF PlacesThenItems
  <2> HIDE DEF L
  <2> QED BY <1>1, <2>1, ClampFacts
<1>3. /\ n = CASE Len(args) = 0 -> 0
               [] Len(args) = 1 -> Len(L) - start
               [] OTHER -> Least(Most(0, args[2]), Len(L) - start)
      /\ n \in 0..(Len(L) - start)
  <2> HIDE DEF L, start, n
  <2>1. CASE Len(args) = 0
    <3>1. args = <<>>
      BY <2>1, EmptySeq
    <3> QED BY <1>1, <1>2, <2>1, <3>1 DEF n, Deleted
  <2>2. CASE Len(args) = 1
    <3>1. args # <<>>
      <4>1. Len(<<>>) # 1
        OBVIOUS
      <4> QED BY <2>2, <4>1, Zenon
    <3> QED BY <1>1, <1>2, <2>2, <3>1 DEF n, start, Deleted
  <2>3. CASE Len(args) # 0 /\ Len(args) # 1
    <3> DEFINE x == args[2]
               z == 0
               r == Len(L) - start
               y == Most(z, x)
    <3>1. args # <<>> /\ x \in Int /\ z \in Int /\ r \in Int
      <4>1. 2 <= Len(args) /\ 2 \in 1..2
        <5> DEFINE k == Len(args)
        <5>1. k \in Nat
          BY <1>1
        <5>2. k # 0 /\ k # 1
          BY <2>3
        <5> HIDE DEF k
        <5>3. 2 <= k
          BY <5>1, <5>2
        <5> QED BY <5>3 DEF k
      <4> QED BY <1>1, <1>2, <4>1, EmptySeq DEF PlacesThenItems
    <3> HIDE DEF x, z, r
    <3>2. y \in Int /\ Max({z, x}) = y
      BY <3>1, MinMaxTwo DEF Most
    <3> HIDE DEF y
    <3>3. Min({r, y}) = Least(r, y)
      BY <3>1, <3>2, MinMaxTwo
    <3>4. n = Min({r, Max({z, x})})
      BY <2>3, <3>1 DEF n, Deleted, r, z, x, start
    <3>5. Least(r, y) = Least(y, r) /\ Least(y, r) \in 0..r
      BY <1>1, <1>2, <3>1 DEF Least, Most, y, r, z
    <3> QED BY <2>3, <3>2, <3>3, <3>4, <3>5 DEF r, y, z, x
  <2> QED BY <2>1, <2>2, <2>3
<1>4. array_splice(h, args) = Return(c, "list")
  <2> HIDE DEF L, start, n
  <2> QED BY <1>1, <1>2, <1>3 DEF array_splice, ReturnList
<1>5. start + n \in 0..Len(L) /\ start + n \in start..Len(L)
  <2> HIDE DEF L, start, n
  <2> QED BY <1>1, <1>2, <1>3
<1>6. /\ Edited("splice", L, args)
           = SubSeq(L, 1, start) \o new \o SubSeq(L, start + n + 1, Len(L))
      /\ Answer("splice", L, args) = SubSeq(L, start + 1, start + n)
  BY DEF Edited, Answer
<1> HIDE DEF start, n, new
<1>7. /\ IsHeap(a) /\ a.list = L /\ a.out = SubSeq(L, start + 1, start + n)
      /\ a.freed = h.freed /\ SameSpare(a, h)
  BY <1>2, <1>5, GetSliceFacts
<1> HIDE DEF a
<1>8. /\ IsHeap(b) /\ b.list = L /\ b.out = a.out /\ b.freed = h.freed
      /\ \A y \in Items : Spare(b, y) = Spare(a, y) + Count(new, y)
  BY <1>7, HoldFacts DEF new, PlacesThenItems
<1> HIDE DEF b
<1>9. /\ IsHeap(c) /\ c.list = SubSeq(L, 1, start) \o new \o SubSeq(L, start + n + 1, Len(L))
      /\ c.out = b.out /\ c.freed = b.freed /\ SameSpare(c, b)
  <2>1. start \in 0..Len(b.list) /\ start + n \in start..Len(b.list) /\ new \in Seq(Items)
    BY <1>2, <1>5, <1>8 DEF new, PlacesThenItems
  <2> HIDE DEF L
  <2> QED BY <1>8, <2>1, SetSliceFacts
<1> HIDE DEF c
<1>10. Len(args) <= 2 => Fair(c, h)
  <2> SUFFICES ASSUME Len(args) <= 2, NEW y \in Items PROVE Spare(c, y) = Spare(h, y)
    BY <1>8, <1>9 DEF Fair, SameSpare
  <2>1. Count(new, y) = 0 /\ Spare(h, y) \in Int
    BY CountEmpty, HeapFacts DEF new, PlacesThenItems
  <2> QED BY <1>7, <1>8, <1>9, <2>1 DEF SameSpare
<1>11. /\ IsHeap(Return(c, "list")) /\ Return(c, "list").list = c.list
       /\ Return(c, "list").out = c.out /\ Return(c, "list").freed = c.freed
       /\ SameSpare(Return(c, "list"), c)
  BY <1>9, ReturnFacts
<1> QED BY <1>4, <1>6, <1>7, <1>8, <1>9, <1>10, <1>11 DEF Fair, SameSpare

-----------------------------------------------------------------------------
(* Sequences of sequences, put together.                                   *)

Joins(f, ss) == f[0] = <<>> /\ \A k \in 1..Len(ss) : f[k] = f[k - 1] \o ss[k]

LEMMA JoinsExists ==
    ASSUME NEW S, NEW ss \in Seq(Seq(S))
    PROVE  \E f : Joins(f, ss)
<1> DEFINE n == Len(ss)
           D == [k \in 0..n |-> Seq(S)]
           G == [k \in 1..n |-> [w \in Seq(S) |-> w \o ss[k]]]
           h == <<>>
<1>1. n \in Nat /\ \A k \in 1..n : ss[k] \in Seq(S)
  BY SeqFacts
<1>2. h \in D[0]
  BY <1>1, EmptySeq
<1>3. \A k \in 1..n : \A w \in D[k - 1] : G[k][w] = w \o ss[k] /\ G[k][w] \in D[k]
  <2> TAKE k \in 1..n
  <2>1. k - 1 \in 0..n /\ k \in 0..n
    BY <1>1
  <2> QED BY <1>1, <2>1, ConcatProperties
<1>4. Leads(n, D, G)
  BY <1>3 DEF Leads
<1> HIDE DEF D, G, n, h
<1>5. PICK f : Path(f, n, h, G) /\ Stays(f, n, D)
  BY <1>1, <1>2, <1>4, LoopExists
<1>6. f[0] = h
  BY <1>1, <1>5 DEF Path
<1>7. \A k \in 1..n : f[k] = f[k - 1] \o ss[k]
  <2> TAKE k \in 1..n
  <2>1. k - 1 \in 0..n /\ k \in 0..n /\ k # 0
    BY <1>1
  <2>2. f[k] = G[k][f[k - 1]]
    BY <1>5, <2>1 DEF Path
  <2>3. f[k - 1] \in D[k - 1]
    BY <1>5, <2>1 DEF Stays
  <2> QED BY <1>3, <2>2, <2>3
<1> QED BY <1>6, <1>7 DEF Joins, h, n

LEMMA JoinsFlatten ==
    ASSUME NEW S, NEW ss \in Seq(Seq(S)), NEW f, Joins(f, ss)
    PROVE  FlattenSeq(ss) = f[Len(ss)] /\ f[Len(ss)] \in Seq(S)
<1> DEFINE n == Len(ss)
           flatten[i \in 1..n] == IF i = 1 THEN ss[i] ELSE flatten[i - 1] \o ss[i]
<1>1. n \in Nat /\ \A k \in 1..n : ss[k] \in Seq(S)
  BY SeqFacts
<1>2. \A k \in 0..n : f[k] \in Seq(S)
  <2> DEFINE T == {m \in Nat : m <= n => f[m] \in Seq(S)}
  <2>1. 0 \in T
    BY EmptySeq DEF Joins
  <2>2. ASSUME NEW m \in Nat, m \in T PROVE m + 1 \in T
    <3> SUFFICES ASSUME m + 1 <= n PROVE f[m + 1] \in Seq(S)
      OBVIOUS
    <3>1. m + 1 \in 1..n /\ (m + 1) - 1 = m /\ f[m] \in Seq(S)
      BY <1>1, <2>2
    <3>2. f[m + 1] = f[m] \o ss[m + 1]
      BY <3>1 DEF Joins
    <3> QED BY <1>1, <3>1, <3>2, ConcatProperties
  <2>3. Nat \subseteq T
    <3> HIDE DEF T
    <3> QED BY <2>1, <2>2, NatInd
  <2> QED BY <1>1, <2>3
<1>3. CASE n = 0
  <2>1. ss = <<>>
    BY <1>3, EmptySeq
  <2>2. FlattenSeq(ss) = <<>>
    BY <2>1 DEF FlattenSeq
  <2> QED BY <1>1, <1>2, <1>3, <2>2 DEF Joins
<1>4. CASE n # 0
  <2> DEFINE e == [i \in 1..n |-> f[i]]
  <2>1. \A i \in 1..n : f[i] = IF i = 1 THEN ss[i] ELSE f[i - 1] \o ss[i]
    <3> TAKE i \in 1..n
    <3>1. f[i] = f[i - 1] \o ss[i]
      BY DEF Joins
    <3>2. CASE i = 1
      <4>1. f[i - 1] = <<>> /\ ss[i] \in Seq(S)
        BY <1>1, <3>2 DEF Joins
      <4> QED BY <3>1, <3>2, <4>1, ConcatEmptySeq
    <3> QED BY <3>1, <3>2
  <2>2. e = [i \in 1..n |-> IF i = 1 THEN ss[i] ELSE e[i - 1] \o ss[i]]
    <3>1. \A i \in 1..n : i # 1 => i - 1 \in 1..n
      BY <1>1
    <3> HIDE DEF n
    <3> QED BY <2>1, <3>1
  <2>3. flatten = [i \in 1..n |-> IF i = 1 THEN ss[i] ELSE flatten[i - 1] \o ss[i]]
    <3> HIDE DEF e
    <3> QED BY <2>2
  <2>4. FlattenSeq(ss) = flatten[n]
    BY <1>4 DEF FlattenSeq
  <2> HIDE DEF flatten
  <2> DEFINE T == {m \in Nat : m + 1 <= n => flatten[m + 1] = f[m + 1]}
  <2>5. 0 \in T
    <3>1. 0 + 1 = 1 /\ 1 \in 1..n
      BY <1>1, <1>4
    <3> HIDE DEF n
    <3>2. flatten[1] = ss[1] /\ f[1] = ss[1]
      BY <2>1, <2>3, <3>1
    <3> QED BY <3>1, <3>2
  <2>6. ASSUME NEW m \in Nat, m \in T PROVE m + 1 \in T
    <3> SUFFICES ASSUME m + 1 + 1 <= n PROVE flatten[m + 1 + 1] = f[m + 1 + 1]
      OBVIOUS
    <3> DEFINE j == m + 1
               i == j + 1
    <3>1. i \in 1..n /\ i # 1 /\ i - 1 = j /\ flatten[j] = f[j]
      BY <1>1, <2>6
    <3> HIDE DEF i, j, n
    <3>2. flatten[i] = flatten[i - 1] \o ss[i] /\ f[i] = f[i - 1] \o ss[i]
      BY <2>1, <2>3, <3>1
    <3> QED BY <3>1, <3>2 DEF i, j
  <2>7. Nat \subseteq T
    <3> HIDE DEF T
    <3> QED BY <2>5, <2>6, NatInd
  <2>8. n - 1 \in T /\ n - 1 + 1 = n
    <3>1. n - 1 \in Nat /\ n - 1 + 1 = n
      <4> DEFINE z == n
      <4>1. z \in Nat /\ z # 0
        BY <1>1, <1>4
      <4> HIDE DEF z
      <4>2. z - 1 \in Nat /\ z - 1 + 1 = z
        BY <4>1
      <4> QED BY <4>2 DEF z
    <3> HIDE DEF T
    <3> QED BY <2>7, <3>1
  <2>9. flatten[n] = f[n]
    <3> HIDE DEF n
    <3> QED BY <2>8
  <2> QED BY <1>1, <1>2, <2>4, <2>9
<1> QED BY <1>3, <1>4

LEMMA FlattenFacts ==
    ASSUME NEW S
    PROVE  /\ FlattenSeq(<<>>) = <<>>
           /\ \A ss \in Seq(Seq(S)) : FlattenSeq(ss) \in Seq(S)
           /\ \A ss \in Seq(Seq(S)), s \in Seq(S) :
                  FlattenSeq(Append(ss, s)) = FlattenSeq(ss) \o s
<1>1. FlattenSeq(<<>>) = <<>>
  BY DEF FlattenSeq
<1>2. \A ss \in Seq(Seq(S)) : FlattenSeq(ss) \in Seq(S)
  <2> TAKE ss \in Seq(Seq(S))
  <2>1. PICK f : Joins(f, ss)
    BY JoinsExists
  <2>2. FlattenSeq(ss) = f[Len(ss)] /\ f[Len(ss)] \in Seq(S)
    BY <2>1, JoinsFlatten
  <2> QED BY <2>2
<1>3. ASSUME NEW ss \in Seq(Seq(S)), NEW s \in Seq(S)
      PROVE  FlattenSeq(Append(ss, s)) = FlattenSeq(ss) \o s
  <2>1. PICK f : Joins(f, ss)
    BY JoinsExists
  <2> DEFINE n == Len(ss)
             tt == Append(ss, s)
             e == [k \in 0..(n + 1) |-> IF k <= n THEN f[k] ELSE f[n] \o s]
  <2>2. n \in Nat
    BY SeqFacts
  <2>3. /\ tt \in Seq(Seq(S)) /\ Len(tt) = n + 1 /\ tt[n + 1] = s
        /\ \A k \in 1..n : tt[k] = ss[k]
    BY <2>2, AppendProperties
  <2> HIDE DEF tt
  <2>4. Joins(e, tt)
    <3>1. e[0] = <<>>
      BY <2>1, <2>2 DEF Joins
    <3>2. ASSUME NEW k \in 1..(n + 1) PROVE e[k] = e[k - 1] \o tt[k]
      <4>1. CASE k <= n
        <5>1. k \in 1..n /\ k \in 0..(n + 1) /\ k - 1 \in 0..(n + 1) /\ k - 1 <= n
          BY <2>2, <4>1
        <5>2. f[k] = f[k - 1] \o ss[k]
          BY <2>1, <5>1 DEF Joins
        <5> QED BY <2>3, <4>1, <5>1, <5>2
      <4>2. CASE k = n + 1
        <5>1. k \in 0..(n + 1) /\ k - 1 = n /\ n \in 0..(n + 1) /\ ~(k <= n) /\ n <= n
          BY <2>2, <4>2
        <5> HIDE DEF n
        <5> QED BY <2>3, <4>2, <5>1
      <4>3. k <= n \/ k = n + 1
        <5> HIDE DEF e, n
        <5> QED BY <2>2
      <4> QED BY <4>1, <4>2, <4>3
    <3> HIDE DEF e
    <3> QED BY <2>3, <3>1, <3>2 DEF Joins
  <2>5. FlattenSeq(tt) = e[n + 1]
    <3> HIDE DEF e, n
    <3> QED BY <2>3, <2>4, JoinsFlatten
  <2>6. FlattenSeq(ss) = f[n]
    BY <2>1, JoinsFlatten
  <2>7. e[n + 1] = f[n] \o s
    <3>1. n + 1 \in 0..(n + 1) /\ ~(n + 1 <= n)
      BY <2>2
    <3> HIDE DEF n
    <3> QED BY <3>1
  <2> QED BY <2>5, <2>6, <2>7 DEF tt
<1> QED BY <1>1, <1>2, <1>3

\* What holds of the empty sequence, and of a longer one if of the shorter, holds of all.
LEMMA SeqInd ==
    ASSUME NEW T, <<>> \in T,
           \A s \in Seq(Items), v \in Items : s \in T => Append(s, v) \in T
    PROVE  Seq(Items) \subseteq T
<1> DEFINE L == {n \in Nat : \A s \in Seq(Items) : Len(s) = n => s \in T}
<1>1. 0 \in L
  <2>1. \A s \in Seq(Items) : Len(s) = 0 => s = <<>>
    BY EmptySeq
  <2> QED BY <2>1
<1>2. ASSUME NEW n \in Nat, n \in L PROVE n + 1 \in L
  <2> SUFFICES ASSUME NEW s \in Seq(Items), Len(s) = n + 1 PROVE s \in T
    BY <1>2
  <2> DEFINE t == SubSeq(s, 1, n)
             v == s[n + 1]
             k == n + 1
  <2>1. k \in 1..Len(s) /\ k - 1 = n /\ n <= Len(s) /\ 1 \in 1..(Len(s) + 1) /\ n \in Int
    BY <1>2
  <2>2. SubSeq(s, 1, k) = s
    BY SubSeqFull
  <2>3. SubSeq(s, 1, k) = Append(SubSeq(s, 1, k - 1), s[k]) /\ s[k] \in Items
    <3> HIDE DEF k
    <3> QED BY <2>1, PrefixStep
  <2>4. s = Append(t, v) /\ v \in Items
    BY <2>1, <2>2, <2>3
  <2>5. t \in Seq(Items) /\ Len(t) = n
    <3>1. Len(SubSeq(s, 1, n)) = (IF 1 <= n THEN n - 1 + 1 ELSE 0) /\ SubSeq(s, 1, n) \in Seq(Items)
      BY <2>1, SubSeqFacts
    <3>2. (IF 1 <= n THEN n - 1 + 1 ELSE 0) = n
      OBVIOUS
    <3> QED BY <3>1, <3>2
  <2>6. t \in T
    <3> HIDE DEF t
    <3> QED BY <1>2, <2>5
  <2> HIDE DEF t, v
  <2> QED BY <2>4, <2>5, <2>6
<1>3. Nat \subseteq L
  <2> HIDE DEF L
  <2> QED BY <1>1, <1>2, NatInd
<1>4. ASSUME NEW s \in Seq(Items) PROVE s \in T
  <2>1. Len(s) \in L
    BY <1>3, SeqFacts
  <2> QED BY <2>1
<1> QED BY <1>4

\* The sequences that F gives for the items of s, put together.
Mapped(F, s) == FlattenSeq([i \in DOMAIN s |-> F[s[i]]])

LEMMA MappedFacts ==
    ASSUME NEW F, F \in [Items -> Seq(Items)]
    PROVE  /\ Mapped(F, <<>>) = <<>>
           /\ \A s \in Seq(Items) : Mapped(F, s) \in Seq(Items)
           /\ \A s \in Seq(Items), v \in Items : Mapped(F, Append(s, v)) = Mapped(F, s) \o F[v]
<1> DEFINE Images(s) == [i \in DOMAIN s |-> F[s[i]]]
<1>3. ASSUME NEW s \in Seq(Items)
      PROVE  Images(s) \in Seq(Seq(Items)) /\ Len(Images(s)) = Len(s)
  <2> DEFINE p == Images(s)
             n == Len(s)
  <2>1. n \in Nat /\ DOMAIN s = 1..n /\ \A i \in 1..n : s[i] \in Items
    BY SeqFacts
  <2>2. p = [i \in 1..n |-> F[s[i]]]
    BY <2>1
  <2> HIDE DEF p, n
  <2>3. DOMAIN p = 1..n /\ p = [i \in 1..n |-> p[i]] /\ \A i \in 1..n : p[i] \in Seq(Items)
    BY <2>1, <2>2
  <2>4. p \in Seq(Seq(Items)) /\ Len(p) = n
    BY <2>1, <2>3, IsSeq
  <2> QED BY <2>4 DEF p, n
<1>4. ASSUME NEW s \in Seq(Items), NEW v \in Items
      PROVE  Images(Append(s, v)) = Append(Images(s), F[v])
  <2> DEFINE n == Len(s)
             t == Append(s, v)
             p == Images(s)
             q == Append(p, F[v])
             r == Images(t)
  <2>1. n \in Nat /\ DOMAIN s = 1..n /\ p \in Seq(Seq(Items)) /\ Len(p) = n
        /\ F[v] \in Seq(Items)
    BY <1>3, SeqFacts
  <2>2. /\ t \in Seq(Items) /\ Len(t) = n + 1 /\ \A i \in 1..n : t[i] = s[i]
        /\ t[n + 1] = v /\ DOMAIN t = 1..(n + 1)
    BY <2>1, AppendProperties, SeqFacts
  <2>3. /\ q \in Seq(Seq(Items)) /\ Len(q) = n + 1 /\ \A i \in 1..n : q[i] = p[i]
        /\ q[n + 1] = F[v]
    <3> HIDE DEF p
    <3> QED BY <2>1, AppendProperties
  <2>4. r \in Seq(Seq(Items)) /\ Len(r) = n + 1
    <3> HIDE DEF t
    <3> QED BY <1>3, <2>2
  <2> HIDE DEF t
  <2>5. /\ \A i \in 1..n : r[i] = F[s[i]] /\ p[i] = F[s[i]]
        /\ r[n + 1] = F[v]
    <3>1. n + 1 \in 1..(n + 1) /\ \A i \in 1..n : i \in 1..(n + 1)
      BY <2>1
    <3> HIDE DEF n
    <3> QED BY <2>1, <2>2, <3>1
  <2> HIDE DEF p, q, r, n
  <2>6. ASSUME NEW i \in 1..Len(q) PROVE r[i] = q[i]
    <3>1. CASE i = n + 1
      BY <2>3, <2>5, <3>1
    <3>2. CASE i # n + 1
      <4>1. i \in 1..n
        BY <2>1, <2>3, <3>2
      <4> QED BY <2>3, <2>5, <4>1
    <3> QED BY <3>1, <3>2
  <2>7. r = q
    BY <2>3, <2>4, <2>6, SeqEqual
  <2> QED BY <2>7 DEF p, q, r, t
<1>5. Mapped(F, <<>>) = <<>>
  <2>1. Images(<<>>) = <<>>
    <3>1. <<>> \in Seq(Items) /\ Len(<<>>) = 0
      BY EmptySeq
    <3>2. Images(<<>>) \in Seq(Seq(Items)) /\ Len(Images(<<>>)) = 0
      BY <1>3, <3>1
    <3> QED BY <3>2, EmptySeq
  <2> QED BY <2>1, FlattenFacts DEF Mapped
<1>6. \A s \in Seq(Items) : Mapped(F, s) \in Seq(Items)
  BY <1>3, FlattenFacts DEF Mapped
<1>7. ASSUME NEW s \in Seq(Items), NEW v \in Items
      PROVE  Mapped(F, Append(s, v)) = Mapped(F, s) \o F[v]
  <2> DEFINE p == Images(s)
             q == F[v]
  <2>1. p \in Seq(Seq(Items)) /\ q \in Seq(Items) /\ Images(Append(s, v)) = Append(p, q)
    BY <1>3, <1>4
  <2>2. Mapped(F, s) = FlattenSeq(p) /\ Mapped(F, Append(s, v)) = FlattenSeq(Images(Append(s, v)))
    BY DEF Mapped
  <2> HIDE DEF p, q
  <2>3. FlattenSeq(Append(p, q)) = FlattenSeq(p) \o q
    BY <2>1, FlattenFacts
  <2> QED BY <2>1, <2>2, <2>3 DEF q
<1> QED BY <1>5, <1>6, <1>7

\* What an item stands for when containers are gone through.
Piece(v) == IF v \in Containers THEN Contents[v] ELSE <<v>>
Pieces == [v \in Items |-> Piece(v)]

LEMMA SpreadMapped ==
    /\ Pieces \in [Items -> Seq(Items)]
    /\ \A s \in Seq(Items) : Spread(s) = Mapped(Pieces, s)
<1>1. ASSUME NEW v \in Items PROVE Piece(v) \in Seq(Items)
  <2>1. CASE v \in Containers
    BY <2>1, ContentsAssumption DEF Piece, Containers
  <2>2. CASE v \notin Containers
    BY <2>2 DEF Piece
  <2> QED BY <2>1, <2>2
<1>2. ASSUME NEW s \in Seq(Items) PROVE Spread(s) = Mapped(Pieces, s)
  <2>1. \A i \in DOMAIN s : s[i] \in Items
    BY SeqFacts
  <2>2. \A i \in DOMAIN s : Pieces[s[i]] = IF s[i] \in Containers THEN Contents[s[i]] ELSE <<s[i]>>
    BY <2>1 DEF Pieces, Piece
  <2> QED BY <2>2 DEF Spread, Mapped
<1> QED BY <1>1, <1>2 DEF Pieces

LEMMA SpreadFacts ==
    /\ Spread(<<>>) = <<>>
    /\ \A v \in Items : Piece(v) \in Seq(Items)
    /\ \A s \in Seq(Items) : Spread(s) \in Seq(Items)
    /\ \A s \in Seq(Items), v \in Items : Spread(Append(s, v)) = Spread(s) \o Piece(v)
<1>1. \A v \in Items : Pieces[v] = Piece(v) /\ Piece(v) \in Seq(Items)
  BY SpreadMapped DEF Pieces
<1>2. <<>> \in Seq(Items) /\ \A s \in Seq(Items), v \in Items : Append(s, v) \in Seq(Items)
  OBVIOUS
<1>3. /\ Mapped(Pieces, <<>>) = <<>>
      /\ \A s \in Seq(Items) : Mapped(Pieces, s) \in Seq(Items)
      /\ \A s \in Seq(Items), v \in Items :
           Mapped(Pieces, Append(s, v)) = Mapped(Pieces, s) \o Pieces[v]
  BY SpreadMapped, MappedFacts
<1> QED BY <1>1, <1>2, <1>3, SpreadMapped

LEMMA ConcatStep ==
    ASSUME NEW h, IsHeap(h), NEW s \in Seq(Items)
    PROVE  LET g == Hold([h EXCEPT !.out = @ \o s], s)
           IN  /\ IsHeap(g) /\ g.list = h.list /\ g.out = h.out \o s /\ g.ret = h.ret
               /\ Fair(g, h)
<1> DEFINE o == h.out \o s
           a == [h EXCEPT !.out = o]
           g == Hold(a, s)
<1>1. h.out \in Seq(Items) /\ o \in Seq(Items) /\ \A y : Count(o, y) = Count(h.out, y) + Count(s, y)
  BY HeapFacts, CountConcat
<1>2. g = Hold([h EXCEPT !.out = @ \o s], s)
  BY DEF IsHeap, Heaps
<1> HIDE DEF o
<1>3. /\ IsHeap(a) /\ a.list = h.list /\ a.out = o /\ a.ret = h.ret /\ a.freed = h.freed
      /\ \A y \in Items : Spare(a, y) = Spare(h, y) + Count(h.out, y) - Count(o, y)
  BY <1>1, NewOutFacts
<1> HIDE DEF a
<1>4. /\ IsHeap(g) /\ g.list = h.list /\ g.out = o /\ g.ret = h.ret /\ g.freed = h.freed
      /\ \A y \in Items : Spare(g, y) = Spare(a, y) + Count(s, y)
  BY <1>3, HoldFacts
<1> HIDE DEF g
<1>5. ASSUME NEW y \in Items PROVE Spare(g, y) = Spare(h, y)
  <2>1. Spare(h, y) \in Int /\ Count(h.out, y) \in Nat /\ Count(s, y) \in Nat
    BY HeapFacts, CountInt
  <2> QED BY <1>1, <1>3, <1>4, <2>1
<1>6. g.out = h.out \o s
  BY <1>4 DEF o
<1> QED BY <1>2, <1>4, <1>5, <1>6 DEF Fair, SameSpare

LEMMA ConcatFacts ==
    ASSUME NEW h, IsHeap(h), h.out = <<>>, NEW args \in Seq(Items)
    PROVE  /\ IsHeap(array_concat(h, args)) /\ Fair(array_concat(h, args), h)
           /\ array_concat(h, args).list = h.list
           /\ array_concat(h, args).out = Answer("concat", h.list, args)
<1> DEFINE L == h.list
           j == GetSlice(h, 0, Size(h))
           Body(g, v) == Hold([g EXCEPT !.out = @ \o Piece(v)], Piece(v))
           n == Len(args)
           after[k \in 0..n] == IF k = 0 THEN j ELSE Body(after[k - 1], args[k])
           D == [k \in 0..n |-> {g \in Heaps(h.ret) :
                                   /\ g.list = L /\ Fair(g, h)
                                   /\ g.out = L \o Spread(SubSeq(args, 1, k))}]
           G == [k \in 1..n |-> [g \in D[k - 1] |-> Body(g, args[k])]]
<1>1. array_concat(h, args) = Return(after[n], "list")
  BY DEF array_concat, Walk, ReturnList, Piece
<1>2. n \in Nat
  BY SeqFacts
<1>7. L \in Seq(Items) /\ Len(L) \in Nat /\ Size(h) = Len(L)
  BY HeapFacts
<1> HIDE DEF Body
<1>8. /\ IsHeap(j) /\ j.list = L /\ j.out = L /\ j.ret = h.ret /\ Fair(j, h)
  <2> DEFINE z == 0
             m == Len(L)
  <2>1. z \in 0..Len(h.list) /\ m \in 0..Len(h.list) /\ z + 1 = 1
    BY <1>7
  <2>2. j = GetSlice(h, z, m)
    BY <1>7
  <2> HIDE DEF z, m, j
  <2>3. /\ IsHeap(j) /\ j.list = L /\ j.out = SubSeq(L, z + 1, m) /\ j.ret = h.ret
        /\ j.freed = h.freed /\ SameSpare(j, h)
    BY <2>1, <2>2, GetSliceFacts
  <2>4. SubSeq(L, 1, Len(L)) = L
    BY <1>7, SubSeqFull
  <2> QED BY <2>1, <2>3, <2>4 DEF m, Fair
<1> HIDE DEF j
<1>3. j \in D[0]
  <2>1. SubSeq(args, 1, 0) = <<>> /\ L \o <<>> = L
    BY <1>2, <1>7, SubSeqEmpty, ConcatEmptySeq
  <2>2. Spread(SubSeq(args, 1, 0)) = <<>>
    BY <2>1, SpreadFacts
  <2>3. j \in Heaps(h.ret) /\ j.out = L \o Spread(SubSeq(args, 1, 0))
    BY <1>8, <2>1, <2>2 DEF IsHeap
  <2>4. 0 \in 0..n
    BY <1>2
  <2> HIDE DEF L, n
  <2> QED BY <1>8, <2>3, <2>4
<1>4. ASSUME NEW k \in 1..n, NEW g \in D[k - 1] PROVE Body(g, args[k]) \in D[k]
  <2>1. k - 1 \in 0..n /\ k \in 0..n
    BY <1>2
  <2> DEFINE a == SubSeq(args, 1, k - 1)
             v == args[k]
             p == Piece(v)
             b == Body(g, v)
  <2>2. /\ IsHeap(g) /\ g.ret = h.ret /\ g.list = L /\ g.out = L \o Spread(a) /\ Fair(g, h)
    BY <2>1 DEF IsHeap, Heaps
  <2>3. SubSeq(args, 1, k) = Append(a, v) /\ a \in Seq(Items) /\ v \in Items
    BY PrefixStep
  <2> HIDE DEF a, v
  <2>4. /\ p \in Seq(Items) /\ Spread(a) \in Seq(Items)
        /\ Spread(Append(a, v)) = Spread(a) \o p
    BY <2>3, SpreadFacts
  <2>5. b = Hold([g EXCEPT !.out = @ \o p], p)
    BY DEF Body
  <2> HIDE DEF p, b
  <2>6. IsHeap(b) /\ b.list = g.list /\ b.out = g.out \o p /\ b.ret = g.ret /\ Fair(b, g)
    BY <2>2, <2>4, <2>5, ConcatStep
  <2>7. b.out = L \o Spread(SubSeq(args, 1, k))
    <3> DEFINE w == Spread(a)
    <3>1. w \in Seq(Items) /\ L \o (w \o p) = (L \o w) \o p
      <4>1. w \in Seq(Items)
        BY <2>4
      <4> HIDE DEF w, L
      <4> QED BY <1>7, <2>4, <4>1, ConcatItems
    <3> QED BY <2>2, <2>3, <2>4, <2>6, <3>1
  <2>8. b \in Heaps(h.ret) /\ Fair(b, h) /\ b.list = L
    BY <2>2, <2>6 DEF IsHeap, Fair, SameSpare
  <2> QED BY <2>1, <2>7, <2>8 DEF b, v
<1>5. after[n] \in D[n]
  <2>1. \A k \in 1..n : \A g \in D[k - 1] : G[k][g] = Body(g, args[k])
    OBVIOUS
  <2>2. Leads(n, D, G)
    BY <1>4 DEF Leads
  <2>3. \E f : f = [k \in 0..n |-> IF k = 0 THEN j ELSE Body(f[k - 1], args[k])]
    <3> HIDE DEF D, G, n, after
    <3>1. PICK f : Path(f, n, j, G) /\ Stays(f, n, D)
      BY <1>2, <1>3, <2>2, LoopExists
    <3>2. \A k \in 1..n : G[k][f[k - 1]] = Body(f[k - 1], args[k])
      <4> TAKE k \in 1..n
      <4>1. k - 1 \in 0..n
        BY <1>2
      <4> QED BY <2>1, <3>1, <4>1 DEF Stays
    <3>3. f = [k \in 0..n |-> IF k = 0 THEN j ELSE Body(f[k - 1], args[k])]
      <4>1. \A k \in 0..n : k # 0 => k \in 1..n
        BY <1>2
      <4> QED BY <3>1, <3>2, <4>1 DEF Path
    <3> QED BY <3>3
  <2>4. after = [k \in 0..n |-> IF k = 0 THEN j ELSE Body(after[k - 1], args[k])]
    BY <2>3
  <2> HIDE DEF after
  <2>5. after[0] = j /\ \A k \in 1..n : after[k] = Body(after[k - 1], args[k])
    BY <1>2, <2>4
  <2> HIDE DEF D, G, n
  <2>6. \A k \in 0..n : after[k] \in D[k]
    BY <1>2, <1>3, <1>4, <2>5, LoopKeeps
  <2> QED BY <1>2, <2>6
<1>6. n \in 0..n
  BY <1>2
<1>9. D[n] = {g \in Heaps(h.ret) : /\ g.list = L /\ Fair(g, h)
                                   /\ g.out = L \o Spread(SubSeq(args, 1, n))}
  BY <1>6, Zenon
<1> DEFINE g == after[n]
<1> HIDE DEF D, after
<1>10. /\ IsHeap(g) /\ g.list = L /\ g.out = L \o Spread(args) /\ Fair(g, h)
  <2>1. SubSeq(args, 1, n) = args
    BY SubSeqFull
  <2> QED BY <1>5, <1>9, <2>1 DEF IsHeap, Heaps
<1> HIDE DEF g
<1>11. /\ IsHeap(Return(g, "list")) /\ Return(g, "list").list = g.list
       /\ Return(g, "list").out = g.out /\ Return(g, "list").freed = g.freed
       /\ SameSpare(Return(g, "list"), g)
  BY <1>10, ReturnFacts
<1>12. Answer("concat", L, args) = L \o Spread(args)
  BY DEF Answer
<1> QED BY <1>1, <1>10, <1>11, <1>12 DEF g, Fair, SameSpare

LEMMA GetFacts ==
    ASSUME NEW h, IsHeap(h), NEW args, args[1] = LengthKey \/ args[1] \in Nat
    PROVE  /\ IsHeap(getOwnPropertyDescriptor(h, args))
           /\ getOwnPropertyDescriptor(h, args).out = h.out
           /\ getOwnPropertyDescriptor(h, args).list = h.list
           /\ getOwnPropertyDescriptor(h, args).ret = Answer("get", h.list, args)
           /\ Sound(h) => Fair(getOwnPropertyDescriptor(h, args), h)
<1> DEFINE L == h.list
           i == args[1]
           r == getOwnPropertyDescriptor(h, args)
<1>1. L \in Seq(Items) /\ Len(L) \in Nat /\ Size(h) = Len(L) /\ DOMAIN L = 1..Len(L)
  BY HeapFacts, SeqFacts
<1>2. Answer("get", L, args) = IF i = LengthKey THEN Len(L)
                               ELSE IF i + 1 \in DOMAIN L THEN L[i + 1] ELSE Undefined
  BY DEF Answer
<1>3. CASE i = LengthKey
  <2>1. r = Return(h, Len(L))
    <3>1. i \notin 0..(Size(h) - 1)
      BY <1>3 DEF LengthKey
    <3> QED BY <1>1, <1>3, <3>1 DEF getOwnPropertyDescriptor
  <2> HIDE DEF r
  <2>2. IsHeap(r) /\ r.out = h.out /\ r.list = L /\ r.ret = Len(L) /\ Fair(r, h)
    BY <2>1, ReturnFacts DEF Fair
  <2> QED BY <1>2, <1>3, <2>2 DEF r
<1>4. CASE i \in 0..(Len(L) - 1)
  <2> DEFINE x == L[i + 1]
  <2>1. i # LengthKey /\ i + 1 \in 1..Len(L)
    BY <1>1, <1>4 DEF LengthKey
  <2>2. x \in Items /\ Count(L, x) >= 1
    BY <1>1, <2>1, SeqFacts, CountFacts
  <2>3. r = ToJS(h, x)
    BY <1>1, <1>4, <2>1 DEF getOwnPropertyDescriptor, GetItem
  <2> HIDE DEF r, x
  <2>4. /\ IsHeap(r) /\ r.list = L /\ r.out = h.out /\ r.ret = x
        /\ r.freed = (h.freed \/ h.refs[x] = 0) /\ SameSpare(r, h)
    BY <2>3, ToJSFacts
  <2>5. Sound(h) => h.refs[x] # 0
    <3>1. h.refs[x] \in Int /\ Count(L, x) \in Nat /\ Count(h.out, x) \in Nat
      BY <2>2, HeapFacts
    <3> QED BY <2>2, <3>1 DEF Sound, Spare
  <2>6. h.freed \in BOOLEAN
    BY HeapFacts
  <2> QED BY <1>1, <1>2, <2>1, <2>4, <2>5, <2>6 DEF r, x, Fair
<1>5. CASE i \in Nat /\ i >= Len(L)
  <2>1. i # LengthKey /\ i + 1 \notin DOMAIN L /\ i \notin 0..(Len(L) - 1)
    BY <1>1, <1>5 DEF LengthKey
  <2>2. r = Return(h, Undefined)
    BY <1>1, <2>1 DEF getOwnPropertyDescriptor
  <2> HIDE DEF r
  <2>3. IsHeap(r) /\ r.out = h.out /\ r.list = L /\ r.ret = Undefined /\ Fair(r, h)
    BY <2>2, ReturnFacts DEF Fair
  <2> QED BY <1>2, <2>1, <2>3 DEF r
<1>6. i = LengthKey \/ i \in 0..(Len(L) - 1) \/ (i \in Nat /\ i >= Len(L))
  BY <1>1
<1> QED BY <1>3, <1>4, <1>5, <1>6

-----------------------------------------------------------------------------
(* What the methods are given, and every call.                             *)

LEMMA BoundedFacts ==
    ASSUME NEW S, NEW n \in Nat, NEW args \in BoundedSeq(S, n)
    PROVE  args \in Seq(S) /\ Len(args) \in Nat /\ Len(args) <= n
<1>1. PICK m \in 0..n : args \in [1..m -> S]
  BY DEF BoundedSeq, SeqOf
<1>2. m \in Nat
  OBVIOUS
<1>3. /\ DOMAIN args = 1..m /\ args = [i \in 1..m |-> args[i]]
      /\ \A i \in 1..m : args[i] \in S
  BY <1>1
<1>4. args \in Seq(S) /\ Len(args) = m
  BY <1>2, <1>3, IsSeq
<1> QED BY <1>2, <1>4

LEMMA TupleFacts ==
    ASSUME NEW S, NEW n \in Nat, NEW args \in Tuples(S, n)
    PROVE  args \in Seq(S) /\ Len(args) = n /\ \A i \in 1..n : args[i] \in S
<1>1. /\ DOMAIN args = 1..n /\ args = [i \in 1..n |-> args[i]]
      /\ \A i \in 1..n : args[i] \in S
  BY DEF Tuples
<1> QED BY <1>1, IsSeq

LEMMA ItemArguments ==
    ASSUME NEW m \in {"push", "unshift", "concat"}, NEW args \in Arguments(m)
    PROVE  args \in Seq(Items)
<1>1. args \in BoundedSeq(Elements, 2)
  BY DEF Arguments
<1>2. args \in Seq(Elements)
  BY <1>1, BoundedFacts
<1> QED BY <1>2, ListAssumption, SeqMonotonic

LEMMA OneTuple ==
    ASSUME NEW S, NEW args \in Tuples(S, 1)
    PROVE  args \in Seq(S) /\ Len(args) = 1 /\ args[1] \in S
<1> DEFINE one == 1
<1>1. one \in Nat /\ one \in 1..one
  OBVIOUS
<1>2. args \in Tuples(S, one)
  OBVIOUS
<1> HIDE DEF one
<1>3. args \in Seq(S) /\ Len(args) = one /\ args[one] \in S
  BY <1>1, <1>2, TupleFacts
<1> QED BY <1>3 DEF one

LEMMA IndexFacts == Indices \subseteq Int /\ Keys \subseteq Nat
  BY ListAssumption DEF Indices, Keys

LEMMA SliceArguments ==
    ASSUME NEW args \in Arguments("slice")
    PROVE  /\ Len(args) \in Nat /\ Len(args) >= 1 /\ args[1] \in Int
           /\ 2 <= Len(args) => args[2] \in Int \cup {Undefined}
<1>1. args \in Tuples(Indices, 1) \/ \E i \in Indices, j \in Indices \cup {Undefined} : args = <<i, j>>
  BY DEF Arguments
<1>2. CASE args \in Tuples(Indices, 1)
  <2>1. Len(args) = 1 /\ args[1] \in Indices
    BY <1>2, OneTuple
  <2>2. ~(2 <= Len(args)) /\ Len(args) \in Nat /\ Len(args) >= 1
    BY <2>1
  <2>3. args[1] \in Int
    BY <2>1, IndexFacts
  <2> QED BY <2>2, <2>3
<1>3. CASE \E i \in Indices, j \in Indices \cup {Undefined} : args = <<i, j>>
  <2>1. PICK i \in Indices, j \in Indices \cup {Undefined} : args = <<i, j>>
    BY <1>3
  <2>2. Len(args) = 2 /\ args[1] = i /\ args[2] = j
    BY <2>1
  <2> QED BY <2>2, IndexFacts
<1> QED BY <1>1, <1>2, <1>3

LEMMA SpliceArguments ==
    ASSUME NEW args \in Arguments("splice")
    PROVE  PlacesThenItems(args) /\ \E S : args \in Seq(S)
<1>1. args \in BoundedSeq(Indices, 2) \/ args \in Indices \X Indices \X Elements
  BY DEF Arguments
<1>2. CASE args \in BoundedSeq(Indices, 2)
  <2>1. args \in Seq(Indices) /\ Len(args) \in Nat /\ Len(args) <= 2
    BY <1>2, BoundedFacts
  <2>2. SubSeq(args, 3, Len(args)) = <<>> /\ <<>> \in Seq(Items)
    BY <2>1, SubSeqEmpty, EmptySeq
  <2>3. \A k \in 1..2 : k <= Len(args) => args[k] \in Int
    BY <2>1, IndexFacts, SeqFacts
  <2> QED BY <2>1, <2>2, <2>3 DEF PlacesThenItems
<1>3. CASE args \in Indices \X Indices \X Elements
  <2>1. PICK i \in Indices, j \in Indices, x \in Elements : args = <<i, j, x>>
    BY <1>3
  <2>2. /\ Len(args) = 3 /\ args[1] = i /\ args[2] = j /\ args[3] = x
        /\ i \in Int /\ j \in Int /\ x \in Items
    BY <2>1, IndexFacts, ListAssumption
  <2> DEFINE S == {i, j, x}
  <2>3. args \in Seq(S)
    BY <2>1
  <2>4. SubSeq(args, 3, Len(args)) \in Seq(Items)
    <3>1. \A k \in 3..Len(args) : args[k] \in Items
      BY <2>2
    <3> HIDE DEF S
    <3>2. SubSeq(args, 3, 3) \in Seq(Items)
      BY <2>2, <2>3, <3>1, SubSeqProperties
    <3> QED BY <2>2, <3>2
  <2>5. \A k \in 1..2 : args[k] \in Int
    BY <2>2
  <2>6. ~(Len(args) <= 2)
    BY <2>2
  <2>7. PlacesThenItems(args)
    BY <2>4, <2>5, <2>6 DEF PlacesThenItems
  <2> QED BY <2>3, <2>7
<1> QED BY <1>1, <1>2, <1>3

LEMMA FillArguments ==
    ASSUME NEW args \in Arguments("fill")
    PROVE  /\ Len(args) \in Nat /\ args[1] \in Items
           /\ 2 <= Len(args) => args[2] \in Int
           /\ 3 <= Len(args) => args[3] \in Int
<1>1. \/ args \in Tuples(Elements, 1) \/ args \in Elements \X Indices
      \/ args \in Elements \X Indices \X Indices
  BY DEF Arguments
<1>2. CASE args \in Tuples(Elements, 1)
  <2>1. Len(args) = 1 /\ args[1] \in Elements
    BY <1>2, OneTuple
  <2>2. ~(2 <= Len(args)) /\ ~(3 <= Len(args))
    BY <2>1
  <2> QED BY <2>1, <2>2, ListAssumption
<1>3. CASE args \in Elements \X Indices
  <2>1. PICK x \in Elements, i \in Indices : args = <<x, i>>
    BY <1>3
  <2>2. Len(args) = 2 /\ args[1] = x /\ args[2] = i
    BY <2>1
  <2> QED BY <2>2, ListAssumption, IndexFacts
<1>4. CASE args \in Elements \X Indices \X Indices
  <2>1. PICK x \in Elements, i \in Indices, j \in Indices : args = <<x, i, j>>
    BY <1>4
  <2>2. Len(args) = 3 /\ args[1] = x /\ args[2] = i /\ args[3] = j
    BY <2>1
  <2> QED BY <2>2, ListAssumption, IndexFacts
<1> QED BY <1>1, <1>2, <1>3, <1>4

LEMMA CopyWithinArguments ==
    ASSUME NEW args \in Arguments("copyWithin")
    PROVE  Len(args) \in Nat /\ \A k \in 1..3 : k <= Len(args) => args[k] \in Int
<1>1. args \in BoundedSeq(Indices, 3)
  BY DEF Arguments
<1>2. args \in Seq(Indices) /\ Len(args) \in Nat
  BY <1>1, BoundedFacts
<1> QED BY <1>2, SeqFacts, IndexFacts

LEMMA KeyArguments ==
    ASSUME NEW m \in {"get", "set", "delete"}, NEW args \in Arguments(m)
    PROVE  /\ args[1] = LengthKey \/ args[1] \in Nat
           /\ args[1] \in Int
           /\ m = "set" => args[2] \in Items
<1>1. LengthKey \in Int
  BY DEF LengthKey
<1>2. CASE m = "set"
  <2>1. args \in (Keys \cup {LengthKey}) \X Elements
    BY <1>2 DEF Arguments
  <2>2. PICK k \in Keys \cup {LengthKey}, x \in Elements : args = <<k, x>>
    BY <2>1
  <2>3. args[1] = k /\ args[2] = x
    BY <2>2
  <2>4. k = LengthKey \/ k \in Nat
    BY <2>2, IndexFacts
  <2>5. k \in Int
    BY <1>1, <2>4
  <2>6. x \in Items
    BY <2>2, ListAssumption
  <2> QED BY <2>3, <2>4, <2>5, <2>6
<1>3. CASE m \in {"get", "delete"}
  <2>1. args \in Tuples(Keys \cup {LengthKey}, 1)
    BY <1>3 DEF Arguments
  <2>2. args[1] \in Keys \cup {LengthKey}
    BY <2>1, OneTuple
  <2>3. args[1] = LengthKey \/ args[1] \in Nat
    BY <2>2, IndexFacts
  <2>4. args[1] \in Int
    BY <1>1, <2>3
  <2>5. m # "set"
    BY <1>3
  <2> QED BY <2>3, <2>4, <2>5
<1> QED BY <1>2, <1>3

\* The methods that only look at the list, and do not make a new one.
Lookers == {"indexOf", "lastIndexOf", "includes", "flat", "join", "toString", "toLocaleString",
            "valueOf", "ownKeys"}

LEMMA LookerFacts ==
    ASSUME NEW h, IsHeap(h), NEW m \in Lookers, NEW args
    PROVE  \E v : Call(m, h, args) = Return(h, v)
<1>1. CASE m = "indexOf"
  <2>1. Call("indexOf", h, args) = array_indexOf(h, args)
    BY DEF Call
  <2> QED BY <1>1, <2>1 DEF array_indexOf
<1>2. CASE m = "lastIndexOf"
  <2>1. Call("lastIndexOf", h, args) = array_lastIndexOf(h, args)
    BY DEF Call
  <2> QED BY <1>2, <2>1 DEF array_lastIndexOf
<1>3. CASE m = "includes"
  <2>1. Call("includes", h, args) = array_includes(h, args)
    BY DEF Call
  <2> QED BY <1>3, <2>1 DEF array_includes
<1>4. CASE m = "flat"
  <2>1. Call("flat", h, args) = array_flat(h, args)
    BY DEF Call
  <2> QED BY <1>4, <2>1 DEF array_flat, ReturnArray
<1>5. \A a : \E v : array_join(h, a) = Return(h, v)
  BY DEF array_join
<1>6. CASE m = "join"
  <2>1. Call("join", h, args) = array_join(h, args)
    BY DEF Call
  <2> QED BY <1>5, <1>6, <2>1
<1>7. CASE m = "toString"
  <2>1. Call("toString", h, args) = array_join(h, args)
    BY DEF Call, array_toString
  <2> QED BY <1>5, <1>7, <2>1
<1>8. CASE m = "toLocaleString"
  <2>1. Call("toLocaleString", h, args) = array_join(h, <<>>)
    BY DEF Call, array_toLocaleString
  <2> QED BY <1>5, <1>8, <2>1
<1>9. CASE m = "valueOf"
  <2>1. Call("valueOf", h, args) = Return(h, "self")
    BY DEF Call, array_valueOf, ReturnSelf
  <2> QED BY <1>9, <2>1
<1>10. CASE m = "ownKeys"
  <2>1. Call("ownKeys", h, args) = Return(h, Append(Upto(0, Size(h)), LengthKey))
    BY DEF Call, ownPropertyKeys
  <2> QED BY <1>10, <2>1
<1> QED BY <1>1, <1>2, <1>3, <1>4, <1>6, <1>7, <1>8, <1>9, <1>10 DEF Lookers

LEMMA CallIs ==
    ASSUME NEW h, NEW args
    PROVE  /\ Call("reverse", h, args) = array_reverse(h, args)
           /\ Call("pop", h, args) = array_pop(h, args)
           /\ Call("push", h, args) = array_push(h, args)
           /\ Call("shift", h, args) = array_shift(h, args)
           /\ Call("unshift", h, args) = array_unshift(h, args)
           /\ Call("concat", h, args) = array_concat(h, args)
           /\ Call("slice", h, args) = array_slice(h, args)
           /\ Call("splice", h, args) = array_splice(h, args)
           /\ Call("fill", h, args) = array_fill(h, args)
           /\ Call("copyWithin", h, args) = array_copyWithin(h, args)
           /\ Call("get", h, args) = getOwnPropertyDescriptor(h, args)
           /\ Call("set", h, args) = defineProperty(h, args)
           /\ Call("delete", h, args) = delete_(h, args)
  BY DEF Call

\* Calls on a list of length n that are known to leave the counts wrong ...
Miscounting(m, n, args) ==
    \/ m = "splice" /\ Len(args) > 2
    \/ m = "copyWithin"
    \/ m = "delete" /\ args[1] \in 0..(n - 1)
    \/ m = "set" /\ args[1] >= n
\* ... and calls that may use an item after it is gone.
Careless(m, n, args) == m = "shift" \/ (m = "set" /\ args[1] >= n)

\* What every call from h to g keeps.
Regular(g, h, m, args) ==
    /\ IsHeap(g)
    /\ m \notin {"concat", "slice", "splice"} => g.out = <<>>
    /\ (Sound(h) /\ ~Miscounting(m, Len(h.list), args)) => SameSpare(g, h)
    /\ (Sound(h) /\ ~Careless(m, Len(h.list), args)) => g.freed = h.freed
    /\ m = "delete" => (g.ret <=> args[1] \in 0..(Len(h.list) - 1))

\* The list after a call.  Setting `length` is refused, and so is a deletion
\* beyond the end.
Refused(m, n, args) == (m = "set" /\ args[1] = LengthKey) \/ (m = "delete" /\ args[1] \notin 0..(n - 1))
Leaves(g, h, m, args) ==
    g.list = IF Refused(m, Len(h.list), args) THEN h.list ELSE Edited(m, h.list, args)

LEMMA PlainFacts ==
    ASSUME NEW h, IsHeap(h), h.out = <<>>, NEW g, IsHeap(g), g.out = <<>>, NEW m, NEW args,
           m \notin {"delete", "set"},
           Sound(h) => SameSpare(g, h),
           m # "shift" => (Sound(h) => g.freed = h.freed),
           g.list = Edited(m, h.list, args)
    PROVE  Regular(g, h, m, args) /\ Leaves(g, h, m, args)
<1>1. ~Refused(m, Len(h.list), args)
  BY DEF Refused
<1>2. Regular(g, h, m, args)
  BY DEF Regular, Careless
<1> QED BY <1>1, <1>2 DEF Leaves

LEMMA EditorCalls ==
    ASSUME NEW h, IsHeap(h), h.out = <<>>, NEW m \in Editors, NEW args \in Arguments(m)
    PROVE  Regular(Call(m, h, args), h, m, args) /\ Leaves(Call(m, h, args), h, m, args)
<1> DEFINE g == Call(m, h, args)
<1>0. g = Call(m, h, args)
  OBVIOUS
<1> HIDE DEF g
<1>1. CASE m = "reverse"
  <2>1. g = array_reverse(h, args)
    BY <1>0, <1>1, CallIs
  <2>2. /\ IsHeap(g) /\ g.out = <<>> /\ SameSpare(g, h) /\ g.freed = h.freed
        /\ g.list = Edited(m, h.list, args)
    BY <1>1, <2>1, ReverseFacts DEF Fair
  <2> QED BY <1>0, <1>1, <2>2, PlainFacts
<1>2. CASE m = "pop"
  <2>1. g = array_pop(h, args)
    BY <1>0, <1>2, CallIs
  <2>2. /\ IsHeap(g) /\ g.out = <<>>
        /\ Sound(h) => (SameSpare(g, h) /\ g.freed = h.freed)
        /\ g.list = Edited(m, h.list, args)
    BY <1>2, <2>1, PopFacts DEF Fair
  <2>3. (Sound(h) => SameSpare(g, h)) /\ (Sound(h) => g.freed = h.freed)
    BY <2>2
  <2> QED BY <1>0, <1>2, <2>2, <2>3, PlainFacts
<1>3. CASE m = "push"
  <2>1. g = array_push(h, args)
    BY <1>0, <1>3, CallIs
  <2>2. args \in Seq(Items)
    BY <1>3, ItemArguments
  <2>3. /\ IsHeap(g) /\ g.out = <<>> /\ SameSpare(g, h) /\ g.freed = h.freed
        /\ g.list = Edited(m, h.list, args)
    BY <1>3, <2>1, <2>2, PushFacts DEF Fair
  <2> QED BY <1>0, <1>3, <2>3, PlainFacts
<1>4. CASE m = "shift"
  <2>1. g = array_shift(h, args)
    BY <1>0, <1>4, CallIs
  <2>2. IsHeap(g) /\ g.out = <<>> /\ SameSpare(g, h) /\ g.list = Edited(m, h.list, args)
    BY <1>4, <2>1, ShiftFacts
  <2> QED BY <1>0, <1>4, <2>2, PlainFacts
<1>5. CASE m = "unshift"
  <2>1. g = array_unshift(h, args)
    BY <1>0, <1>5, CallIs
  <2>2. args \in Seq(Items)
    BY <1>5, ItemArguments
  <2>3. /\ IsHeap(g) /\ g.out = <<>> /\ SameSpare(g, h) /\ g.freed = h.freed
        /\ g.list = Edited(m, h.list, args)
    BY <1>5, <2>1, <2>2, UnshiftFacts DEF Fair
  <2> QED BY <1>0, <1>5, <2>3, PlainFacts
<1>6. CASE m = "splice"
  <2>1. g = array_splice(h, args)
    BY <1>0, <1>6, CallIs
  <2>2. PICK S : args \in Seq(S)
    BY <1>6, SpliceArguments
  <2>3. PlacesThenItems(args)
    BY <1>6, SpliceArguments
  <2>4. /\ IsHeap(g) /\ g.freed = h.freed /\ g.list = Edited(m, h.list, args)
        /\ Len(args) <= 2 => SameSpare(g, h)
    BY <1>6, <2>1, <2>2, <2>3, SpliceFacts DEF Fair
  <2>5. Len(args) \in Nat
    BY <2>2, SeqFacts
  <2>6. (Sound(h) /\ ~Miscounting(m, Len(h.list), args)) => SameSpare(g, h)
    BY <1>6, <2>4, <2>5 DEF Miscounting
  <2>7. Regular(g, h, m, args)
    BY <1>6, <2>4, <2>6 DEF Regular
  <2>8. ~Refused(m, Len(h.list), args)
    BY <1>6 DEF Refused
  <2> QED BY <1>0, <2>4, <2>7, <2>8 DEF Leaves
<1>7. CASE m = "fill"
  <2>1. g = array_fill(h, args)
    BY <1>0, <1>7, CallIs
  <2>2. /\ Len(args) \in Nat /\ args[1] \in Items
        /\ 2 <= Len(args) => args[2] \in Int
        /\ 3 <= Len(args) => args[3] \in Int
    BY <1>7, FillArguments
  <2>3. /\ IsHeap(g) /\ g.out = <<>> /\ SameSpare(g, h) /\ g.freed = h.freed
        /\ g.list = Edited(m, h.list, args)
    BY <1>7, <2>1, <2>2, FillFacts DEF Fair
  <2> QED BY <1>0, <1>7, <2>3, PlainFacts
<1>8. CASE m = "copyWithin"
  <2>1. g = array_copyWithin(h, args)
    BY <1>0, <1>8, CallIs
  <2>2. Len(args) \in Nat /\ \A k \in 1..3 : k <= Len(args) => args[k] \in Int
    BY <1>8, CopyWithinArguments
  <2>3. IsHeap(g) /\ g.out = <<>> /\ g.freed = h.freed /\ g.list = Edited(m, h.list, args)
    BY <1>8, <2>1, <2>2, CopyWithinFacts
  <2>4. Regular(g, h, m, args)
    BY <1>8, <2>3 DEF Regular, Miscounting
  <2>5. ~Refused(m, Len(h.list), args)
    BY <1>8 DEF Refused
  <2> QED BY <1>0, <2>3, <2>4, <2>5 DEF Leaves
<1>9. CASE m = "set"
  <2>1. g = defineProperty(h, args)
    BY <1>0, <1>9, CallIs
  <2>2. /\ args[1] = LengthKey \/ args[1] \in Nat
        /\ args[1] \in Int /\ args[2] \in Items
    BY <1>9, KeyArguments
  <2>3. /\ IsHeap(g) /\ g.out = <<>>
        /\ args[1] = LengthKey => g.list = h.list
        /\ args[1] # LengthKey => g.list = Edited(m, h.list, args)
        /\ args[1] < Len(h.list) => SameSpare(g, h) /\ g.freed = h.freed
    BY <1>9, <2>1, <2>2, SetFacts DEF Fair
  <2>4. args[1] < Len(h.list) \/ args[1] >= Len(h.list)
    BY <2>2, HeapFacts
  <2>5. (Sound(h) /\ ~Miscounting(m, Len(h.list), args)) => SameSpare(g, h)
    BY <1>9, <2>3, <2>4 DEF Miscounting
  <2>6. (Sound(h) /\ ~Careless(m, Len(h.list), args)) => g.freed = h.freed
    BY <1>9, <2>3, <2>4 DEF Careless
  <2>7. Regular(g, h, m, args)
    BY <1>9, <2>3, <2>5, <2>6 DEF Regular
  <2>8. Refused(m, Len(h.list), args) <=> args[1] = LengthKey
    BY <1>9 DEF Refused
  <2> QED BY <1>0, <2>3, <2>7, <2>8 DEF Leaves
<1>10. CASE m = "delete"
  <2>1. g = delete_(h, args)
    BY <1>0, <1>10, CallIs
  <2>2. args[1] \in Int
    BY <1>10, KeyArguments
  <2>3. /\ IsHeap(g) /\ g.out = <<>> /\ g.freed = h.freed
        /\ args[1] \in 0..(Len(h.list) - 1) => g.list = Edited(m, h.list, args) /\ g.ret = TRUE
        /\ args[1] \notin 0..(Len(h.list) - 1)
             => g.ret = FALSE /\ g.list = h.list /\ SameSpare(g, h)
    BY <1>10, <2>1, <2>2, DeleteFacts DEF Fair
  <2>4. g.ret <=> args[1] \in 0..(Len(h.list) - 1)
    BY <2>3
  <2>5. (Sound(h) /\ ~Miscounting(m, Len(h.list), args)) => SameSpare(g, h)
    BY <1>10, <2>3 DEF Miscounting
  <2>6. Regular(g, h, m, args)
    BY <1>10, <2>3, <2>4, <2>5 DEF Regular
  <2>7. Refused(m, Len(h.list), args) <=> args[1] \notin 0..(Len(h.list) - 1)
    BY <1>10 DEF Refused
  <2> QED BY <1>0, <2>3, <2>6, <2>7 DEF Leaves
<1> QED BY <1>1, <1>2, <1>3, <1>4, <1>5, <1>6, <1>7, <1>8, <1>9, <1>10 DEF Editors

LEMMA ReaderCalls ==
    ASSUME NEW h, IsHeap(h), h.out = <<>>, NEW m \in Readers, NEW args \in Arguments(m)
    PROVE  Regular(Call(m, h, args), h, m, args) /\ Leaves(Call(m, h, args), h, m, args)
<1> DEFINE g == Call(m, h, args)
<1>0. g = Call(m, h, args)
  OBVIOUS
<1> HIDE DEF g
<1>e. Edited(m, h.list, args) = h.list
  BY DEF Readers, Edited
<1>r. ~Refused(m, Len(h.list), args) /\ m \notin {"set", "delete"}
  BY DEF Refused, Readers
<1>1. CASE m \in Lookers
  <2>1. PICK v : g = Return(h, v)
    BY <1>0, <1>1, LookerFacts
  <2>2. IsHeap(g) /\ g.out = <<>> /\ SameSpare(g, h) /\ g.freed = h.freed /\ g.list = h.list
    BY <2>1, ReturnFacts
  <2> QED BY <1>0, <1>e, <1>r, <1>1, <2>2, PlainFacts
<1>2. CASE m = "concat"
  <2>1. g = array_concat(h, args)
    BY <1>0, <1>2, CallIs
  <2>2. args \in Seq(Items)
    BY <1>2, ItemArguments
  <2>3. IsHeap(g) /\ SameSpare(g, h) /\ g.freed = h.freed /\ g.list = h.list
    BY <2>1, <2>2, ConcatFacts DEF Fair
  <2>4. Regular(g, h, m, args)
    BY <1>2, <2>3 DEF Regular
  <2> QED BY <1>0, <1>e, <1>r, <2>3, <2>4 DEF Leaves
<1>3. CASE m = "slice"
  <2>1. g = array_slice(h, args)
    BY <1>0, <1>3, CallIs
  <2>2. /\ Len(args) \in Nat /\ Len(args) >= 1 /\ args[1] \in Int
        /\ 2 <= Len(args) => args[2] \in Int \cup {Undefined}
    BY <1>3, SliceArguments
  <2>3. IsHeap(g) /\ SameSpare(g, h) /\ g.freed = h.freed /\ g.list = h.list
    BY <2>1, <2>2, SliceFacts DEF Fair
  <2>4. Regular(g, h, m, args)
    BY <1>3, <2>3 DEF Regular
  <2> QED BY <1>0, <1>e, <1>r, <2>3, <2>4 DEF Leaves
<1>4. CASE m = "get"
  <2>1. g = getOwnPropertyDescriptor(h, args)
    BY <1>0, <1>4, CallIs
  <2>2. args[1] = LengthKey \/ args[1] \in Nat
    BY <1>4, KeyArguments
  <2>3. /\ IsHeap(g) /\ g.out = <<>>
        /\ Sound(h) => (SameSpare(g, h) /\ g.freed = h.freed)
        /\ g.list = h.list
    BY <2>1, <2>2, GetFacts DEF Fair
  <2>4. (Sound(h) => SameSpare(g, h)) /\ (Sound(h) => g.freed = h.freed)
    BY <2>3
  <2>5. g.list = Edited(m, h.list, args)
    BY <1>e, <2>3
  <2> QED BY <1>0, <1>r, <2>3, <2>4, <2>5, PlainFacts
<1> QED BY <1>1, <1>2, <1>3, <1>4 DEF Readers, Lookers

LEMMA CallFacts ==
    ASSUME NEW h, IsHeap(h), h.out = <<>>, NEW m \in Editors \cup Readers, NEW args \in Arguments(m)
    PROVE  Regular(Call(m, h, args), h, m, args) /\ Leaves(Call(m, h, args), h, m, args)
  BY EditorCalls, ReaderCalls

-----------------------------------------------------------------------------
(* The states between the steps.                                           *)

IsLoop(f) ==
    f \in [m : Loops, k : Nat, len : Nat, initial : {f.initial}, skipped : Nat, acc : {f.acc},
           seen : {f.seen}, rets : {f.rets}, result : {f.result}, nest : {f.nest}, depth : 0..1,
           rest : {f.rest}, leaked : Seq(Items), lost : BOOLEAN, inside : BOOLEAN, edits : Nat, shrunk : BOOLEAN]

\* From a first index to a last one, within a list of length n.
Spans(n) == Nat \X {j \in Int : j < n}

IsSort(f) ==
    f \in [m : {"sort"}, by : Comparators, before : Seq(Items), todo : Seq(Spans(Len(f.before))),
           range : {<<>>} \cup Spans(Len(f.before)), pivot : {f.pivot}, item : {f.item}, end : Nat,
           k : Nat, inside : BOOLEAN, edits : Nat, shrunk : BOOLEAN, failed : BOOLEAN]

\* Unless the program's function took items away, what is left to visit is there.
LoopOK(f, s) == /\ IsLoop(f)
                /\ f.m \in Iterators \/ f.shrunk \/ f.len <= Len(s)

SortOK(f, s) == /\ IsSort(f)
                /\ f.shrunk \/ Len(f.before) <= Len(s)
                /\ f.inside => f.range # <<>>
                /\ f.range # <<>> => /\ f.range[1] <= f.end /\ f.end < f.k
                                     /\ f.k <= f.range[2] + 1
                                     /\ f.inside => f.k <= f.range[2]

CrashOK(f) == f.m = "crashed" /\ f.shrunk /\ f.by \notin Iterators

ListOK == list \in Seq(Items) /\ refs \in [Items -> Int] /\ freed \in BOOLEAN
LastOK == last.out \in Seq(Items) /\ (frame # Idle => last = NoCall)
FrameOK == frame = Idle \/ LoopOK(frame, list) \/ SortOK(frame, list) \/ CrashOK(frame)
Safe == ListOK /\ LastOK /\ FrameOK

LEMMA KindFacts ==
    ASSUME Safe
    PROVE  /\ frame.m \in Loops => LoopOK(frame, list) /\ last = NoCall
           /\ frame.m = "sort" => SortOK(frame, list) /\ last = NoCall
           /\ frame.m = "crashed" => CrashOK(frame) /\ last = NoCall
           /\ InCallback => LoopOK(frame, list) \/ SortOK(frame, list)
           /\ InCallback => last = NoCall
<1>1. "idle" \notin Loops /\ "sort" \notin Loops /\ "crashed" \notin Loops
  BY DEF Loops, Iterators, Reducers
<1>2. frame = Idle => frame.m = "idle"
  BY DEF Idle
<1>3. LoopOK(frame, list) => frame.m \in Loops
  BY DEF LoopOK, IsLoop
<1>4. SortOK(frame, list) => frame.m = "sort"
  BY DEF SortOK, IsSort
<1>5. CrashOK(frame) => frame.m = "crashed"
  BY DEF CrashOK
<1>6. /\ frame.m \in Loops => LoopOK(frame, list) /\ frame # Idle
      /\ frame.m = "sort" => SortOK(frame, list) /\ frame # Idle
      /\ frame.m = "crashed" => CrashOK(frame) /\ frame # Idle
  BY <1>1, <1>2, <1>3, <1>4, <1>5 DEF Safe, FrameOK
<1>7. InCallback => frame # Idle /\ frame.m # "crashed"
  BY DEF InCallback, Running
<1>8. InCallback => LoopOK(frame, list) \/ SortOK(frame, list)
  BY <1>5, <1>7 DEF Safe, FrameOK
<1>9. frame # Idle => last = NoCall
  BY DEF Safe, LastOK
<1> QED BY <1>6, <1>7, <1>8, <1>9

LEMMA HeapIsHeap ==
    ASSUME ListOK
    PROVE  /\ IsHeap(Heap) /\ Heap.list = list /\ Heap.refs = refs /\ Heap.freed = freed
           /\ Heap.out = <<>>
<1>1. <<>> \in Seq(Items)
  OBVIOUS
<1> QED BY <1>1 DEF ListOK, IsHeap, Heaps, Heap

LEMMA BecomeFacts ==
    ASSUME NEW h, IsHeap(h), Become(h)
    PROVE  ListOK' /\ list' = h.list /\ refs' = h.refs /\ freed' = h.freed
  BY HeapFacts DEF Become, ListOK

LEMMA FreshFacts ==
    ASSUME NEW s \in Seq(Items)
    PROVE  /\ Fresh(s) \in [Items -> Int]
           /\ \A x \in Items : Fresh(s)[x] = Kept(x) + Count(s, x)
<1>1. \A x : Kept(x) \in Int
  BY DEF Kept
<1>2. ASSUME NEW x \in Items PROVE Count(s, x) + Kept(x) \in Int /\ Count(s, x) + Kept(x) = Kept(x) + Count(s, x)
  <2>1. Count(s, x) \in Nat
    BY CountInt
  <2> QED BY <1>1, <2>1
<1> QED BY <1>2 DEF Fresh

Swapped(s, i, j) == IF i = j THEN s ELSE [[s EXCEPT ![i + 1] = s[j + 1]] EXCEPT ![j + 1] = s[i + 1]]

LEMMA SwapFacts ==
    ASSUME NEW h, IsHeap(h), NEW i \in Nat, NEW j \in Nat,
           i # j => i < Len(h.list) /\ j < Len(h.list)
    PROVE  LET g == swapItems(h, i, j)
           IN  /\ IsHeap(g) /\ g.list = Swapped(h.list, i, j) /\ Len(g.list) = Len(h.list)
               /\ g.out = h.out /\ Fair(g, h)
               /\ \A x \in Items : Count(g.list, x) = Count(h.list, x)
<1> DEFINE L == h.list
           x == h.list[i + 1]
           y == h.list[j + 1]
           a == Incref(h, x)
           b == Incref(a, y)
           c == SetItem(b, i, y)
           g == SetItem(c, j, x)
           M == [L EXCEPT ![i + 1] = y]
           N == [M EXCEPT ![j + 1] = x]
<1>1. CASE i = j
  BY <1>1 DEF swapItems, Swapped, Fair, SameSpare
<1>2. CASE i # j
  <2>0. L \in Seq(Items) /\ Len(L) \in Nat
    BY HeapFacts
  <2>1. i + 1 \in 1..Len(L) /\ j + 1 \in 1..Len(L) /\ i \in 0..(Len(L) - 1) /\ j \in 0..(Len(L) - 1)
    BY <1>2, <2>0
  <2>2. x \in Items /\ y \in Items /\ x = L[i + 1] /\ y = L[j + 1] /\ L = h.list
    BY <2>0, <2>1, SeqFacts
  <2>3. swapItems(h, i, j) = g
    BY <1>2 DEF swapItems, GetItem
  <2>4. Swapped(L, i, j) = N
    BY <1>2 DEF Swapped
  <2>5. a = Incref(h, x) /\ b = Incref(a, y) /\ c = SetItem(b, i, y) /\ g = SetItem(c, j, x)
    OBVIOUS
  <2>6. M = [L EXCEPT ![i + 1] = y] /\ N = [M EXCEPT ![j + 1] = x]
    OBVIOUS
  <2>m. DOMAIN L = 1..Len(L)
    BY <2>0, SeqFacts
  <2>7. M[j + 1] = y
    BY <1>2, <2>1, <2>2, <2>m
  <2> HIDE DEF L, x, y, a, b, c, g, M, N
  <2>8. /\ IsHeap(a) /\ a.list = L /\ a.out = h.out /\ a.freed = h.freed
        /\ \A z \in Items : Spare(a, z) = Spare(h, z) + One(x, z)
    BY <2>2, <2>5, IncrefFacts
  <2>9. /\ IsHeap(b) /\ b.list = L /\ b.out = h.out /\ b.freed = h.freed
        /\ \A z \in Items : Spare(b, z) = Spare(a, z) + One(y, z)
    BY <2>2, <2>5, <2>8, IncrefFacts
  <2>10. /\ IsHeap(c) /\ c.list = M /\ c.out = h.out /\ c.freed = h.freed
         /\ \A z \in Items : Spare(c, z) = Spare(b, z) - One(y, z)
    BY <2>1, <2>2, <2>5, <2>6, <2>9, SetItemFacts
  <2>11. M \in Seq(Items) /\ Len(M) = Len(L)
         /\ \A z \in Items : Count(M, z) = Count(L, z) - One(y, z) + One(y, z) + One(y, z) - One(x, z)
    <3>1. M \in Seq(Items) /\ Len(M) = Len(L)
          /\ \A z : Count(M, z) = Count(L, z) - One(x, z) + One(y, z)
      <4> DEFINE k == i + 1
      <4>1. k \in 1..Len(L) /\ L[k] = x /\ M = [L EXCEPT ![k] = y] /\ y \in Items
        BY <2>1, <2>2, <2>6
      <4> HIDE DEF k
      <4> QED BY <2>0, <4>1, CountExcept
    <3>2. ASSUME NEW z \in Items
          PROVE  Count(M, z) = Count(L, z) - One(y, z) + One(y, z) + One(y, z) - One(x, z)
      <4>1. Count(L, z) \in Int /\ One(x, z) \in Int /\ One(y, z) \in Int
        BY <2>0, CountInt
      <4>2. Count(M, z) = Count(L, z) - One(x, z) + One(y, z)
        BY <3>1
      <4> QED BY <4>1, <4>2
    <3> QED BY <3>1, <3>2
  <2>i. j + 1 \in 1..Len(M) /\ j \in 0..(Len(M) - 1) /\ c.list = M
    BY <2>1, <2>10, <2>11
  <2>12. N \in Seq(Items) /\ Len(N) = Len(M)
         /\ \A z : Count(N, z) = Count(M, z) - One(y, z) + One(x, z)
    <3>1. /\ [M EXCEPT ![j + 1] = x] \in Seq(Items) /\ Len([M EXCEPT ![j + 1] = x]) = Len(M)
          /\ \A z : Count([M EXCEPT ![j + 1] = x], z) = Count(M, z) - One(M[j + 1], z) + One(x, z)
      BY <2>2, <2>i, <2>11, CountExcept
    <3> QED BY <2>6, <2>7, <3>1
  <2>13. /\ IsHeap(g) /\ g.list = N /\ g.out = h.out /\ g.freed = h.freed
         /\ \A z \in Items : Spare(g, z) = Spare(c, z) - One(x, z)
    <3>1. j \in 0..(Len(c.list) - 1)
      BY <2>i
    <3>2. /\ IsHeap(SetItem(c, j, x)) /\ SetItem(c, j, x).list = [c.list EXCEPT ![j + 1] = x]
          /\ SetItem(c, j, x).out = c.out /\ SetItem(c, j, x).freed = c.freed
          /\ \A z \in Items : Spare(SetItem(c, j, x), z) = Spare(c, z) - One(x, z)
      BY <2>2, <2>10, <3>1, SetItemFacts
    <3> QED BY <2>5, <2>6, <2>10, <3>2
  <2>14. ASSUME NEW z \in Items
         PROVE  Spare(g, z) = Spare(h, z) /\ Count(N, z) = Count(L, z)
    <3>1. Count(L, z) \in Int /\ One(x, z) \in Int /\ One(y, z) \in Int /\ Spare(h, z) \in Int
      BY <2>0, CountInt, HeapFacts
    <3>2. Spare(a, z) = Spare(h, z) + One(x, z) /\ Spare(b, z) = Spare(a, z) + One(y, z)
          /\ Spare(c, z) = Spare(b, z) - One(y, z) /\ Spare(g, z) = Spare(c, z) - One(x, z)
      BY <2>8, <2>9, <2>10, <2>13
    <3>3. Count(M, z) = Count(L, z) - One(y, z) + One(y, z) + One(y, z) - One(x, z)
          /\ Count(N, z) = Count(M, z) - One(y, z) + One(x, z)
      BY <2>11, <2>12
    <3> QED BY <3>1, <3>2, <3>3
  <2>15. Fair(g, h)
    BY <2>13, <2>14 DEF Fair, SameSpare
  <2> QED BY <2>2, <2>3, <2>4, <2>11, <2>12, <2>13, <2>14, <2>15
<1> QED BY <1>1, <1>2

-----------------------------------------------------------------------------
(* The steps of a loop.                                                    *)

LEMMA LoopFields ==
    ASSUME NEW f, IsLoop(f)
    PROVE  /\ \A v : IsLoop([f EXCEPT !.seen = v]) /\ IsLoop([f EXCEPT !.nest = v])
           /\ \A v \in 0..1 : IsLoop([f EXCEPT !.depth = v])
           /\ \A v \in Nat : IsLoop([f EXCEPT !.k = v]) /\ IsLoop([f EXCEPT !.edits = v])
           /\ \A v \in BOOLEAN : IsLoop([f EXCEPT !.shrunk = v])
<1> DEFINE a(v) == [f EXCEPT !.seen = v]
           b(v) == [f EXCEPT !.nest = v]
           c(v) == [f EXCEPT !.depth = v]
           d(v) == [f EXCEPT !.k = v]
<1>1. ASSUME NEW v PROVE IsLoop(a(v))
  BY DEF IsLoop
<1>2. ASSUME NEW v PROVE IsLoop(b(v))
  BY DEF IsLoop
<1>3. ASSUME NEW v \in 0..1 PROVE IsLoop(c(v))
  BY DEF IsLoop
<1>4. ASSUME NEW v \in Nat PROVE IsLoop(d(v))
  BY DEF IsLoop
<1>5. ASSUME NEW v \in Nat PROVE IsLoop([f EXCEPT !.edits = v])
  BY DEF IsLoop
<1>6. ASSUME NEW v \in BOOLEAN PROVE IsLoop([f EXCEPT !.shrunk = v])
  BY DEF IsLoop
<1> QED BY <1>1, <1>2, <1>3, <1>4, <1>5, <1>6

LEMMA AfterCallFacts ==
    ASSUME NEW f, IsLoop(f), NEW r
    PROVE  /\ IsLoop(AfterCall(f, r)) /\ AfterCall(f, r).m = f.m
           /\ AfterCall(f, r).len = f.len /\ AfterCall(f, r).shrunk = f.shrunk
           /\ AfterCall(f, r).leaked = f.leaked
<1> DEFINE g == [f EXCEPT !.inside = FALSE, !.rets = Append(@, r)]
           OK(e) == /\ IsLoop(e) /\ e.m = f.m /\ e.len = f.len /\ e.shrunk = f.shrunk
                    /\ e.leaked = f.leaked
<1>1. OK(g) /\ g.m = f.m
  BY DEF IsLoop
<1> HIDE DEF g
<1>2. OK(array_forEach(g, r))
  BY <1>1 DEF array_forEach
<1>3. OK(array_map(g, r)) /\ OK(array_filter(g, r))
  BY <1>1 DEF array_map, array_filter, IsLoop
<1>4. OK(array_reduce(g, r)) /\ OK(array_reduceRight(g, r))
  BY <1>1 DEF array_reduce, array_reduceRight, IsLoop
<1>5. OK(array_some(g, r)) /\ OK(array_every(g, r))
  BY <1>1 DEF array_some, array_every, IsLoop
<1>6. OK(array_find(g, r)) /\ OK(array_findIndex(g, r))
  BY <1>1 DEF array_find, array_findIndex, IsLoop
<1>7. OK(FlattenIntoArrayWithCallBack(g, r))
  <2>1. ASSUME NEW a, NEW b PROVE OK([g EXCEPT !.acc = a, !.rest = b])
    BY <1>1 DEF IsLoop
  <2>2. OK(Store(g, <<r>>)) /\ OK([g EXCEPT !.nest = Contents[r]])
    BY <1>1, <2>1 DEF Store, IsLoop
  <2> QED BY <2>2 DEF FlattenIntoArrayWithCallBack
<1>8. f.m \in Loops
  BY DEF IsLoop
<1>9. AfterCall(f, r) = LET h == g IN
        CASE f.m = "forEach" \/ f.m \in Iterators -> array_forEach(h, r)
          [] f.m = "map" -> array_map(h, r)
          [] f.m = "filter" -> array_filter(h, r)
          [] f.m = "reduce" -> array_reduce(h, r)
          [] f.m = "reduceRight" -> array_reduceRight(h, r)
          [] f.m = "some" -> array_some(h, r)
          [] f.m = "every" -> array_every(h, r)
          [] f.m = "find" -> array_find(h, r)
          [] f.m = "findIndex" -> array_findIndex(h, r)
          [] f.m = "flatMap" -> FlattenIntoArrayWithCallBack(h, r)
  BY DEF AfterCall, g
<1> HIDE DEF OK
<1>10. OK(AfterCall(f, r))
  BY <1>2, <1>3, <1>4, <1>5, <1>6, <1>7, <1>8, <1>9 DEF Loops, Iterators, Reducers
<1> QED BY <1>10 DEF OK

-----------------------------------------------------------------------------
(* No step leaves the safe states.                                         *)

\* The steps of the two parts of Next.
InvokeAny == \E m \in Calls \cap (Editors \cup Readers) : \E args \in Arguments(m) : Invoke(m, args)
EditAny == \E e \in EditCalls : Edit(e[1], e[2])

LEMMA InitSafe == Init => Safe
<1> SUFFICES ASSUME Init PROVE Safe
  OBVIOUS
<1>1. list \in BoundedSeq(Elements, MaxLen) /\ MaxLen \in Nat
  BY ListAssumption DEF Init
<1>2. list \in Seq(Elements)
  BY <1>1, BoundedFacts
<1>3. list \in Seq(Items)
  BY <1>2, ListAssumption, SeqMonotonic
<1>4. refs \in [Items -> Int]
  BY <1>3, FreshFacts DEF Init
<1>5. ListOK
  BY <1>3, <1>4 DEF ListOK, Init
<1>6. last.out \in Seq(Items)
  BY DEF Init, NoCall
<1> QED BY <1>5, <1>6 DEF Safe, LastOK, FrameOK, Init

LEMMA StartOverSafe == StartOver => Safe'
<1> SUFFICES ASSUME StartOver PROVE Safe'
  OBVIOUS
<1>1. <<>> \in Seq(Items)
  OBVIOUS
<1>2. list' = <<>> /\ refs' = Fresh(<<>>) /\ freed' = FALSE /\ frame' = Idle /\ last' = NoCall
  BY DEF StartOver
<1>3. refs' \in [Items -> Int]
  BY <1>1, <1>2, FreshFacts
<1>4. NoCall.out = <<>>
  BY DEF NoCall
<1> QED BY <1>1, <1>2, <1>3, <1>4 DEF Safe, ListOK, LastOK, FrameOK

LEMMA InvokeSafe == Safe /\ InvokeAny => Safe'
<1> SUFFICES ASSUME Safe, InvokeAny PROVE Safe'
  OBVIOUS
<1>1. PICK m \in Calls \cap (Editors \cup Readers) : \E args \in Arguments(m) : Invoke(m, args)
  BY DEF InvokeAny
<1>2. PICK args \in Arguments(m) : Invoke(m, args)
  BY <1>1
<1> DEFINE h == Call(m, Heap, args)
<1>3. /\ frame = Idle /\ frame' = frame /\ Become(h)
      /\ last' = [m |-> m, args |-> args, before |-> list, ret |-> h.ret, out |-> h.out]
  BY <1>2 DEF Invoke
<1>4. IsHeap(Heap) /\ Heap.out = <<>>
  BY HeapIsHeap DEF Safe
<1>5. IsHeap(h)
  BY <1>4, CallFacts DEF Regular
<1>6. last'.out = h.out
  BY <1>3
<1> HIDE DEF h
<1>7. ListOK'
  BY <1>3, <1>5, BecomeFacts
<1>8. h.out \in Seq(Items)
  BY <1>5, HeapFacts
<1>9. frame' = Idle
  BY <1>3
<1> QED BY <1>6, <1>7, <1>8, <1>9 DEF Safe, LastOK, FrameOK

LEMMA ConsumeSafe == Safe /\ Consume => Safe'
<1> SUFFICES ASSUME Safe, Consume PROVE Safe'
  OBVIOUS
<1>1. refs' = Drop(Heap, last.out).refs /\ last' = NoCall /\ UNCHANGED <<list, freed, frame>>
  BY DEF Consume
<1>2. IsHeap(Heap) /\ last.out \in Seq(Items)
  BY HeapIsHeap DEF Safe, LastOK
<1>3. IsHeap(Drop(Heap, last.out))
  BY <1>2, DropFacts
<1>4. refs' \in [Items -> Int]
  BY <1>1, <1>3, HeapFacts
<1>5. NoCall.out = <<>> /\ <<>> \in Seq(Items)
  BY DEF NoCall
<1> QED BY <1>1, <1>4, <1>5 DEF Safe, ListOK, LastOK, FrameOK

\* A method that calls a function is over.
LEMMA OverSafe ==
    ASSUME Safe, NEW f, NEW how, NEW ret, Finish(f, how, ret), Unchanged
    PROVE  Safe'
<1>1. last'.out = <<>> /\ frame' = Idle /\ <<>> \in Seq(Items)
  BY DEF Finish
<1> QED BY <1>1 DEF Safe, ListOK, LastOK, FrameOK, Unchanged

LEMMA StartLoopSafe ==
    ASSUME Safe, NEW m \in Loops, NEW given \in BOOLEAN, StartLoop(m, given)
    PROVE  Safe'
<1>1. CASE UNCHANGED last
  <2>1. frame' = NewLoop(m, IF m = "reduce" THEN list[1] ELSE Last(list), 1)
        \/ frame' = NewLoop(m, None, 0)
    <3>1. UNCHANGED last => last' # [m |-> m, how |-> "thrown", ret |-> Undefined, out |-> <<>>, went |-> [m |-> m]]
      BY DEF StartLoop, NoCall
    <3> QED BY <1>1, <3>1 DEF StartLoop, Throw, Finish
  <2>2. Len(list) \in Nat
    BY SeqFacts DEF Safe, ListOK
  <2>a. <<>> \in Seq(Items)
    OBVIOUS
  <2>3. \A first : \A skipped \in 0..1 : LoopOK(NewLoop(m, first, skipped), list)
    BY <2>2, <2>a DEF NewLoop, LoopOK, IsLoop
  <2>4. LoopOK(frame', list)
    BY <2>1, <2>3
  <2>5. Unchanged /\ last = NoCall
    BY DEF StartLoop
  <2> QED BY <1>1, <2>4, <2>5 DEF Safe, ListOK, LastOK, FrameOK, Unchanged
<1>2. CASE Throw([m |-> m])
  BY <1>2, OverSafe DEF StartLoop, Throw
<1> QED BY <1>1, <1>2 DEF StartLoop

LEMMA VisitSafe ==
    ASSUME Safe, Visit
    PROVE  Safe'
<1> DEFINE f == [frame EXCEPT !.inside = TRUE]
           nested == [f EXCEPT !.seen = Append(@, Head(f.nest)), !.nest = Tail(@), !.depth = 0]
           next == [f EXCEPT !.seen = Append(@, Reported(f.m, Index(f))), !.k = @ + 1, !.depth = 1]
<1>1. /\ frame.m \in Loops /\ More(frame) /\ UNCHANGED <<list, refs, freed, last>>
      /\ frame' = IF f.nest # <<>> THEN nested
                  ELSE IF Index(f) >= Len(list) THEN Crashed(f) ELSE next
  BY DEF Visit, InLoop
<1>2. LoopOK(frame, list) /\ last = NoCall
  BY <1>1, KindFacts
<1>3. /\ IsLoop(f) /\ f.m = frame.m /\ f.k = frame.k /\ f.len = frame.len /\ f.nest = frame.nest
      /\ f.result = frame.result /\ f.shrunk = frame.shrunk
  BY <1>2 DEF LoopOK, IsLoop
<1>4. Len(list) \in Nat
  BY SeqFacts DEF Safe, ListOK
<1>5. LoopOK(f, list)
  BY <1>2, <1>3 DEF LoopOK
<1>6. More(f)
  BY <1>1, <1>3 DEF More, Bound
<1> HIDE DEF f
<1>7. LoopOK(nested, list) /\ LoopOK(next, list)
  <2>1. ASSUME NEW s, NEW t
        PROVE  IsLoop([f EXCEPT !.seen = s, !.nest = t, !.depth = 0])
    <3>1. [f EXCEPT !.seen = s, !.nest = t, !.depth = 0]
            = [[[f EXCEPT !.seen = s] EXCEPT !.nest = t] EXCEPT !.depth = 0]
      OBVIOUS
    <3>2. 0 \in 0..1
      OBVIOUS
    <3> QED BY <1>3, <3>1, <3>2, LoopFields
  <2>2. f.k + 1 \in Nat
    BY <1>3 DEF IsLoop
  <2>3. ASSUME NEW s, NEW k \in Nat
        PROVE  IsLoop([f EXCEPT !.seen = s, !.k = k, !.depth = 1])
    <3>1. [f EXCEPT !.seen = s, !.k = k, !.depth = 1]
            = [[[f EXCEPT !.seen = s] EXCEPT !.k = k] EXCEPT !.depth = 1]
      OBVIOUS
    <3>2. 1 \in 0..1
      OBVIOUS
    <3> QED BY <1>3, <3>1, <3>2, LoopFields
  <2>4. IsLoop(nested) /\ IsLoop(next)
    BY <2>1, <2>2, <2>3
  <2>5. /\ nested.m = f.m /\ nested.shrunk = f.shrunk /\ nested.len = f.len
        /\ next.m = f.m /\ next.shrunk = f.shrunk /\ next.len = f.len
    BY <1>3 DEF IsLoop
  <2> QED BY <1>5, <2>4, <2>5 DEF LoopOK
<1>8. ASSUME f.nest = <<>>, Index(f) >= Len(list)
      PROVE  CrashOK(Crashed(f))
  <2>1. f.k < Bound(f)
    BY <1>6, <1>8 DEF More
  <2>2. f.k \in Nat /\ f.len \in Nat
    BY <1>3 DEF IsLoop
  <2>3. f.m \notin Iterators
    BY <1>4, <1>8, <2>1, <2>2 DEF Bound, Index, Iterators
  <2>4. f.k < f.len
    BY <2>1, <2>3 DEF Bound
  <2>5. Index(f) < f.len
    BY <2>2, <2>4 DEF Index
  <2>6. Index(f) \in Int
    BY <2>2 DEF Index
  <2>7. ~(f.len <= Len(list))
    BY <1>4, <1>8, <2>2, <2>5, <2>6
  <2>8. f.shrunk
    BY <1>5, <2>3, <2>7 DEF LoopOK
  <2> QED BY <2>3, <2>8 DEF CrashOK, Crashed
<1>9. LoopOK(frame', list) \/ CrashOK(frame')
  BY <1>1, <1>7, <1>8
<1> QED BY <1>1, <1>2, <1>9 DEF Safe, ListOK, LastOK, FrameOK

LEMMA CallReturnsSafe ==
    ASSUME Safe, NEW r, CallReturns(r)
    PROVE  Safe'
<1>1. frame.m \in Loops /\ frame' = AfterCall(frame, r) /\ UNCHANGED <<list, refs, freed, last>>
  BY DEF CallReturns, InLoop
<1>2. LoopOK(frame, list) /\ last = NoCall
  BY <1>1, KindFacts
<1>3. LoopOK(frame', list)
  BY <1>1, <1>2, AfterCallFacts DEF LoopOK
<1> QED BY <1>1, <1>2, <1>3 DEF Safe, ListOK, LastOK, FrameOK

LEMMA EndLoopSafe == Safe /\ EndLoop => Safe'
<1> SUFFICES ASSUME Safe, EndLoop PROVE Safe'
  OBVIOUS
<1>1. \E f, how, ret : Finish(f, how, ret)
  BY DEF EndLoop
<1>2. Unchanged
  BY DEF EndLoop
<1> QED BY <1>1, <1>2, OverSafe

LEMMA EarlyFacts ==
    ASSUME Safe, NEW r, ReturnsEarly(r)
    PROVE  /\ r \in Items /\ last = NoCall /\ LoopOK(frame, list)
           /\ LoopOK(frame', list) /\ frame'.m = "flatMap" /\ frame.m = "flatMap"
           /\ frame'.leaked = Append(frame.leaked, r) /\ frame'.edits = frame.edits
           /\ refs' = [refs EXCEPT ![r] = @ + 1] /\ UNCHANGED <<list, freed, last>>
<1>1. /\ frame.m \in Loops /\ frame.m = "flatMap" /\ r \in Containers
      /\ frame' = [Store(frame, Contents[r]) EXCEPT
                      !.rets = Append(@, r), !.nest = <<>>, !.leaked = Append(@, r), !.inside = FALSE]
      /\ refs' = Incref(Heap, r).refs /\ UNCHANGED <<list, freed, last>>
  BY DEF ReturnsEarly, InLoop, Nested
<1>2. r \in Items
  BY <1>1, ContentsAssumption DEF Containers
<1>3. LoopOK(frame, list) /\ last = NoCall
  BY <1>1, KindFacts
<1> DEFINE g == Store(frame, Contents[r])
<1>4. IsLoop(g) /\ g.m = frame.m /\ g.len = frame.len /\ g.shrunk = frame.shrunk
      /\ g.leaked = frame.leaked /\ g.edits = frame.edits
  BY <1>3 DEF Store, LoopOK, IsLoop
<1> HIDE DEF g
<1>5. Append(g.leaked, r) \in Seq(Items)
  BY <1>2, <1>4 DEF IsLoop
<1>6. frame' = [g EXCEPT !.rets = Append(g.rets, r), !.nest = <<>>, !.leaked = Append(g.leaked, r),
                          !.inside = FALSE]
  BY <1>1 DEF g
<1>7. IsLoop(frame')
  BY <1>4, <1>5, <1>6 DEF IsLoop
<1>8. /\ frame'.m = g.m /\ frame'.len = g.len /\ frame'.shrunk = g.shrunk
      /\ frame'.leaked = Append(g.leaked, r) /\ frame'.edits = g.edits
  BY <1>4, <1>6 DEF IsLoop
<1>9. LoopOK(frame', list)
  BY <1>3, <1>4, <1>7, <1>8 DEF LoopOK
<1>10. refs' = [refs EXCEPT ![r] = @ + 1]
  BY <1>1 DEF Incref, Heap
<1> QED BY <1>1, <1>2, <1>3, <1>4, <1>8, <1>9, <1>10

LEMMA ReturnsEarlySafe ==
    ASSUME Safe, NEW r, ReturnsEarly(r)
    PROVE  Safe'
<1>1. /\ r \in Items /\ last = NoCall /\ LoopOK(frame', list)
      /\ refs' = [refs EXCEPT ![r] = @ + 1] /\ UNCHANGED <<list, freed, last>>
  BY EarlyFacts
<1>2. refs \in [Items -> Int]
  BY DEF Safe, ListOK
<1>3. refs' \in [Items -> Int]
  BY <1>1, <1>2
<1> QED BY <1>1, <1>3 DEF Safe, ListOK, LastOK, FrameOK

LEMMA NestedThrowsFacts ==
    ASSUME Safe, NestedThrows
    PROVE  /\ LoopOK(frame, list) /\ LoopOK(frame', list) /\ frame.m = "flatMap"
           /\ frame'.m = "flatMap" /\ frame'.leaked = frame.leaked /\ frame'.edits = frame.edits
           /\ last = NoCall /\ UNCHANGED <<list, refs, freed, last>>
<1>1. /\ InCallback /\ frame.m = "flatMap" /\ UNCHANGED <<list, refs, freed, last>>
      /\ frame' = [frame EXCEPT !.inside = FALSE, !.nest = <<>>, !.lost = TRUE,
                                !.acc = <<>>, !.rest = frame.acc \o @]
  BY DEF NestedThrows, Nested
<1>2. LoopOK(frame, list) /\ last = NoCall
  BY <1>1, KindFacts DEF Loops
<1>3. /\ IsLoop(frame') /\ frame'.m = frame.m /\ frame'.leaked = frame.leaked
      /\ frame'.edits = frame.edits /\ frame'.len = frame.len /\ frame'.shrunk = frame.shrunk
  BY <1>1, <1>2 DEF LoopOK, IsLoop
<1> QED BY <1>1, <1>2, <1>3 DEF LoopOK

LEMMA NestedThrowsSafe == Safe /\ NestedThrows => Safe'
<1> SUFFICES ASSUME Safe, NestedThrows PROVE Safe'
  OBVIOUS
<1>1. LoopOK(frame', list) /\ last = NoCall /\ UNCHANGED <<list, refs, freed, last>>
  BY NestedThrowsFacts
<1> QED BY <1>1 DEF Safe, ListOK, LastOK, FrameOK

LEMMA FlatMapThrowsSafe == Safe /\ FlatMapThrows => Safe'
<1> SUFFICES ASSUME Safe, FlatMapThrows PROVE Safe'
  OBVIOUS
<1>1. \E f, how, ret : Finish(f, how, ret)
  BY DEF FlatMapThrows
<1>2. Unchanged
  BY DEF FlatMapThrows
<1> QED BY <1>1, <1>2, OverSafe

LEMMA CallThrowsSafe == Safe /\ CallThrows => Safe'
<1> SUFFICES ASSUME Safe, CallThrows PROVE Safe'
  OBVIOUS
<1>1. Finish(frame, "thrown", Undefined) /\ Unchanged
  BY DEF CallThrows, Throw
<1> QED BY <1>1, OverSafe

-----------------------------------------------------------------------------
(* The steps of sort().                                                    *)

LEMMA SortFields ==
    ASSUME NEW f, IsSort(f)
    PROVE  /\ \A v : IsSort([f EXCEPT !.item = v]) /\ IsSort([f EXCEPT !.pivot = v])
           /\ \A v \in Nat : /\ IsSort([f EXCEPT !.end = v]) /\ IsSort([f EXCEPT !.k = v])
                             /\ IsSort([f EXCEPT !.edits = v])
           /\ \A v \in BOOLEAN : /\ IsSort([f EXCEPT !.inside = v]) /\ IsSort([f EXCEPT !.shrunk = v])
                                 /\ IsSort([f EXCEPT !.failed = v])
           /\ \A v \in {<<>>} \cup Spans(Len(f.before)) : IsSort([f EXCEPT !.range = v])
           /\ \A v \in Seq(Spans(Len(f.before))) : IsSort([f EXCEPT !.todo = v])
<1>1. ASSUME NEW v PROVE IsSort([f EXCEPT !.item = v])
  BY DEF IsSort
<1>2. ASSUME NEW v PROVE IsSort([f EXCEPT !.pivot = v])
  BY DEF IsSort
<1>3. ASSUME NEW v \in Nat PROVE IsSort([f EXCEPT !.end = v])
  BY DEF IsSort
<1>4. ASSUME NEW v \in Nat PROVE IsSort([f EXCEPT !.k = v])
  BY DEF IsSort
<1>5. ASSUME NEW v \in Nat PROVE IsSort([f EXCEPT !.edits = v])
  BY DEF IsSort
<1>6. ASSUME NEW v \in BOOLEAN PROVE IsSort([f EXCEPT !.inside = v])
  BY DEF IsSort
<1>7. ASSUME NEW v \in BOOLEAN PROVE IsSort([f EXCEPT !.shrunk = v])
  BY DEF IsSort
<1>8. ASSUME NEW v \in BOOLEAN PROVE IsSort([f EXCEPT !.failed = v])
  BY DEF IsSort
<1>9. ASSUME NEW v \in {<<>>} \cup Spans(Len(f.before)) PROVE IsSort([f EXCEPT !.range = v])
  BY DEF IsSort
<1>10. ASSUME NEW v \in Seq(Spans(Len(f.before))) PROVE IsSort([f EXCEPT !.todo = v])
  BY DEF IsSort
<1> QED BY <1>1, <1>2, <1>3, <1>4, <1>5, <1>6, <1>7, <1>8, <1>9, <1>10

LEMMA SpanFacts ==
    ASSUME NEW n, NEW s \in Spans(n)
    PROVE  s = <<s[1], s[2]>> /\ s[1] \in Nat /\ s[2] \in Int /\ s[2] < n /\ s # <<>>
  BY DEF Spans

LEMMA SortTypes ==
    ASSUME NEW f, IsSort(f)
    PROVE  /\ f.before \in Seq(Items) /\ Len(f.before) \in Nat /\ f.m = "sort"
           /\ f.todo \in Seq(Spans(Len(f.before))) /\ f.range \in {<<>>} \cup Spans(Len(f.before))
           /\ f.end \in Nat /\ f.k \in Nat /\ f.inside \in BOOLEAN /\ f.edits \in Nat
           /\ f.shrunk \in BOOLEAN /\ f.failed \in BOOLEAN
  BY SeqFacts DEF IsSort

LEMMA CrashedFacts ==
    ASSUME NEW f, IsSort(f), f.shrunk
    PROVE  CrashOK(Crashed(f))
<1>1. f.m = "sort" /\ "sort" \notin Iterators
  BY SortTypes DEF Iterators
<1> QED BY <1>1 DEF CrashOK, Crashed

LEMMA SortStartsSafe ==
    ASSUME Safe, NEW by \in Comparators, array_sort(by)
    PROVE  Safe'
<1> DEFINE f == [m |-> "sort", by |-> by, before |-> list, todo |-> <<<<0, Len(list) - 1>>>>,
                 range |-> <<>>, pivot |-> None, item |-> None, end |-> 0, k |-> 0, inside |-> FALSE,
                 edits |-> 0, shrunk |-> FALSE, failed |-> FALSE]
<1>1. list \in Seq(Items) /\ Len(list) \in Nat
  BY SeqFacts DEF Safe, ListOK
<1>2. <<0, Len(list) - 1>> \in Spans(Len(list))
  BY <1>1 DEF Spans
<1>3. <<<<0, Len(list) - 1>>>> \in Seq(Spans(Len(list)))
  BY <1>2
<1>4. IsSort(f)
  BY <1>1, <1>3 DEF IsSort
<1>5. SortOK(f, list)
  BY <1>1, <1>4 DEF SortOK
<1>6. /\ frame = Idle /\ last = NoCall /\ Unchanged
      /\ (frame' = f /\ UNCHANGED last) \/ Finish(f, "returned", "self")
  BY DEF array_sort
<1> HIDE DEF f
<1>7. CASE frame' = f /\ UNCHANGED last
  BY <1>5, <1>6, <1>7 DEF Safe, ListOK, LastOK, FrameOK, Unchanged
<1>8. CASE Finish(f, "returned", "self")
  BY <1>6, <1>8, OverSafe
<1> QED BY <1>6, <1>7, <1>8

\* A step of sort() that keeps the length of the list.
LEMMA SortStep ==
    ASSUME Safe, frame.m = "sort", UNCHANGED last, ListOK', Len(list') = Len(list),
           SortOK(frame', list) \/ CrashOK(frame')
    PROVE  Safe'
<1>1. last = NoCall
  BY KindFacts
<1>2. SortOK(frame', list') \/ CrashOK(frame')
  BY DEF SortOK
<1> QED BY <1>1, <1>2 DEF Safe, LastOK, FrameOK

LEMMA SwapStep ==
    ASSUME ListOK, NEW i \in Nat, NEW j \in Nat, ~Gone(i, j), Become(swapItems(Heap, i, j))
    PROVE  /\ ListOK' /\ Len(list') = Len(list) /\ list' = Swapped(list, i, j)
           /\ \A x \in Items : /\ Count(list', x) = Count(list, x)
                               /\ refs'[x] = refs[x]
           /\ freed' = freed
<1> DEFINE h == Heap
           g == swapItems(h, i, j)
<1>1. IsHeap(h) /\ h.list = list /\ h.refs = refs /\ h.freed = freed /\ h.out = <<>>
  BY HeapIsHeap
<1>2. i # j => i < Len(list) /\ j < Len(list)
  <2>1. Len(list) \in Nat
    BY SeqFacts DEF ListOK
  <2> QED BY <2>1 DEF Gone
<1> HIDE DEF h
<1>3. i # j => i < Len(h.list) /\ j < Len(h.list)
  BY <1>1, <1>2
<1>4. /\ IsHeap(g) /\ g.list = Swapped(list, i, j) /\ Len(g.list) = Len(list)
      /\ g.out = <<>> /\ Fair(g, h) /\ \A x \in Items : Count(g.list, x) = Count(list, x)
  BY <1>1, <1>3, SwapFacts
<1>5. Become(g)
  BY DEF h
<1> HIDE DEF g
<1>6. ListOK' /\ list' = g.list /\ refs' = g.refs /\ freed' = g.freed
  BY <1>4, <1>5, BecomeFacts
<1>7. ASSUME NEW x \in Items PROVE g.refs[x] = h.refs[x]
  <2>1. g.refs[x] \in Int /\ h.refs[x] \in Int /\ Count(list, x) \in Nat /\ Count(<<>>, x) \in Nat
    BY <1>1, <1>4, HeapFacts
  <2>2. g.refs[x] - Count(list, x) - Count(<<>>, x) = h.refs[x] - Count(list, x) - Count(<<>>, x)
    <3>1. Spare(g, x) = Spare(h, x) /\ Count(g.list, x) = Count(list, x)
      BY <1>4 DEF Fair, SameSpare
    <3> QED BY <1>1, <1>4, <3>1 DEF Spare
  <2> QED BY <2>1, <2>2
<1> QED BY <1>1, <1>4, <1>6, <1>7 DEF Fair

LEMMA HeadTail ==
    ASSUME NEW S, NEW s \in Seq(S), s # <<>>
    PROVE  s[1] \in S /\ Tail(s) \in Seq(S) /\ Len(s) >= 1 /\ Len(Tail(s)) = Len(s) - 1
<1>1. Len(s) \in Nat /\ Len(s) # 0
  OBVIOUS
<1>2. 1 \in 1..Len(s)
  BY <1>1
<1> QED BY <1>1, <1>2, SeqFacts

LEMMA QuickSortSafe ==
    ASSUME Safe, quickSort
    PROVE  Safe'
<1> DEFINE left  == frame.todo[1][1]
           right == frame.todo[1][2]
           mid   == (left + right) \div 2
           N     == Len(frame.before)
           f     == [frame EXCEPT !.todo = Tail(@)]
           g     == [f EXCEPT !.range = <<left, right>>, !.end = left, !.k = left + 1,
                              !.pivot = GetItem(Heap, mid)]
<1>1. /\ frame.m = "sort" /\ frame.range = <<>> /\ frame.todo # <<>> /\ UNCHANGED last
      /\ \/ left >= right /\ frame' = f /\ Unchanged
         \/ ~(left >= right) /\ Gone(left, mid) /\ frame' = Crashed(frame) /\ Unchanged
         \/ ~(left >= right) /\ left >= Len(list) /\ frame' = Crashed(frame) /\ Unchanged
         \/ /\ ~(left >= right) /\ ~Gone(left, mid) /\ Become(swapItems(Heap, left, mid))
            /\ frame' = g
  BY DEF quickSort, InSort
<1>2. SortOK(frame, list) /\ ListOK /\ Len(list) \in Nat
  BY <1>1, KindFacts, SeqFacts DEF Safe, ListOK
<1>3. IsSort(frame) /\ N \in Nat /\ frame.todo \in Seq(Spans(N))
  BY <1>2, SortTypes DEF SortOK
<1>4. frame.todo[1] \in Spans(N) /\ Tail(frame.todo) \in Seq(Spans(N))
  BY <1>1, <1>3, HeadTail
<1>5. left \in Nat /\ right \in Int /\ right < N
  BY <1>3, <1>4, SpanFacts
<1>6. IsSort(f) /\ f.before = frame.before /\ f.range = <<>> /\ f.shrunk = frame.shrunk
      /\ f.inside = frame.inside
  <2>1. IsSort(f)
    BY <1>3, <1>4, SortFields
  <2> QED BY <1>1, <1>3, <2>1 DEF IsSort
<1>7. SortOK(f, list)
  BY <1>2, <1>6 DEF SortOK
<1>8. CASE left >= right /\ frame' = f /\ Unchanged
  <2>1. ListOK' /\ list' = list
    BY <1>2, <1>8 DEF ListOK, Unchanged
  <2> QED BY <1>1, <1>7, <1>8, <2>1, SortStep
<1>9. ASSUME ~(left >= right)
      PROVE  left < right /\ mid \in Nat /\ mid < N /\ left < N /\ <<left, right>> \in Spans(N)
  <2> HIDE DEF left, right, N
  <2> QED BY <1>3, <1>5, <1>9 DEF Spans
<1>10. CASE ~(left >= right) /\ (Gone(left, mid) \/ left >= Len(list)) /\ frame' = Crashed(frame) /\ Unchanged
  <2>1. ~(N <= Len(list))
    <3> HIDE DEF left, mid, N
    <3> QED BY <1>2, <1>3, <1>5, <1>9, <1>10 DEF Gone
  <2>2. CrashOK(frame')
    BY <1>2, <1>3, <1>10, <2>1, CrashedFacts DEF SortOK
  <2>3. ListOK' /\ list' = list
    BY <1>2, <1>10 DEF ListOK, Unchanged
  <2> QED BY <1>1, <2>2, <2>3, SortStep
<1>11. CASE ~(left >= right) /\ ~Gone(left, mid) /\ Become(swapItems(Heap, left, mid)) /\ frame' = g
  <2>1. /\ left \in Nat /\ mid \in Nat /\ <<left, right>> \in Spans(N) /\ right \in Int
        /\ left < right
    BY <1>5, <1>9, <1>11
  <2>2. ListOK' /\ Len(list') = Len(list)
    BY <1>2, <1>11, <2>1, SwapStep
  <2> DEFINE p == GetItem(Heap, mid)
             a == [f EXCEPT !.range = <<left, right>>]
             b == [a EXCEPT !.end = left]
             c == [b EXCEPT !.k = left + 1]
  <2>3. g = [c EXCEPT !.pivot = p]
    OBVIOUS
  <2> HIDE DEF left, right, mid, f, p, N
  <2>4. IsSort(a)
    BY <1>6, <2>1, SortFields DEF N
  <2>5. IsSort(b)
    BY <2>1, <2>4, SortFields
  <2>6. left + 1 \in Nat
    BY <2>1
  <2>7. IsSort(c)
    BY <2>5, <2>6, SortFields
  <2>8. IsSort(g)
    BY <2>3, <2>7, SortFields
  <2>9. /\ g.before = f.before /\ g.range = <<left, right>> /\ g.end = left /\ g.k = left + 1
        /\ g.inside = f.inside /\ g.shrunk = f.shrunk
    BY <1>6 DEF IsSort
  <2>10. f.inside = FALSE
    BY <1>6, <1>7, SortTypes DEF SortOK
  <2>11. f.shrunk \/ Len(f.before) <= Len(list)
    BY <1>7 DEF SortOK
  <2>12. g.range[1] = left /\ g.range[2] = right
    BY <2>9
  <2>13. left <= left /\ left < left + 1 /\ left + 1 <= right + 1
    BY <2>1
  <2> HIDE DEF g
  <2>14. SortOK(g, list)
    BY <2>8, <2>9, <2>10, <2>11, <2>12, <2>13 DEF SortOK
  <2> QED BY <1>1, <1>11, <2>2, <2>14, SortStep DEF g, f, left, right, mid
<1> QED BY <1>1, <1>8, <1>10, <1>11

LEMMA CompareCallSafe ==
    ASSUME Safe, invokeCallBack
    PROVE  Safe'
<1> DEFINE x == GetItem(Heap, frame.k)
           g == [frame EXCEPT !.inside = TRUE, !.item = x]
<1>1. /\ frame.m = "sort" /\ frame.range # <<>> /\ frame.k <= frame.range[2]
      /\ UNCHANGED <<list, refs, freed, last>>
      /\ \/ frame.k >= Len(list) /\ frame' = Crashed(frame)
         \/ frame' = g
  BY DEF invokeCallBack, InSort
<1> HIDE DEF x
<1>2. SortOK(frame, list) /\ ListOK /\ Len(list) \in Nat
  BY <1>1, KindFacts, SeqFacts DEF Safe, ListOK
<1>3. /\ IsSort(frame) /\ frame.k \in Nat /\ frame.range \in Spans(Len(frame.before))
      /\ Len(frame.before) \in Nat
  BY <1>1, <1>2, SortTypes DEF SortOK
<1>4. ListOK' /\ list' = list
  BY <1>1, <1>2 DEF ListOK
<1>5. CASE frame.k >= Len(list) /\ frame' = Crashed(frame)
  <2>1. frame.range[2] \in Int /\ frame.range[2] < Len(frame.before)
    BY <1>3, SpanFacts
  <2>2. ~(Len(frame.before) <= Len(list))
    BY <1>1, <1>2, <1>3, <1>5, <2>1
  <2>3. CrashOK(frame')
    BY <1>2, <1>3, <1>5, <2>2, CrashedFacts DEF SortOK
  <2> QED BY <1>1, <1>4, <2>3, SortStep
<1>6. CASE frame' = g
  <2> DEFINE a == [frame EXCEPT !.inside = TRUE]
  <2>1. g = [a EXCEPT !.item = x]
    OBVIOUS
  <2>2. IsSort(a)
    BY <1>3, SortFields
  <2>3. IsSort(g)
    BY <2>1, <2>2, SortFields
  <2>4. /\ g.before = frame.before /\ g.range = frame.range /\ g.end = frame.end /\ g.k = frame.k
        /\ g.shrunk = frame.shrunk
    BY <1>3 DEF IsSort
  <2> HIDE DEF g
  <2>5. SortOK(g, list)
    BY <1>1, <1>2, <2>3, <2>4 DEF SortOK
  <2> QED BY <1>1, <1>4, <1>6, <2>5, SortStep
<1> QED BY <1>1, <1>5, <1>6

LEMMA CompareRefusedSafe ==
    ASSUME Safe, CompareRefused
    PROVE  Safe'
<1> DEFINE g == [frame EXCEPT !.inside = FALSE, !.failed = TRUE, !.range = <<>>]
           a == [frame EXCEPT !.inside = FALSE]
           b == [a EXCEPT !.failed = TRUE]
<1>1. frame.m = "sort" /\ frame' = g /\ UNCHANGED <<list, refs, freed, last>>
  BY DEF CompareRefused, InSort
<1>2. SortOK(frame, list) /\ ListOK
  BY <1>1, KindFacts DEF Safe
<1>3. IsSort(frame)
  BY <1>2 DEF SortOK
<1>4. IsSort(a)
  BY <1>3, SortFields
<1>5. IsSort(b)
  BY <1>4, SortFields
<1>6. g = [b EXCEPT !.range = <<>>]
  OBVIOUS
<1>7. IsSort(g)
  <2> HIDE DEF b
  <2>1. <<>> \in {<<>>} \cup Spans(Len(b.before))
    OBVIOUS
  <2> QED BY <1>5, <1>6, <2>1, SortFields
<1>8. g.before = frame.before /\ g.range = <<>> /\ g.inside = FALSE /\ g.shrunk = frame.shrunk
  BY <1>3 DEF IsSort
<1> HIDE DEF g
<1>9. SortOK(g, list)
  BY <1>2, <1>7, <1>8 DEF SortOK
<1>10. ListOK' /\ list' = list
  BY <1>1, <1>2 DEF ListOK
<1> QED BY <1>1, <1>9, <1>10, SortStep

LEMMA EndSortSafe == Safe /\ EndSort => Safe'
<1> SUFFICES ASSUME Safe, EndSort PROVE Safe'
  OBVIOUS
<1>1. \E how, ret : Finish(frame, how, ret)
  BY DEF EndSort, Throw
<1>2. Unchanged
  BY DEF EndSort
<1> QED BY <1>1, <1>2, OverSafe

LEMMA CompareReturnsSafe ==
    ASSUME Safe, NEW r, CompareReturns(r)
    PROVE  Safe'
<1> DEFINE f == [frame EXCEPT !.inside = FALSE, !.k = @ + 1]
           end == frame.end + 1
           k == frame.k
           N == Len(frame.before)
           out == [f EXCEPT !.range = <<>>]
           moved == [f EXCEPT !.end = end]
<1>1. /\ frame.m = "sort" /\ frame.inside /\ UNCHANGED last
      /\ \/ frame' = out /\ Unchanged
         \/ ~f.failed /\ frame' = f /\ Unchanged
         \/ ~f.failed /\ Gone(end, k) /\ frame' = Crashed(frame) /\ Unchanged
         \/ ~Gone(end, k) /\ Become(swapItems(Heap, end, k)) /\ frame' = moved
  BY DEF CompareReturns, InSort
<1>2. SortOK(frame, list) /\ ListOK /\ Len(list) \in Nat
  BY <1>1, KindFacts, SeqFacts DEF Safe, ListOK
<1>3. IsSort(frame) /\ frame.range # <<>>
  BY <1>1, <1>2 DEF SortOK
<1>4. /\ N \in Nat /\ frame.end \in Nat /\ k \in Nat /\ frame.range \in Spans(N)
      /\ frame.k + 1 \in Nat /\ end \in Nat
  BY <1>3, SortTypes
<1>5. /\ frame.range[1] \in Nat /\ frame.range[2] \in Int /\ frame.range[2] < N
      /\ frame.range[1] <= frame.end /\ frame.end < k /\ k <= frame.range[2]
  BY <1>1, <1>2, <1>3, <1>4, SpanFacts DEF SortOK
<1>6. IsSort(f)
  <2> DEFINE a == [frame EXCEPT !.inside = FALSE]
  <2>1. IsSort(a)
    BY <1>3, SortFields
  <2>2. f = [a EXCEPT !.k = frame.k + 1]
    OBVIOUS
  <2> HIDE DEF a, f
  <2> QED BY <1>4, <2>1, <2>2, SortFields
<1>7. /\ f.before = frame.before /\ f.range = frame.range /\ f.inside = FALSE /\ f.end = frame.end
      /\ f.k = k + 1 /\ f.shrunk = frame.shrunk
  BY <1>3 DEF IsSort
<1> HIDE DEF f
<1>8. IsSort(out) /\ out.before = frame.before /\ out.range = <<>> /\ out.inside = FALSE
      /\ out.shrunk = frame.shrunk
  <2>1. <<>> \in {<<>>} \cup Spans(Len(f.before))
    OBVIOUS
  <2>2. IsSort(out)
    BY <1>6, <2>1, SortFields
  <2> QED BY <1>6, <1>7, <2>2 DEF IsSort
<1>9. IsSort(moved) /\ moved.before = frame.before /\ moved.range = frame.range
      /\ moved.inside = FALSE /\ moved.end = end /\ moved.k = k + 1 /\ moved.shrunk = frame.shrunk
  <2> HIDE DEF end
  <2>1. IsSort(moved)
    BY <1>4, <1>6, SortFields
  <2> QED BY <1>6, <1>7, <2>1 DEF IsSort
<1>10. SortOK(out, list) /\ SortOK(f, list) /\ SortOK(moved, list)
  <2>1. /\ frame.range[1] <= end /\ end < k + 1 /\ frame.end < k + 1 /\ k + 1 <= frame.range[2] + 1
    BY <1>4, <1>5
  <2>2. SortOK(out, list)
    BY <1>2, <1>8 DEF SortOK
  <2> HIDE DEF out, moved, end, k
  <2>3. SortOK(f, list)
    BY <1>2, <1>5, <1>6, <1>7, <2>1 DEF SortOK
  <2>4. SortOK(moved, list)
    BY <1>2, <1>5, <1>9, <2>1 DEF SortOK
  <2> QED BY <2>2, <2>3, <2>4
<1> HIDE DEF out, moved
<1>11. CASE Unchanged
  <2>1. ListOK' /\ list' = list
    BY <1>2, <1>11 DEF ListOK, Unchanged
  <2>2. CASE Gone(end, k) /\ frame' = Crashed(frame)
    <3>1. ~(N <= Len(list))
      <4> HIDE DEF N, k
      <4> QED BY <1>2, <1>4, <1>5, <2>2 DEF Gone
    <3>2. CrashOK(frame')
      BY <1>2, <1>3, <2>2, <3>1, CrashedFacts DEF SortOK
    <3> QED BY <1>1, <2>1, <3>2, SortStep
  <2>3. CASE frame' = out \/ frame' = f
    BY <1>1, <1>10, <2>1, <2>3, SortStep
  <2>4. CASE ~Gone(end, k) /\ Become(swapItems(Heap, end, k)) /\ frame' = moved
    BY <1>1, <1>10, <2>1, <2>4, SortStep
  <2> QED BY <1>1, <2>2, <2>3, <2>4
<1>12. CASE ~Gone(end, k) /\ Become(swapItems(Heap, end, k)) /\ frame' = moved
  <2>1. ListOK' /\ Len(list') = Len(list)
    BY <1>2, <1>4, <1>12, SwapStep
  <2> QED BY <1>1, <1>10, <1>12, <2>1, SortStep
<1> QED BY <1>1, <1>11, <1>12

LEMMA EndPartitionSafe ==
    ASSUME Safe, EndPartition
    PROVE  Safe'
<1> DEFINE left == frame.range[1]
           right == frame.range[2]
           end == frame.end
           N == Len(frame.before)
           parts == <<<<left, end - 1>>, <<end + 1, right>>>>
           t == parts \o frame.todo
           g == [frame EXCEPT !.range = <<>>, !.todo = parts \o @]
<1>1. /\ frame.m = "sort" /\ frame.range # <<>> /\ ~frame.inside /\ frame.k > right /\ UNCHANGED last
      /\ \/ Gone(left, end) /\ frame' = Crashed(frame) /\ Unchanged
         \/ ~Gone(left, end) /\ Become(swapItems(Heap, left, end)) /\ frame' = g
  BY DEF EndPartition, InSort
<1>2. SortOK(frame, list) /\ ListOK /\ Len(list) \in Nat
  BY <1>1, KindFacts, SeqFacts DEF Safe, ListOK
<1>3. IsSort(frame) /\ frame.range # <<>>
  BY <1>1, <1>2 DEF SortOK
<1>4. /\ N \in Nat /\ end \in Nat /\ frame.k \in Nat /\ frame.range \in Spans(N)
      /\ frame.todo \in Seq(Spans(N))
  BY <1>3, SortTypes
<1>5. left \in Nat /\ right \in Int /\ right < N /\ left <= end /\ end < frame.k /\ frame.k <= right + 1
  BY <1>2, <1>3, <1>4, SpanFacts DEF SortOK
<1>6. end <= right /\ end < N
  <2> HIDE DEF left, right, end, N
  <2> QED BY <1>4, <1>5
<1>7. t \in Seq(Spans(N))
  <2> HIDE DEF left, right, end, N
  <2>a. left \in Nat /\ end - 1 \in Int /\ end - 1 < N /\ end + 1 \in Nat /\ right \in Int /\ right < N
    BY <1>4, <1>5, <1>6
  <2>1. <<left, end - 1>> \in Spans(N) /\ <<end + 1, right>> \in Spans(N)
    <3>1. \A i \in Nat, j \in Int : j < N => <<i, j>> \in Spans(N)
      BY DEF Spans
    <3> QED BY <2>a, <3>1
  <2>2. parts \in Seq(Spans(N))
    BY <2>1
  <2> HIDE DEF parts
  <2> QED BY <1>4, <2>2
<1>8. CASE Gone(left, end) /\ frame' = Crashed(frame) /\ Unchanged
  <2>1. ~(N <= Len(list))
    <3> HIDE DEF left, right, end, N
    <3> QED BY <1>2, <1>4, <1>5, <1>6, <1>8 DEF Gone
  <2>2. CrashOK(frame')
    BY <1>2, <1>3, <1>8, <2>1, CrashedFacts DEF SortOK
  <2>3. ListOK' /\ list' = list
    BY <1>2, <1>8 DEF ListOK, Unchanged
  <2> QED BY <1>1, <2>2, <2>3, SortStep
<1>9. CASE ~Gone(left, end) /\ Become(swapItems(Heap, left, end)) /\ frame' = g
  <2>1. ListOK' /\ Len(list') = Len(list)
    BY <1>2, <1>4, <1>5, <1>9, SwapStep
  <2> DEFINE a == [frame EXCEPT !.range = <<>>]
  <2>2. IsSort(a) /\ a.before = frame.before
    <3>1. <<>> \in {<<>>} \cup Spans(Len(frame.before))
      OBVIOUS
    <3>2. IsSort(a)
      BY <1>3, <3>1, SortFields
    <3> QED BY <1>3, <3>2 DEF IsSort
  <2>3. g = [a EXCEPT !.todo = t]
    <3> HIDE DEF parts
    <3> QED BY <1>3 DEF IsSort
  <2>4. /\ g.before = frame.before /\ g.range = <<>> /\ g.shrunk = frame.shrunk
        /\ g.inside = frame.inside
    BY <1>3 DEF IsSort
  <2> HIDE DEF a, t, g
  <2>5. IsSort(g)
    BY <1>7, <2>2, <2>3, SortFields
  <2>6. SortOK(g, list)
    BY <1>1, <1>2, <2>4, <2>5 DEF SortOK
  <2>7. frame' = g
    BY <1>9 DEF g
  <2> QED BY <1>1, <2>1, <2>6, <2>7, SortStep
<1> QED BY <1>1, <1>8, <1>9

-----------------------------------------------------------------------------
(* What the program's function does in between.                            *)

LEMMA EditSafe == Safe /\ EditAny => Safe'
<1> SUFFICES ASSUME Safe, EditAny PROVE Safe'
  OBVIOUS
<1>1. PICK e \in EditCalls : Edit(e[1], e[2])
  BY DEF EditAny
<1>2. e[1] \in Editors \cup Readers /\ e[2] \in Arguments(e[1])
  BY EditAssumption
<1> DEFINE h == Call(e[1], Heap, e[2])
           d == Drop(h, h.out)
           shorter == frame.shrunk \/ Len(h.list) < Len(list)
           g == [frame EXCEPT !.edits = @ + 1, !.shrunk = @ \/ Len(h.list) < Len(list)]
<1>3. InCallback /\ Become(d) /\ frame' = g /\ UNCHANGED last
  BY <1>1 DEF Edit
<1>4. ListOK /\ Len(list) \in Nat
  BY SeqFacts DEF Safe, ListOK
<1>5. IsHeap(h)
  BY <1>2, <1>4, HeapIsHeap, CallFacts DEF Regular
<1> HIDE DEF h
<1>6. Len(h.list) \in Nat /\ h.out \in Seq(Items)
  BY <1>5, HeapFacts
<1>7. IsHeap(d) /\ d.list = h.list
  BY <1>5, <1>6, DropFacts
<1> HIDE DEF d
<1>8. ListOK' /\ list' = h.list
  BY <1>3, <1>7, BecomeFacts
<1>9. shorter \/ Len(list) <= Len(h.list)
  BY <1>4, <1>6
<1>10. last = NoCall
  BY <1>3, KindFacts
<1>11. CASE LoopOK(frame, list)
  <2>0. IsLoop(frame) /\ frame.shrunk \in BOOLEAN /\ frame.edits + 1 \in Nat /\ frame.len \in Nat
    BY <1>11 DEF LoopOK, IsLoop
  <2> DEFINE a == [frame EXCEPT !.edits = frame.edits + 1]
  <2>1. IsLoop(g) /\ g.m = frame.m /\ g.len = frame.len /\ g.len \in Nat /\ g.shrunk = shorter
    <3>1. IsLoop(a)
      BY <2>0, LoopFields
    <3>2. g = [a EXCEPT !.shrunk = shorter]
      BY <2>0 DEF IsLoop
    <3>3. shorter \in BOOLEAN
      BY <2>0
    <3>4. g.m = frame.m /\ g.len = frame.len /\ g.shrunk = shorter
      BY <2>0 DEF IsLoop
    <3> HIDE DEF a, g, shorter
    <3>5. IsLoop(g)
      BY <3>1, <3>2, <3>3, LoopFields
    <3> QED BY <2>0, <3>4, <3>5
  <2> HIDE DEF g
  <2>2. LoopOK(g, h.list)
    <3>1. g.m \in Iterators \/ frame.shrunk \/ g.len <= Len(list)
      BY <1>11, <2>1 DEF LoopOK
    <3>2. g.len <= Len(list) => shorter \/ g.len <= Len(h.list)
      BY <1>4, <1>6, <1>9, <2>1
    <3> QED BY <2>1, <3>1, <3>2 DEF LoopOK
  <2> QED BY <1>3, <1>8, <1>10, <2>2 DEF Safe, LastOK, FrameOK
<1>12. CASE SortOK(frame, list)
  <2>1. IsSort(frame)
    BY <1>12 DEF SortOK
  <2>2. Len(frame.before) \in Nat /\ frame.edits + 1 \in Nat /\ frame.shrunk \in BOOLEAN
    BY <2>1, SortTypes
  <2> DEFINE a == [frame EXCEPT !.edits = frame.edits + 1]
  <2>3. IsSort(a)
    BY <2>1, <2>2, SortFields
  <2>4. g = [a EXCEPT !.shrunk = shorter]
    BY <2>1 DEF IsSort
  <2>5. /\ g.before = frame.before /\ g.range = frame.range /\ g.shrunk = shorter
        /\ g.inside = frame.inside /\ g.end = frame.end /\ g.k = frame.k
    BY <2>1 DEF IsSort
  <2>6. shorter \in BOOLEAN
    BY <2>2
  <2> HIDE DEF a, g
  <2>7. IsSort(g)
    <3> HIDE DEF shorter
    <3> QED BY <2>3, <2>4, <2>6, SortFields
  <2>8. shorter \/ Len(frame.before) <= Len(h.list)
    <3>1. frame.shrunk \/ Len(frame.before) <= Len(list)
      BY <1>12 DEF SortOK
    <3> QED BY <1>4, <1>6, <1>9, <2>2, <3>1
  <2>9. SortOK(g, h.list)
    <3> HIDE DEF shorter
    <3> QED BY <1>12, <2>5, <2>7, <2>8 DEF SortOK
  <2> QED BY <1>3, <1>8, <1>10, <2>9 DEF Safe, LastOK, FrameOK
<1> QED BY <1>3, <1>11, <1>12, KindFacts

LEMMA UnchangedSafe == Safe /\ UNCHANGED vars => Safe'
<1> SUFFICES ASSUME Safe, UNCHANGED vars PROVE Safe'
  OBVIOUS
<1> QED BY DEF vars, Safe, ListOK, LastOK, FrameOK

LEMMA NextSafe == Safe /\ [Next]_vars => Safe'
<1> SUFFICES ASSUME Safe, [Next]_vars PROVE Safe'
  OBVIOUS
<1>1. ASSUME Next PROVE
        \/ InvokeAny \/ Consume \/ StartOver
        \/ \E m \in Loops, given \in BOOLEAN : StartLoop(m, given)
        \/ Visit
        \/ \E r : CallReturns(r)
        \/ EndLoop
        \/ \E by \in Comparators : array_sort(by)
        \/ quickSort \/ invokeCallBack
        \/ \E r : CompareReturns(r)
        \/ CompareRefused \/ EndPartition \/ EndSort \/ EditAny \/ CallThrows
        \/ (\E r : ReturnsEarly(r)) \/ NestedThrows \/ FlatMapThrows
  BY <1>1 DEF Next, InvokeAny, EditAny, GiveUp, Restart
<1>2. CASE UNCHANGED vars
  BY <1>2, UnchangedSafe
<1>3. CASE InvokeAny
  BY <1>3, InvokeSafe
<1>4. CASE Consume
  BY <1>4, ConsumeSafe
<1>5. CASE StartOver
  BY <1>5, StartOverSafe
<1>6. CASE \E m \in Loops, given \in BOOLEAN : StartLoop(m, given)
  BY <1>6, StartLoopSafe
<1>7. CASE Visit
  BY <1>7, VisitSafe
<1>8. CASE \E r : CallReturns(r)
  BY <1>8, CallReturnsSafe
<1>9. CASE EndLoop
  BY <1>9, EndLoopSafe
<1>10. CASE \E by \in Comparators : array_sort(by)
  BY <1>10, SortStartsSafe
<1>11. CASE quickSort
  BY <1>11, QuickSortSafe
<1>12. CASE invokeCallBack
  BY <1>12, CompareCallSafe
<1>13. CASE \E r : CompareReturns(r)
  BY <1>13, CompareReturnsSafe
<1>14. CASE CompareRefused
  BY <1>14, CompareRefusedSafe
<1>15. CASE EndPartition
  BY <1>15, EndPartitionSafe
<1>16. CASE EndSort
  BY <1>16, EndSortSafe
<1>17. CASE EditAny
  BY <1>17, EditSafe
<1>18. CASE CallThrows
  BY <1>18, CallThrowsSafe
<1>19. CASE \E r : ReturnsEarly(r)
  BY <1>19, ReturnsEarlySafe
<1>20. CASE NestedThrows
  BY <1>20, NestedThrowsSafe
<1>21. CASE FlatMapThrows
  BY <1>21, FlatMapThrowsSafe
<1> QED BY <1>1, <1>2, <1>3, <1>4, <1>5, <1>6, <1>7, <1>8, <1>9, <1>10, <1>11, <1>12, <1>13,
           <1>14, <1>15, <1>16, <1>17, <1>18, <1>19, <1>20, <1>21

\* In every state the list and the counts have their types, a method that is
\* under way has its list under it, and the indices that sort() works with lie
\* within the list it began with.
THEOREM SafeStates == Spec => []Safe
<1>1. Init => Safe
  BY InitSafe
<1>2. Safe /\ [Next]_vars => Safe'
  BY NextSafe
<1> QED BY <1>1, <1>2, PTL DEF Spec

\* Whatever the program's functions do, the process crashes only when one of them
\* took items out of the list that a method with a fixed length was going through.
THEOREM CrashesOnlyIfShrunk == Spec => []CrashOnlyIfShrunk
<1>1. Safe => CrashOnlyIfShrunk
  BY KindFacts DEF CrashOnlyIfShrunk, CrashOK
<1> QED BY <1>1, SafeStates, PTL

-----------------------------------------------------------------------------
(* Reference counts.                                                       *)

\* No function of the program makes one of the calls that get the counts wrong,
\* or use an item too late, on the list that its caller is going through.
CarefulEdits == \A e \in EditCalls : \A n \in Nat :
                    ~Miscounting(e[1], n, e[2]) /\ ~Careless(e[1], n, e[2])

Exact == ~freed /\ \A x \in Items : refs[x] = Kept(x) + Count(list, x) + Count(Leaked, x)

\* What a process in its senses has forgotten to release is a sequence of items.
LeakedOK == Leaked \in Seq(Items)

LEMMA ExactHeap ==
    ASSUME ListOK, LeakedOK, Exact
    PROVE  Sound(Heap) /\ \A x \in Items : Spare(Heap, x) = Kept(x) + Count(Leaked, x)
<1>1. /\ Heap.list = list /\ Heap.refs = refs /\ Heap.out = <<>> /\ list \in Seq(Items)
  BY HeapIsHeap DEF ListOK
<1>2. ASSUME NEW x \in Items
      PROVE  Spare(Heap, x) = Kept(x) + Count(Leaked, x) /\ Kept(x) + Count(Leaked, x) >= 0
  <2>1. Count(list, x) \in Nat /\ Count(<<>>, x) = 0 /\ Count(Leaked, x) \in Nat
    BY <1>1, CountInt, CountEmpty DEF LeakedOK
  <2>2. Kept(x) \in Nat
    BY DEF Kept
  <2>3. refs[x] = Kept(x) + Count(list, x) + Count(Leaked, x)
    BY DEF Exact
  <2>4. Spare(Heap, x) = refs[x] - Count(list, x) - Count(<<>>, x)
    BY <1>1 DEF Spare
  <2> QED BY <2>1, <2>2, <2>3, <2>4
<1> QED BY <1>2 DEF Sound

LEMMA SpareIsExact ==
    ASSUME NEW h, IsHeap(h), NEW x \in Items, Spare(h, x) = Kept(x)
    PROVE  h.refs[x] = Kept(x) + Count(h.list, x) + Count(h.out, x)
<1>1. /\ h.refs[x] \in Int /\ Count(h.list, x) \in Nat /\ Count(h.out, x) \in Nat
  BY HeapFacts
<1>2. Kept(x) \in Int
  BY DEF Kept
<1>3. h.refs[x] - Count(h.list, x) - Count(h.out, x) = Kept(x)
  BY DEF Spare
<1> QED BY <1>1, <1>2, <1>3

\* Only a flatMap() that is under way has forgotten anything when no call has
\* just returned.
LEMMA LeakedFacts ==
    ASSUME Safe, last = NoCall
    PROVE  LeakedOK /\ (frame.m # "flatMap" => Leaked = <<>>)
<1>1. last.m # "flatMap"
  BY DEF NoCall
<1>2. frame.m = "flatMap" => Leaked = frame.leaked /\ frame.leaked \in Seq(Items)
  BY KindFacts DEF Leaked, Loops, LoopOK, IsLoop
<1>3. frame.m # "flatMap" => Leaked = <<>> /\ <<>> \in Seq(Items)
  BY <1>1 DEF Leaked
<1> QED BY <1>2, <1>3 DEF LeakedOK

LEMMA NoCallExact ==
    ASSUME Safe, RefsExact, last = NoCall, frame.m # "crashed"
    PROVE  Exact /\ LeakedOK
<1>1. last.m = "none" /\ last.out = <<>>
  BY DEF NoCall
<1>2. ~freed
  BY <1>1 DEF RefsExact, Overruns
<1>3. ASSUME NEW x \in Items PROVE refs[x] = Kept(x) + Count(list, x) + Count(Leaked, x)
  <2>1. refs[x] = Kept(x) + Count(list, x) + Count(<<>>, x) + Count(Leaked, x)
    BY <1>1 DEF RefsExact
  <2>2. /\ Count(<<>>, x) = 0 /\ Count(list, x) \in Nat /\ Kept(x) \in Int
        /\ Count(Leaked, x) \in Nat
    BY CountEmpty, CountInt, LeakedFacts DEF Safe, ListOK, Kept, LeakedOK
  <2> QED BY <2>1, <2>2
<1> QED BY <1>2, <1>3, LeakedFacts DEF Exact

LEMMA ExactSuffices ==
    ASSUME Safe, LeakedOK, Exact, last.out = <<>>
    PROVE  RefsExact
<1>1. ASSUME NEW x \in Items
      PROVE  refs[x] = Kept(x) + Count(list, x) + Count(last.out, x) + Count(Leaked, x)
  <2>1. /\ Count(last.out, x) = 0 /\ Count(list, x) \in Nat /\ Kept(x) \in Int
        /\ Count(Leaked, x) \in Nat
    BY CountEmpty, CountInt DEF Safe, ListOK, Kept, LeakedOK
  <2>2. refs[x] = Kept(x) + Count(list, x) + Count(Leaked, x)
    BY DEF Exact
  <2> QED BY <2>1, <2>2
<1> QED BY <1>1 DEF RefsExact, Exact

LEMMA ExactNext == ASSUME Safe', LeakedOK', Exact', last'.out = <<>> PROVE RefsExact'
<1>1. ASSUME NEW x \in Items
      PROVE  refs'[x] = Kept(x) + Count(list', x) + Count(last'.out, x) + Count(Leaked', x)
  <2>1. /\ Count(last'.out, x) = 0 /\ Count(list', x) \in Nat /\ Kept(x) \in Int
        /\ Count(Leaked', x) \in Nat
    BY CountEmpty, CountInt DEF Safe, ListOK, Kept, LeakedOK
  <2>2. refs'[x] = Kept(x) + Count(list', x) + Count(Leaked', x)
    BY DEF Exact
  <2> QED BY <2>1, <2>2
<1> QED BY <1>1 DEF RefsExact, Exact

\* The next state, when nothing is forgotten in it.
LEMMA ExactNextNone ==
    ASSUME Safe', Leaked' = <<>>, ~freed', last'.out = <<>>,
           \A x \in Items : refs'[x] = Kept(x) + Count(list', x)
    PROVE  RefsExact'
<1>1. <<>> \in Seq(Items)
  OBVIOUS
<1>2. ASSUME NEW x \in Items PROVE refs'[x] = Kept(x) + Count(list', x) + Count(Leaked', x)
  <2>1. Count(Leaked', x) = 0 /\ Count(list', x) \in Nat /\ Kept(x) \in Int
    BY CountEmpty, CountInt DEF Safe, ListOK, Kept
  <2> QED BY <2>1
<1>3. Exact' /\ LeakedOK'
  BY <1>1, <1>2 DEF Exact, LeakedOK
<1> QED BY <1>3, ExactNext

LEMMA InvokeExact ==
    ASSUME Safe, RefsExact, InvokeAny
    PROVE  RefsExact'
<1>1. PICK m \in Calls \cap (Editors \cup Readers) : \E args \in Arguments(m) : Invoke(m, args)
  BY DEF InvokeAny
<1>2. PICK args \in Arguments(m) : Invoke(m, args)
  BY <1>1
<1> DEFINE h == Call(m, Heap, args)
           n == Len(list)
<1>3. /\ last = NoCall /\ Become(h) /\ frame = Idle /\ frame' = Idle
      /\ last' = [m |-> m, args |-> args, before |-> list, ret |-> h.ret, out |-> h.out]
  BY <1>2 DEF Invoke
<1>a. frame.m = "idle" /\ frame'.m = "idle"
  BY <1>3 DEF Idle
<1>b. m # "flatMap"
  BY DEF Editors, Readers
<1>4. /\ last'.m = m /\ last'.args = args /\ last'.before = list /\ last'.ret = h.ret
      /\ last'.out = h.out
  BY <1>3
<1>c. Leaked = <<>> /\ Leaked' = <<>>
  BY <1>3, <1>4, <1>a, <1>b DEF Leaked, NoCall
<1>5. Exact /\ ListOK /\ LeakedOK
  BY <1>3, <1>a, NoCallExact DEF Safe
<1>6. IsHeap(Heap) /\ Heap.out = <<>> /\ Heap.list = list /\ Heap.freed = freed
  BY <1>5, HeapIsHeap
<1>7. /\ IsHeap(h)
      /\ ~Miscounting(m, n, args) => SameSpare(h, Heap)
      /\ ~Careless(m, n, args) => h.freed = freed
      /\ m = "delete" => (h.ret <=> args[1] \in 0..(n - 1))
  BY <1>5, <1>6, ExactHeap, CallFacts DEF Regular
<1> HIDE DEF h
<1>8. list' = h.list /\ refs' = h.refs /\ freed' = h.freed
  BY <1>3, <1>7, BecomeFacts
<1>9. Miscounting(m, n, args) => Miscounts'
  BY <1>4, <1>7 DEF Miscounting, Miscounts, Overruns
<1>10. Careless(m, n, args) => (last'.m = "shift" \/ Overruns')
  BY <1>4 DEF Careless, Overruns
<1>11. last' # NoCall
  <2>1. m # "none"
    BY DEF Editors, Readers
  <2> QED BY <1>4, <2>1 DEF NoCall
<1>12. ASSUME ~Miscounts', NEW x \in Items
       PROVE  refs'[x] = Kept(x) + Count(list', x) + Count(last'.out, x) + Count(Leaked', x)
  <2>1. Spare(h, x) = Spare(Heap, x)
    BY <1>7, <1>9, <1>12 DEF SameSpare
  <2>2. Count(<<>>, x) = 0 /\ Kept(x) \in Int
    BY CountEmpty DEF Kept
  <2>3. Spare(h, x) = Kept(x)
    BY <1>5, <1>c, <2>1, <2>2, ExactHeap
  <2>4. refs'[x] = Kept(x) + Count(list', x) + Count(last'.out, x)
    BY <1>4, <1>7, <1>8, <2>3, SpareIsExact
  <2>5. refs'[x] \in Int
    BY <1>7, <1>8, HeapFacts
  <2> QED BY <1>c, <2>2, <2>4, <2>5
<1>13. freed' => (last'.m = "shift" \/ Overruns')
  BY <1>5, <1>7, <1>8, <1>10 DEF Exact
<1> QED BY <1>11, <1>12, <1>13 DEF RefsExact

LEMMA ConsumeExact ==
    ASSUME Safe, RefsExact, Consume
    PROVE  RefsExact'
<1>1. /\ refs' = Drop(Heap, last.out).refs /\ last' = NoCall /\ UNCHANGED <<list, freed, frame>>
      /\ ~Unsafe /\ last # NoCall
  BY DEF Consume
<1>a. frame = Idle /\ frame.m = "idle" /\ frame' = Idle /\ last'.m = "none"
  BY <1>1 DEF Safe, LastOK, Idle, NoCall
<1>b. Leaked = <<>> /\ Leaked' = <<>>
  BY <1>1, <1>a DEF Leaked, Unsafe
<1>2. ~freed /\ \A x \in Items : refs[x] = Kept(x) + Count(list, x) + Count(last.out, x)
  <2>1. /\ ~freed
        /\ \A x \in Items :
             refs[x] = Kept(x) + Count(list, x) + Count(last.out, x) + Count(Leaked, x)
    BY <1>1, <1>a DEF RefsExact, Unsafe, Miscounts
  <2>2. ASSUME NEW x \in Items
        PROVE  /\ Count(Leaked, x) = 0 /\ Count(list, x) \in Nat /\ Count(last.out, x) \in Nat
               /\ Kept(x) \in Int
    BY <1>b, CountEmpty, CountInt DEF Safe, ListOK, LastOK, Kept
  <2> QED BY <2>1, <2>2
<1>3. /\ IsHeap(Heap) /\ last.out \in Seq(Items) /\ Heap.refs = refs /\ Heap.list = list
      /\ Heap.out = <<>>
  BY HeapIsHeap DEF Safe, LastOK
<1>4. ASSUME NEW x \in Items PROVE refs'[x] = Kept(x) + Count(list, x)
  <2> DEFINE d == Drop(Heap, last.out)
  <2>1. /\ IsHeap(d) /\ d.list = list /\ d.out = <<>>
        /\ Spare(d, x) = Spare(Heap, x) - Count(last.out, x)
    BY <1>3, DropFacts
  <2>2. d.refs = refs'
    BY <1>1
  <2> HIDE DEF d
  <2>3. /\ refs'[x] \in Int /\ refs[x] \in Int /\ Count(list, x) \in Nat
        /\ Count(<<>>, x) = 0
    BY <1>3, <2>1, <2>2, HeapFacts, CountEmpty
  <2>4. Spare(Heap, x) = refs[x] - Count(list, x) - Count(<<>>, x)
    BY <1>3 DEF Spare
  <2>5. Spare(d, x) = refs'[x] - Count(list, x) - Count(<<>>, x)
    BY <2>1, <2>2 DEF Spare
  <2>6. Kept(x) \in Int /\ Count(last.out, x) \in Nat
    BY <1>3, CountInt DEF Kept
  <2> QED BY <1>2, <2>1, <2>3, <2>4, <2>5, <2>6
<1>5. ~freed'
  BY <1>1, <1>2
<1>6. last'.out = <<>> /\ list' = list
  BY <1>1 DEF NoCall
<1> QED BY <1>4, <1>5, <1>6, <1>b, ConsumeSafe, ExactNextNone

LEMMA SpareSum ==
    ASSUME NEW s, NEW r \in Int, NEW c \in Int, NEW o \in Int, NEW k \in Int, NEW l \in Int,
           s = (k + l) - o, s = r - c - o
    PROVE  r = k + c + l
  OBVIOUS

LEMMA EditExact ==
    ASSUME CarefulEdits, Safe, RefsExact, EditAny
    PROVE  RefsExact'
<1>1. PICK e \in EditCalls : Edit(e[1], e[2])
  BY DEF EditAny
<1>2. e[1] \in Editors \cup Readers /\ e[2] \in Arguments(e[1])
  BY EditAssumption
<1> DEFINE h == Call(e[1], Heap, e[2])
           d == Drop(h, h.out)
<1>3. /\ InCallback /\ Become(d) /\ UNCHANGED last
      /\ frame' = [frame EXCEPT !.edits = @ + 1,
                       !.shrunk = @ \/ Len(h.list) < Len(list)]
  BY <1>1 DEF Edit
<1>4. last = NoCall /\ frame.m # "crashed"
  BY <1>3, KindFacts DEF InCallback, Running
<1>a. /\ frame'.m = "flatMap" <=> frame.m = "flatMap"
      /\ frame.m = "flatMap" => frame'.leaked = frame.leaked
  <2>1. IsLoop(frame) \/ IsSort(frame)
    BY <1>3, KindFacts DEF LoopOK, SortOK
  <2> HIDE DEF h
  <2>2. frame'.m = frame.m
    BY <1>3, <2>1 DEF IsLoop, IsSort
  <2>3. frame.m = "flatMap" => frame'.leaked = frame.leaked
    BY <1>3, <2>1 DEF IsLoop, IsSort
  <2> QED BY <2>2, <2>3
<1>b. Leaked' = Leaked
  BY <1>3, <1>4, <1>a DEF Leaked, NoCall
<1>5. Exact /\ ListOK /\ LeakedOK /\ Len(list) \in Nat
  BY <1>4, NoCallExact, SeqFacts DEF Safe, ListOK
<1>6. IsHeap(Heap) /\ Heap.out = <<>> /\ Heap.list = list /\ Heap.freed = freed
  BY <1>5, HeapIsHeap
<1>7. IsHeap(h) /\ SameSpare(h, Heap) /\ h.freed = freed
  <2>1. ~Miscounting(e[1], Len(list), e[2]) /\ ~Careless(e[1], Len(list), e[2])
    BY <1>5 DEF CarefulEdits
  <2> QED BY <1>2, <1>5, <1>6, <2>1, ExactHeap, CallFacts DEF Regular
<1> HIDE DEF h
<1>8. h.out \in Seq(Items)
  BY <1>7, HeapFacts
<1>9. /\ IsHeap(d) /\ d.list = h.list /\ d.out = h.out /\ d.freed = freed
      /\ \A x \in Items : Spare(d, x) = Spare(h, x) - Count(h.out, x)
  BY <1>7, <1>8, DropFacts
<1> HIDE DEF d
<1>10. list' = h.list /\ refs' = d.refs /\ freed' = freed
  BY <1>3, <1>9, BecomeFacts
<1>11. ASSUME NEW x \in Items PROVE refs'[x] = Kept(x) + Count(list', x) + Count(Leaked', x)
  <2>a. Spare(Heap, x) = Kept(x) + Count(Leaked, x)
    BY <1>5, ExactHeap
  <2>b. Spare(h, x) = Spare(Heap, x)
    BY <1>7 DEF SameSpare
  <2>c. Spare(d, x) = Spare(h, x) - Count(h.out, x)
    BY <1>9
  <2>d. Spare(h, x) = Kept(x) + Count(Leaked, x)
    BY <2>a, <2>b
  <2>1. Spare(d, x) = (Kept(x) + Count(Leaked, x)) - Count(h.out, x)
    BY <2>c, <2>d
  <2>2. Spare(d, x) = refs'[x] - Count(list', x) - Count(h.out, x)
    BY <1>9, <1>10 DEF Spare
  <2>3. refs'[x] \in Int /\ Count(list', x) \in Nat /\ Count(h.out, x) \in Nat /\ Kept(x) \in Int
    BY <1>7, <1>9, <1>10, HeapFacts DEF Kept
  <2>4. Count(Leaked, x) \in Nat
    BY <1>5, CountInt DEF LeakedOK
  <2>5. refs'[x] = Kept(x) + Count(list', x) + Count(Leaked, x)
    BY <2>1, <2>2, <2>3, <2>4, SpareSum
  <2> QED BY <1>b, <2>5
<1>12. Exact' /\ LeakedOK'
  BY <1>5, <1>10, <1>11, <1>b DEF Exact, LeakedOK
<1>13. last'.out = <<>>
  BY <1>3, <1>4 DEF NoCall
<1> QED BY <1>12, <1>13, EditSafe, ExactNext

\* A step of a method that calls a function: it leaves the list alone, or swaps
\* two items, and the call goes on or is over.
Swaps == \E i, j \in Nat : ~Gone(i, j) /\ Become(swapItems(Heap, i, j))
Goes == (UNCHANGED last) \/ \E f, how, ret : Finish(f, how, ret)
Remembers == frame.m # "crashed" /\ (frame'.m = "crashed" \/ Leaked' = Leaked)
MethodStep == last = NoCall /\ (Unchanged \/ Swaps) /\ Goes /\ Remembers

LEMMA CrashExact == ASSUME frame'.m = "crashed", ~freed' PROVE RefsExact'
  BY DEF RefsExact

LEMMA MethodStepExact ==
    ASSUME Safe, Safe', RefsExact, MethodStep
    PROVE  RefsExact'
<1>1. Exact /\ ListOK /\ LeakedOK
  BY NoCallExact DEF MethodStep, Remembers, Safe
<1>2. last'.out = <<>>
  BY DEF MethodStep, Goes, Finish, NoCall
<1>a. ~freed'
  <2>1. Swaps => freed' = freed
    BY <1>1, SwapStep DEF Swaps
  <2> QED BY <1>1, <2>1 DEF MethodStep, Unchanged, Exact
<1>b. CASE frame'.m = "crashed"
  BY <1>a, <1>b, CrashExact
<1>c. CASE Leaked' = Leaked /\ Unchanged
  <2>1. Exact' /\ LeakedOK'
    BY <1>1, <1>c DEF Exact, Unchanged, LeakedOK
  <2> QED BY <1>2, <2>1, ExactNext
<1>4. CASE Leaked' = Leaked /\ Swaps
  <2>1. PICK i, j \in Nat : ~Gone(i, j) /\ Become(swapItems(Heap, i, j))
    BY <1>4 DEF Swaps
  <2>2. /\ \A x \in Items : Count(list', x) = Count(list, x) /\ refs'[x] = refs[x]
        /\ freed' = freed
    BY <1>1, <2>1, SwapStep
  <2>3. Exact' /\ LeakedOK'
    BY <1>1, <1>4, <2>2 DEF Exact, LeakedOK
  <2> QED BY <1>2, <2>3, ExactNext
<1> QED BY <1>4, <1>b, <1>c DEF MethodStep, Remembers

\* What a method has forgotten stays with it, and with its result.
LEMMA GoesOnRemembers ==
    ASSUME Safe, last = NoCall, frame.m # "crashed", UNCHANGED last, frame'.m = frame.m,
           frame.m = "flatMap" => frame'.leaked = frame.leaked
    PROVE  Remembers
  BY DEF Remembers, Leaked

LEMMA OverRemembers ==
    ASSUME Safe, last = NoCall, frame.m # "crashed", NEW f, NEW how, NEW ret, Finish(f, how, ret),
           f.m = frame.m, f.m = "flatMap" => f.leaked = frame.leaked
    PROVE  Remembers
<1>1. frame'.m = "idle" /\ last'.m = f.m /\ last'.went = f
  BY DEF Finish, Idle
<1>2. last.m # "flatMap"
  BY DEF NoCall
<1> QED BY <1>1, <1>2 DEF Remembers, Leaked

LEMMA LoopKinds == \A m \in Loops : m \notin {"crashed", "idle", "sort"}
  BY DEF Loops, Iterators, Reducers

LEMMA StartRemembers ==
    ASSUME Safe, NEW m \in Loops, NEW given \in BOOLEAN, StartLoop(m, given)
    PROVE  Remembers
<1>1. frame.m = "idle" /\ last = NoCall /\ last.m = "none"
  BY DEF StartLoop, Idle, NoCall
<1>2. Leaked = <<>>
  BY <1>1 DEF Leaked
<1>3. CASE Throw([m |-> m]) /\ m \in Reducers
  <2>1. frame'.m = "idle" /\ last'.m = m
    BY <1>3 DEF Throw, Finish, Idle
  <2>2. m # "flatMap"
    BY <1>3 DEF Reducers
  <2> QED BY <1>1, <1>2, <2>1, <2>2 DEF Leaked, Remembers
<1>4. ASSUME NEW first, NEW skipped, frame' = NewLoop(m, first, skipped), UNCHANGED last
      PROVE  Remembers
  <2>1. frame'.m = m /\ frame'.leaked = <<>> /\ last'.m = "none"
    BY <1>1, <1>4 DEF NewLoop
  <2> QED BY <1>1, <1>2, <2>1 DEF Leaked, Remembers
<1> QED BY <1>3, <1>4 DEF StartLoop

LEMMA VisitRemembers ==
    ASSUME Safe, Visit
    PROVE  Remembers
<1> DEFINE f == [frame EXCEPT !.inside = TRUE]
           nested == [f EXCEPT !.seen = Append(@, Head(f.nest)), !.nest = Tail(@), !.depth = 0]
           next == [f EXCEPT !.seen = Append(@, Reported(f.m, Index(f))), !.k = @ + 1, !.depth = 1]
<1>1. /\ frame.m \in Loops /\ UNCHANGED last
      /\ frame' = IF f.nest # <<>> THEN nested
                  ELSE IF Index(f) >= Len(list) THEN Crashed(f) ELSE next
  BY DEF Visit, InLoop
<1>2. IsLoop(frame) /\ last = NoCall /\ frame.m # "crashed"
  BY <1>1, KindFacts, LoopKinds DEF LoopOK
<1>3. IsLoop(f) /\ f.m = frame.m /\ f.leaked = frame.leaked
  BY <1>2 DEF IsLoop
<1> HIDE DEF f
<1>4. /\ nested.m = frame.m /\ nested.leaked = frame.leaked
      /\ next.m = frame.m /\ next.leaked = frame.leaked
  BY <1>3 DEF IsLoop
<1> HIDE DEF nested, next
<1>5. frame'.m = "crashed" \/ (frame'.m = frame.m /\ frame'.leaked = frame.leaked)
  BY <1>1, <1>4 DEF Crashed
<1>6. CASE frame'.m = "crashed"
  BY <1>2, <1>6 DEF Remembers
<1> QED BY <1>1, <1>2, <1>5, <1>6, GoesOnRemembers

LEMMA LoopSteps ==
    ASSUME Safe,
           \/ \E m \in Loops, given \in BOOLEAN : StartLoop(m, given)
           \/ Visit \/ EndLoop \/ CallThrows \/ \E r : CallReturns(r)
           \/ NestedThrows \/ FlatMapThrows
    PROVE  MethodStep
<1>1. CASE \E m \in Loops, given \in BOOLEAN : StartLoop(m, given)
  <2>1. last = NoCall /\ Unchanged
    BY <1>1 DEF StartLoop
  <2>2. Goes
    BY <1>1 DEF StartLoop, Throw, Goes
  <2> QED BY <1>1, <2>1, <2>2, StartRemembers DEF MethodStep
<1>2. CASE Visit
  <2>1. frame.m \in Loops /\ UNCHANGED <<list, refs, freed, last>>
    BY <1>2 DEF Visit, InLoop
  <2> QED BY <1>2, <2>1, KindFacts, VisitRemembers DEF MethodStep, Goes, Unchanged
<1>3. CASE \E r : CallReturns(r)
  <2>1. PICK r : CallReturns(r)
    BY <1>3
  <2>2. frame.m \in Loops /\ frame' = AfterCall(frame, r) /\ UNCHANGED <<list, refs, freed, last>>
    BY <2>1 DEF CallReturns, InLoop
  <2>3. IsLoop(frame) /\ last = NoCall /\ frame.m # "crashed"
    BY <2>2, KindFacts, LoopKinds DEF LoopOK
  <2>4. frame'.m = frame.m /\ frame'.leaked = frame.leaked
    BY <2>2, <2>3, AfterCallFacts
  <2>5. Remembers
    BY <2>2, <2>3, <2>4, GoesOnRemembers
  <2> QED BY <2>2, <2>3, <2>5 DEF MethodStep, Goes, Unchanged
<1>4. CASE EndLoop
  <2>1. frame.m \in Loops /\ Unchanged
    BY <1>4 DEF EndLoop, InLoop
  <2>2. PICK ret : Finish(frame, "returned", ret)
    BY <1>4 DEF EndLoop
  <2>3. last = NoCall /\ frame.m # "crashed"
    BY <2>1, KindFacts, LoopKinds
  <2>4. Remembers
    BY <2>2, <2>3, OverRemembers
  <2> QED BY <2>1, <2>2, <2>3, <2>4 DEF MethodStep, Goes
<1>5. CASE CallThrows
  <2>1. InCallback /\ Unchanged /\ Finish(frame, "thrown", Undefined) /\ frame.m # "flatMap"
    BY <1>5 DEF CallThrows, Throw
  <2>2. last = NoCall /\ frame.m # "crashed"
    BY <2>1, KindFacts DEF InCallback, Running
  <2>3. Remembers
    BY <2>1, <2>2, OverRemembers
  <2> QED BY <2>1, <2>2, <2>3 DEF MethodStep, Goes
<1>6. CASE NestedThrows
  <2>1. /\ frame.m = "flatMap" /\ frame'.m = "flatMap" /\ frame'.leaked = frame.leaked
        /\ last = NoCall /\ UNCHANGED <<list, refs, freed, last>>
    BY <1>6, NestedThrowsFacts
  <2>2. Remembers
    BY <2>1, GoesOnRemembers
  <2> QED BY <2>1, <2>2 DEF MethodStep, Goes, Unchanged
<1>7. CASE FlatMapThrows
  <2> DEFINE f == [frame EXCEPT !.lost = TRUE]
  <2>1. InCallback /\ frame.m = "flatMap" /\ Unchanged /\ Finish(f, "returned", AtEnd(frame))
    BY <1>7 DEF FlatMapThrows
  <2>2. IsLoop(frame) /\ last = NoCall
    BY <2>1, KindFacts DEF Loops, LoopOK
  <2>3. f.m = frame.m /\ f.leaked = frame.leaked
    BY <2>2 DEF IsLoop
  <2> HIDE DEF f
  <2>4. Remembers
    BY <2>1, <2>2, <2>3, OverRemembers
  <2> QED BY <2>1, <2>2, <2>4 DEF MethodStep, Goes
<1> QED BY <1>1, <1>2, <1>3, <1>4, <1>5, <1>6, <1>7

\* sort() forgets nothing.
LEMMA SortRemembers ==
    ASSUME Safe, Safe', last = NoCall, frame.m \in {"idle", "sort"},
           \/ frame'.m = "sort"
           \/ frame'.m = "crashed"
           \/ frame'.m = "idle" /\ last'.m = "sort"
    PROVE  Remembers
<1>1. Leaked = <<>>
  BY DEF Leaked, NoCall
<1>2. frame'.m # "crashed" => Leaked' = <<>>
  <2>1. frame'.m = "sort" => last'.m = "none"
    <3>1. frame'.m = "sort" => frame' # Idle
      BY DEF Idle
    <3> QED BY <3>1 DEF Safe, LastOK, NoCall
  <2> QED BY <2>1 DEF Leaked
<1> QED BY <1>1, <1>2 DEF Remembers

\* One step of sort() leaves it under way, or crashes, or is its last.
LEMMA SortKinds ==
    ASSUME Safe,
           \/ \E by \in Comparators : array_sort(by)
           \/ quickSort \/ invokeCallBack \/ \E r : CompareReturns(r)
           \/ CompareRefused \/ EndPartition \/ EndSort
    PROVE  /\ frame.m \in {"idle", "sort"} /\ last = NoCall
           /\ \/ frame'.m = "sort"
              \/ frame'.m = "crashed"
              \/ frame'.m = "idle" /\ last'.m = "sort"
<1>1. CASE \E by \in Comparators : array_sort(by)
  BY <1>1 DEF array_sort, Finish, Idle
<1>2. CASE quickSort \/ invokeCallBack \/ CompareRefused \/ EndPartition \/ EndSort
           \/ \E r : CompareReturns(r)
  <2>1. frame.m = "sort"
    BY <1>2 DEF quickSort, invokeCallBack, CompareRefused, EndPartition, EndSort, CompareReturns, InSort
  <2>2. IsSort(frame) /\ last = NoCall
    BY <2>1, KindFacts DEF SortOK
  <2>a. Crashed(frame).m = "crashed"
    BY DEF Crashed
  <2>3. CASE quickSort
    <3>1. /\ [frame EXCEPT !.todo = Tail(@)].m = "sort"
          /\ \A l, r, p : [[frame EXCEPT !.todo = Tail(@)] EXCEPT
                              !.range = <<l, r>>, !.end = l, !.k = l + 1, !.pivot = p].m = "sort"
      BY <2>1, <2>2 DEF IsSort
    <3>2. CASE frame' = Crashed(frame)
      BY <2>1, <2>2, <2>a, <3>2
    <3>3. CASE frame' = [frame EXCEPT !.todo = Tail(@)]
      BY <2>1, <2>2, <3>1, <3>3
    <3>4. CASE \E l, r, p : frame' = [[frame EXCEPT !.todo = Tail(@)] EXCEPT
                              !.range = <<l, r>>, !.end = l, !.k = l + 1, !.pivot = p]
      BY <2>1, <2>2, <3>1, <3>4
    <3> QED BY <2>3, <3>2, <3>3, <3>4 DEF quickSort
  <2>4. CASE invokeCallBack
    <3>1. \A x : [frame EXCEPT !.inside = TRUE, !.item = x].m = "sort"
      BY <2>1, <2>2 DEF IsSort
    <3> QED BY <2>1, <2>2, <2>4, <3>1 DEF invokeCallBack, Crashed
  <2>5. CASE CompareRefused
    <3>1. [frame EXCEPT !.inside = FALSE, !.failed = TRUE, !.range = <<>>].m = "sort"
      BY <2>1, <2>2 DEF IsSort
    <3> QED BY <2>1, <2>2, <2>5, <3>1 DEF CompareRefused
  <2>6. CASE EndPartition
    <3>1. \A x, y : [frame EXCEPT !.range = x, !.todo = y \o @].m = "sort"
      BY <2>1, <2>2 DEF IsSort
    <3>2. CASE frame' = Crashed(frame)
      BY <2>1, <2>2, <2>a, <3>2
    <3>3. CASE \E x, y : frame' = [frame EXCEPT !.range = x, !.todo = y \o @]
      BY <2>1, <2>2, <3>1, <3>3
    <3> QED BY <2>6, <3>2, <3>3 DEF EndPartition
  <2>7. CASE EndSort
    BY <2>1, <2>2, <2>7 DEF EndSort, Throw, Finish, Idle
  <2>8. CASE \E r : CompareReturns(r)
    <3> DEFINE f == [frame EXCEPT !.inside = FALSE, !.k = @ + 1]
    <3>1. /\ f.m = "sort" /\ [f EXCEPT !.range = <<>>].m = "sort"
          /\ [f EXCEPT !.end = frame.end + 1].m = "sort"
      BY <2>1, <2>2 DEF IsSort
    <3>2. frame' \in {f, [f EXCEPT !.range = <<>>], [f EXCEPT !.end = frame.end + 1], Crashed(frame)}
      BY <2>8 DEF CompareReturns
    <3> HIDE DEF f
    <3> QED BY <2>1, <2>2, <2>a, <3>1, <3>2
  <2> QED BY <1>2, <2>3, <2>4, <2>5, <2>6, <2>7, <2>8
<1> QED BY <1>1, <1>2

LEMMA SortSteps ==
    ASSUME Safe, Safe',
           \/ \E by \in Comparators : array_sort(by)
           \/ quickSort \/ invokeCallBack \/ \E r : CompareReturns(r)
           \/ CompareRefused \/ EndPartition \/ EndSort
    PROVE  MethodStep
<1>a. Remembers
  BY SortKinds, SortRemembers
<1>1. CASE \E by \in Comparators : array_sort(by)
  <2>1. last = NoCall /\ Unchanged
    BY <1>1 DEF array_sort
  <2>2. Goes
    BY <1>1 DEF array_sort, Goes
  <2> QED BY <1>a, <2>1, <2>2 DEF MethodStep
<1>2. CASE invokeCallBack \/ CompareRefused
  <2>1. frame.m = "sort" /\ UNCHANGED <<list, refs, freed, last>>
    BY <1>2 DEF invokeCallBack, CompareRefused, InSort
  <2> QED BY <1>a, <2>1, KindFacts DEF MethodStep, Goes, Unchanged
<1>3. CASE EndSort
  <2>1. frame.m = "sort" /\ Unchanged /\ Goes
    BY <1>3 DEF EndSort, InSort, Goes, Throw
  <2> QED BY <1>a, <2>1, KindFacts DEF MethodStep
<1>4. CASE quickSort
  <2> DEFINE left  == frame.todo[1][1]
             right == frame.todo[1][2]
             mid   == (left + right) \div 2
  <2>1. /\ frame.m = "sort" /\ frame.todo # <<>> /\ UNCHANGED last
        /\ Unchanged \/ (~(left >= right) /\ ~Gone(left, mid) /\ Become(swapItems(Heap, left, mid)))
    BY <1>4 DEF quickSort, InSort
  <2>2. IsSort(frame) /\ last = NoCall
    BY <2>1, KindFacts DEF SortOK
  <2>3. frame.todo \in Seq(Spans(Len(frame.before)))
    BY <2>2, SortTypes
  <2>4. frame.todo[1] \in Spans(Len(frame.before))
    BY <2>1, <2>3, HeadTail
  <2>5. left \in Nat /\ right \in Int
    BY <2>4, SpanFacts
  <2>6. ~(left >= right) => mid \in Nat
    <3> HIDE DEF left, right
    <3> QED BY <2>5
  <2> HIDE DEF left, mid
  <2>7. Unchanged \/ Swaps
    BY <2>1, <2>5, <2>6 DEF Swaps
  <2> QED BY <1>a, <2>1, <2>2, <2>7 DEF MethodStep, Goes
<1>5. CASE \E r : CompareReturns(r)
  <2> DEFINE end == frame.end + 1
             k == frame.k
  <2>1. /\ frame.m = "sort" /\ UNCHANGED last
        /\ Unchanged \/ (~Gone(end, k) /\ Become(swapItems(Heap, end, k)))
    BY <1>5 DEF CompareReturns, InSort
  <2>2. IsSort(frame) /\ last = NoCall
    BY <2>1, KindFacts DEF SortOK
  <2>3. end \in Nat /\ k \in Nat
    BY <2>2, SortTypes
  <2> HIDE DEF end, k
  <2>4. Unchanged \/ Swaps
    BY <2>1, <2>3 DEF Swaps
  <2> QED BY <1>a, <2>1, <2>2, <2>4 DEF MethodStep, Goes
<1>6. CASE EndPartition
  <2> DEFINE left == frame.range[1]
             end == frame.end
  <2>1. /\ frame.m = "sort" /\ frame.range # <<>> /\ UNCHANGED last
        /\ Unchanged \/ (~Gone(left, end) /\ Become(swapItems(Heap, left, end)))
    BY <1>6 DEF EndPartition, InSort
  <2>2. IsSort(frame) /\ last = NoCall
    BY <2>1, KindFacts DEF SortOK
  <2>3. end \in Nat /\ frame.range \in Spans(Len(frame.before))
    BY <2>1, <2>2, SortTypes
  <2>4. left \in Nat
    BY <2>3, SpanFacts
  <2> HIDE DEF end, left
  <2>5. Unchanged \/ Swaps
    BY <2>1, <2>3, <2>4 DEF Swaps
  <2> QED BY <1>a, <2>1, <2>2, <2>5 DEF MethodStep, Goes
<1> QED BY <1>1, <1>2, <1>3, <1>4, <1>5, <1>6

\* The early return of a nested call: one reference more, and one forgotten.
LEMMA EarlyExact ==
    ASSUME Safe, Safe', RefsExact, NEW r, ReturnsEarly(r)
    PROVE  RefsExact'
<1>1. /\ r \in Items /\ last = NoCall /\ frame.m = "flatMap" /\ frame'.m = "flatMap"
      /\ frame'.leaked = Append(frame.leaked, r) /\ refs' = [refs EXCEPT ![r] = @ + 1]
      /\ UNCHANGED <<list, freed, last>>
  BY EarlyFacts
<1>2. Exact /\ LeakedOK /\ Leaked = frame.leaked /\ refs \in [Items -> Int] /\ list \in Seq(Items)
  BY <1>1, NoCallExact DEF Leaked, Safe, ListOK
<1>3. Leaked' = Append(Leaked, r) /\ LeakedOK'
  BY <1>1, <1>2 DEF Leaked, LeakedOK
<1>4. ASSUME NEW x \in Items PROVE refs'[x] = Kept(x) + Count(list', x) + Count(Leaked', x)
  <2>1. Count(Leaked', x) = Count(Leaked, x) + One(r, x)
    BY <1>1, <1>2, <1>3, CountAppend DEF LeakedOK
  <2>2. refs'[x] = refs[x] + One(r, x) /\ refs[x] \in Int
    BY <1>1, <1>2 DEF One
  <2>3. refs[x] = Kept(x) + Count(list, x) + Count(Leaked, x)
    BY <1>2 DEF Exact
  <2>4. /\ Kept(x) \in Int /\ Count(list, x) \in Nat /\ Count(Leaked, x) \in Nat
        /\ One(r, x) \in Int
    BY <1>2, CountInt DEF Kept, LeakedOK, One
  <2> QED BY <1>1, <2>1, <2>2, <2>3, <2>4
<1>5. Exact' /\ last'.out = <<>>
  BY <1>1, <1>2, <1>4 DEF Exact, NoCall
<1> QED BY <1>3, <1>5, ExactNext

LEMMA StartOverExact == StartOver => RefsExact'
<1> SUFFICES ASSUME StartOver PROVE RefsExact'
  OBVIOUS
<1>1. list' = <<>> /\ refs' = Fresh(<<>>) /\ freed' = FALSE /\ last' = NoCall /\ frame' = Idle
  BY DEF StartOver
<1>2. <<>> \in Seq(Items)
  OBVIOUS
<1>3. \A x \in Items : refs'[x] = Kept(x) + Count(list', x)
  BY <1>1, <1>2, FreshFacts
<1>4. last'.out = <<>> /\ Leaked' = <<>>
  BY <1>1 DEF NoCall, Leaked, Idle
<1> QED BY <1>1, <1>3, <1>4, StartOverSafe, ExactNextNone

LEMMA InitExact == Init => RefsExact
<1> SUFFICES ASSUME Init PROVE RefsExact
  OBVIOUS
<1>1. Safe
  BY InitSafe
<1>2. list \in Seq(Items) /\ refs = Fresh(list) /\ freed = FALSE
  BY <1>1 DEF Safe, ListOK, Init
<1>3. Leaked = <<>> /\ LeakedOK
  BY DEF Init, NoCall, Leaked, Idle, LeakedOK
<1>4. Exact
  <2>1. ASSUME NEW x \in Items PROVE refs[x] = Kept(x) + Count(list, x) + Count(<<>>, x)
    BY <1>2, FreshFacts, CountEmpty, CountInt DEF Kept
  <2> QED BY <1>2, <1>3, <2>1 DEF Exact
<1>5. last.out = <<>>
  BY DEF Init, NoCall
<1> QED BY <1>1, <1>3, <1>4, <1>5, ExactSuffices

\* The disjuncts of Next, sorted by what they do to the list.
LEMMA NextSteps ==
    ASSUME Safe, Safe', Next
    PROVE  InvokeAny \/ Consume \/ StartOver \/ MethodStep \/ EditAny \/ \E r : ReturnsEarly(r)
<1>1. \/ InvokeAny \/ Consume \/ StartOver
      \/ \E m \in Loops, given \in BOOLEAN : StartLoop(m, given)
      \/ Visit
      \/ \E r : CallReturns(r)
      \/ EndLoop
      \/ \E by \in Comparators : array_sort(by)
      \/ quickSort \/ invokeCallBack
      \/ \E r : CompareReturns(r)
      \/ CompareRefused \/ EndPartition \/ EndSort \/ EditAny \/ CallThrows
      \/ (\E r : ReturnsEarly(r)) \/ NestedThrows \/ FlatMapThrows
  BY DEF Next, InvokeAny, EditAny, GiveUp, Restart
<1> QED BY <1>1, LoopSteps, SortSteps

\* The counts are exact in every state, as long as no function of the program
\* makes one of the miscounting calls while a method is going through the list.
THEOREM CountsAreExact ==
    ASSUME CarefulEdits
    PROVE  Spec => []RefsExact
<1>1. Init => Safe /\ RefsExact
  BY InitSafe, InitExact
<1>2. Safe /\ RefsExact /\ [Next]_vars => (Safe /\ RefsExact)'
  <2> SUFFICES ASSUME Safe, RefsExact, [Next]_vars PROVE RefsExact'
    BY NextSafe
  <2>1. Safe'
    BY NextSafe
  <2>2. CASE UNCHANGED vars
    BY <2>2 DEF vars, RefsExact, Miscounts, Overruns, Leaked
  <2>3. CASE Next
    BY <2>1, <2>3, NextSteps, InvokeExact, ConsumeExact, StartOverExact, MethodStepExact, EditExact,
       EarlyExact
  <2> QED BY <2>2, <2>3
<1> QED BY <1>1, <1>2, PTL DEF Spec

-----------------------------------------------------------------------------
(* sort() puts the list in order.                                          *)

\* Place i, counted from 1, lies in a span.
In(s, i) == s[1] < i /\ i <= s[2] + 1
Le(by, x, y) == Compare(by, x, y) <= 0
\* Two places are in order, or still wait in the same span.
OrderedBut(by, s, live) ==
    \A i, j \in 1..Len(s) : i < j => Le(by, s[i], s[j]) \/ \E t \in live : In(t, i) /\ In(t, j)
Waiting(f) == {f.todo[k] : k \in 1..Len(f.todo)}
Live(f) == Waiting(f) \cup (IF f.range = <<>> THEN {} ELSE {f.range})

Permuted(f, s) == Len(s) = Len(f.before) /\ \A x \in Items : Count(s, x) = Count(f.before, x)
\* The spans that wait follow one another.
Ascending(f) ==
    /\ \A k, l \in 1..Len(f.todo) : k < l => f.todo[k][2] < f.todo[l][1]
    /\ f.range # <<>> => \A l \in 1..Len(f.todo) : f.range[2] < f.todo[l][1]
\* The pivot comes first in its span, then the items before it in the order,
\* then those that are not.
Partition(f, s) ==
    f.range # <<>> =>
        /\ f.pivot = s[f.range[1] + 1]
        /\ \A i \in 1..Len(s) : f.range[1] + 1 < i /\ i <= f.end + 1 => Compare(f.by, s[i], f.pivot) < 0
        /\ \A i \in 1..Len(s) : f.end + 1 < i /\ i <= f.k => Compare(f.by, s[i], f.pivot) >= 0
        /\ f.inside => f.item = s[f.k + 1]
Sorting(f, s) == Ascending(f) /\ Partition(f, s) /\ OrderedBut(f.by, s, Live(f)) /\ ~f.failed

LEMMA OrderFacts ==
    ASSUME NEW by \in Comparators, by \in Consistent, NEW x \in Items, NEW y \in Items
    PROVE  /\ Compare(by, x, y) \in Int
           /\ Compare(by, x, y) < 0 => Le(by, x, y)
           /\ Compare(by, x, y) >= 0 => Le(by, y, x)
           /\ \A z \in Items : Le(by, x, y) /\ Le(by, y, z) => Le(by, x, z)
<1>1. \A v \in Items : Rank[v] \in Int
  BY ListAssumption
<1>2. CASE by = "reverse"
  <2>1. \A v, w : Compare(by, v, w) = Sign(Rank[w] - Rank[v])
    BY <1>2 DEF Compare
  <2> QED BY <1>1, <2>1 DEF Sign, Le
<1>3. CASE by = "default"
  <2>1. \A v, w : Compare(by, v, w) = js_sort_compare_default(v, w)
    BY <1>3 DEF Compare
  <2>2. \A v, w : js_sort_compare_default(v, w) =
          IF v = None THEN (IF w = None THEN 0 ELSE 1)
          ELSE IF w = None THEN -1 ELSE Sign(Rank[v] - Rank[w])
    BY DEF js_sort_compare_default
  <2> QED BY <1>1, <2>1, <2>2 DEF Sign, Le
<1> QED BY <1>2, <1>3 DEF Consistent

LEMMA SwappedFacts ==
    ASSUME NEW s \in Seq(Items), NEW a \in Nat, NEW b \in Nat, a < Len(s), b < Len(s)
    PROVE  LET t == Swapped(s, a, b)
           IN  /\ t \in Seq(Items) /\ Len(t) = Len(s)
               /\ t[a + 1] = s[b + 1] /\ t[b + 1] = s[a + 1]
               /\ \A i \in 1..Len(s) : i # a + 1 /\ i # b + 1 => t[i] = s[i]
<1>0. Len(s) \in Nat /\ DOMAIN s = 1..Len(s)
  BY SeqFacts
<1>1. a + 1 \in 1..Len(s) /\ b + 1 \in 1..Len(s)
  BY <1>0
<1> DEFINE x == s[b + 1]
           y == s[a + 1]
           m == [s EXCEPT ![a + 1] = x]
           t == [m EXCEPT ![b + 1] = y]
<1>2. x \in Items /\ y \in Items
  BY <1>1, SeqFacts
<1>3. CASE a = b
  BY <1>3 DEF Swapped
<1>4. CASE a # b
  <2>1. Swapped(s, a, b) = t
    BY <1>4 DEF Swapped
  <2> HIDE DEF x, y
  <2>2. m \in Seq(Items) /\ Len(m) = Len(s)
    BY <1>1, <1>2, CountExcept
  <2>3. t \in Seq(Items) /\ Len(t) = Len(m)
    <3> HIDE DEF m
    <3> QED BY <1>1, <1>2, <2>2, CountExcept
  <2>4. t[a + 1] = x /\ t[b + 1] = y
    BY <1>0, <1>1, <1>4
  <2>5. \A i \in 1..Len(s) : i # a + 1 /\ i # b + 1 => t[i] = s[i]
    BY <1>0, <1>1
  <2> HIDE DEF t, m
  <2> QED BY <2>1, <2>2, <2>3, <2>4, <2>5 DEF x, y
<1> QED BY <1>3, <1>4

\* To swap two items in one span does no harm to the others.
LEMMA SwapOrder ==
    ASSUME NEW by, NEW L \in Seq(Items), NEW a \in Nat, NEW b \in Nat, a < Len(L), b < Len(L),
           NEW s, NEW live, In(s, a + 1), In(s, b + 1), s[1] \in Int, s[2] \in Int,
           \A t \in live : \A i \in 1..Len(L) : ~(In(s, i) /\ In(t, i)),
           OrderedBut(by, L, live \cup {s})
    PROVE  OrderedBut(by, Swapped(L, a, b), live \cup {s})
<1> DEFINE M == Swapped(L, a, b)
<1>1. /\ Len(M) = Len(L) /\ M[a + 1] = L[b + 1] /\ M[b + 1] = L[a + 1]
      /\ \A i \in 1..Len(L) : i # a + 1 /\ i # b + 1 => M[i] = L[i]
  BY SwappedFacts
<1>0. Len(L) \in Nat
  BY SeqFacts
<1> HIDE DEF M
<1>2. ASSUME NEW i \in 1..Len(L), ~In(s, i) PROVE M[i] = L[i]
  <2>1. i # a + 1 /\ i # b + 1
    BY <1>2
  <2> QED BY <1>1, <2>1
<1>5. ASSUME NEW i \in 1..Len(L), In(s, i)
      PROVE  \E p \in 1..Len(L) : In(s, p) /\ M[i] = L[p]
  <2>1. a + 1 \in 1..Len(L) /\ b + 1 \in 1..Len(L)
    BY <1>0
  <2>2. CASE i = a + 1
    BY <1>1, <2>1, <2>2
  <2>3. CASE i = b + 1
    BY <1>1, <2>1, <2>3
  <2>4. CASE i # a + 1 /\ i # b + 1
    BY <1>1, <1>5, <2>4
  <2> QED BY <2>2, <2>3, <2>4
<1>3. ASSUME NEW i \in 1..Len(L), NEW j \in 1..Len(L), i < j
      PROVE  Le(by, M[i], M[j]) \/ \E t \in live \cup {s} : In(t, i) /\ In(t, j)
  <2>1. CASE In(s, i) /\ In(s, j)
    BY <2>1
  <2>2. CASE ~In(s, i) /\ ~In(s, j)
    <3>1. M[i] = L[i] /\ M[j] = L[j]
      BY <1>2, <2>2
    <3>2. Le(by, L[i], L[j]) \/ \E t \in live \cup {s} : In(t, i) /\ In(t, j)
      BY <1>3 DEF OrderedBut
    <3> QED BY <3>1, <3>2
  <2>3. CASE In(s, i) /\ ~In(s, j)
    <3>1. PICK p \in 1..Len(L) : In(s, p) /\ M[i] = L[p]
      BY <1>5, <2>3
    <3>2. p < j
      BY <1>0, <1>3, <2>3, <3>1 DEF In
    <3>3. Le(by, L[p], L[j]) \/ \E t \in live \cup {s} : In(t, p) /\ In(t, j)
      BY <3>2 DEF OrderedBut
    <3>4. ~\E t \in live \cup {s} : In(t, p) /\ In(t, j)
      BY <2>3, <3>1
    <3>5. M[j] = L[j]
      BY <1>2, <2>3
    <3> QED BY <3>1, <3>3, <3>4, <3>5
  <2>4. CASE ~In(s, i) /\ In(s, j)
    <3>1. PICK p \in 1..Len(L) : In(s, p) /\ M[j] = L[p]
      BY <1>5, <2>4
    <3>2. i < p
      BY <1>0, <1>3, <2>4, <3>1 DEF In
    <3>3. Le(by, L[i], L[p]) \/ \E t \in live \cup {s} : In(t, i) /\ In(t, p)
      BY <3>2 DEF OrderedBut
    <3>4. ~\E t \in live \cup {s} : In(t, i) /\ In(t, p)
      BY <2>4, <3>1
    <3>5. M[i] = L[i]
      BY <1>2, <2>4
    <3> QED BY <3>1, <3>3, <3>4, <3>5
  <2> QED BY <2>1, <2>2, <2>3, <2>4
<1>4. OrderedBut(by, M, live \cup {s})
  BY <1>1, <1>3 DEF OrderedBut
<1> QED BY <1>4 DEF M

\* A sort() that nobody disturbs.
SortSoFar ==
    (frame.m = "sort" /\ frame.edits = 0)
        => Permuted(frame, list) /\ (frame.by \in Consistent => Sorting(frame, list))

LEMMA RangeApart ==
    ASSUME NEW f, IsSort(f), Ascending(f), f.range # <<>>
    PROVE  /\ Live(f) = Waiting(f) \cup {f.range}
           /\ \A t \in Waiting(f) : \A i \in Nat : ~(In(f.range, i) /\ In(t, i))
<1>1. Live(f) = Waiting(f) \cup {f.range}
  BY DEF Live
<1>2. ASSUME NEW t \in Waiting(f), NEW i \in Nat PROVE ~(In(f.range, i) /\ In(t, i))
  <2>1. PICK l \in 1..Len(f.todo) : t = f.todo[l]
    BY DEF Waiting
  <2>2. f.range[2] < t[1]
    BY <2>1 DEF Ascending
  <2>3. f.range \in Spans(Len(f.before)) /\ t \in Spans(Len(f.before))
    BY <2>1, SortTypes, SeqFacts
  <2>4. f.range[2] \in Int /\ t[1] \in Int
    BY <2>3, SpanFacts
  <2> QED BY <2>2, <2>4 DEF In
<1> QED BY <1>1, <1>2

LEMMA SwapInRange ==
    ASSUME NEW f, IsSort(f), Ascending(f), f.range # <<>>,
           NEW L \in Seq(Items), NEW a \in Nat, NEW b \in Nat, a < Len(L), b < Len(L),
           f.range[1] <= a, a <= f.range[2], f.range[1] <= b, b <= f.range[2],
           OrderedBut(f.by, L, Live(f))
    PROVE  OrderedBut(f.by, Swapped(L, a, b), Live(f))
<1> DEFINE s == f.range
           live == Waiting(f)
           by == f.by
<1>1. s[1] \in Int /\ s[2] \in Int
  BY SortTypes, SpanFacts
<1>2. In(s, a + 1) /\ In(s, b + 1)
  <2> HIDE DEF s
  <2>1. s[1] <= a /\ a <= s[2] /\ s[1] <= b /\ b <= s[2]
    BY DEF s
  <2> QED BY <1>1, <2>1 DEF In
<1>3. Live(f) = live \cup {s} /\ \A t \in live : \A i \in 1..Len(L) : ~(In(s, i) /\ In(t, i))
  BY RangeApart
<1> HIDE DEF s, live, by
<1>4. OrderedBut(by, L, live \cup {s})
  BY <1>3 DEF by
<1>5. OrderedBut(by, Swapped(L, a, b), live \cup {s})
  BY <1>1, <1>2, <1>3, <1>4, SwapOrder
<1> QED BY <1>3, <1>5 DEF by

LEMMA SortBegins ==
    ASSUME Safe, NEW by \in Comparators, array_sort(by)
    PROVE  SortSoFar'
<1> DEFINE n == Len(list)
           s == <<0, n - 1>>
           f == [m |-> "sort", by |-> by, before |-> list, todo |-> <<s>>,
                 range |-> <<>>, pivot |-> None, item |-> None, end |-> 0, k |-> 0, inside |-> FALSE,
                 edits |-> 0, shrunk |-> FALSE, failed |-> FALSE]
<1>1. (frame' = f \/ frame' = Idle) /\ list' = list
  BY DEF array_sort, Finish, Unchanged
<1>2. list \in Seq(Items) /\ n \in Nat
  BY SeqFacts DEF Safe, ListOK
<1>3. Permuted(f, list)
  BY DEF Permuted
<1>4. Sorting(f, list)
  <2>1. /\ f.todo = <<s>> /\ f.range = <<>> /\ f.failed = FALSE /\ f.by = by
        /\ Len(<<s>>) = 1 /\ <<s>>[1] = s
    OBVIOUS
  <2>2. s[1] = 0 /\ s[2] = n - 1
    OBVIOUS
  <2> HIDE DEF f, s
  <2>3. Ascending(f)
    BY <2>1 DEF Ascending
  <2>4. Partition(f, list)
    BY <2>1 DEF Partition
  <2>5. s \in Live(f)
    BY <2>1 DEF Live, Waiting
  <2>6. \A i \in 1..n : In(s, i)
    BY <1>2, <2>2 DEF In
  <2>7. OrderedBut(by, list, Live(f))
    BY <2>5, <2>6 DEF OrderedBut
  <2> QED BY <2>1, <2>3, <2>4, <2>7 DEF Sorting
<1>5. Idle.m # "sort"
  BY DEF Idle
<1> HIDE DEF f
<1> QED BY <1>1, <1>3, <1>4, <1>5 DEF SortSoFar

LEMMA TailFacts ==
    ASSUME NEW S, NEW s \in Seq(S), s # <<>>
    PROVE  /\ Len(s) \in Nat /\ Len(s) >= 1 /\ Len(Tail(s)) = Len(s) - 1
           /\ \A k \in 1..(Len(s) - 1) : Tail(s)[k] = s[k + 1]
  OBVIOUS

LEMMA QuickSortSorts ==
    ASSUME Safe, SortSoFar, quickSort
    PROVE  SortSoFar'
<1> DEFINE left  == frame.todo[1][1]
           right == frame.todo[1][2]
           mid   == (left + right) \div 2
           N     == Len(frame.before)
           p     == GetItem(Heap, mid)
           S     == <<left, right>>
           f     == [frame EXCEPT !.todo = Tail(@)]
           g     == [f EXCEPT !.range = S, !.end = left, !.k = left + 1, !.pivot = p]
<1>1. /\ frame.m = "sort" /\ frame.range = <<>> /\ frame.todo # <<>>
      /\ \/ left >= right /\ frame' = f /\ Unchanged
         \/ frame' = Crashed(frame)
         \/ /\ ~(left >= right) /\ ~Gone(left, mid) /\ Become(swapItems(Heap, left, mid))
            /\ frame' = g
  BY DEF quickSort, InSort
<1>2. SortOK(frame, list) /\ ListOK /\ list \in Seq(Items) /\ Len(list) \in Nat
  BY <1>1, KindFacts, SeqFacts DEF Safe, ListOK
<1>3. IsSort(frame) /\ N \in Nat /\ frame.todo \in Seq(Spans(N))
  BY <1>2, SortTypes DEF SortOK
<1>4. /\ frame.todo[1] \in Spans(N) /\ Tail(frame.todo) \in Seq(Spans(N))
      /\ Len(frame.todo) \in Nat /\ Len(frame.todo) >= 1 /\ Len(Tail(frame.todo)) = Len(frame.todo) - 1
      /\ \A k \in 1..(Len(frame.todo) - 1) : Tail(frame.todo)[k] = frame.todo[k + 1]
  <2> DEFINE T == Spans(N)
             s == frame.todo
  <2>1. s \in Seq(T) /\ s # <<>>
    BY <1>1, <1>3
  <2> HIDE DEF T, s
  <2>2. s[1] \in T /\ Tail(s) \in Seq(T) /\ Len(s) >= 1
    BY <2>1, HeadTail
  <2>3. /\ Len(s) \in Nat /\ Len(Tail(s)) = Len(s) - 1
        /\ \A k \in 1..(Len(s) - 1) : Tail(s)[k] = s[k + 1]
    BY <2>1, TailFacts
  <2> QED BY <2>2, <2>3 DEF T, s
<1>5. left \in Nat /\ right \in Int /\ right < N /\ frame.todo[1] = S
  BY <1>3, <1>4, SpanFacts
<1>6. /\ IsSort(f) /\ f.before = frame.before /\ f.range = <<>> /\ f.by = frame.by
      /\ f.edits = frame.edits /\ f.todo = Tail(frame.todo) /\ f.failed = frame.failed /\ f.m = "sort"
  <2>1. IsSort(f)
    BY <1>3, <1>4, SortFields
  <2> QED BY <1>1, <1>3, <2>1 DEF IsSort
<1>7. Waiting(frame) = Waiting(f) \cup {S}
  <2> DEFINE s == frame.todo
             t == Tail(s)
             k1 == Len(s)
  <2>1. k1 \in Nat /\ k1 >= 1 /\ s[1] = S /\ \A k \in 1..(k1 - 1) : t[k] = s[k + 1]
    BY <1>4, <1>5
  <2>2. Waiting(frame) = {s[k] : k \in 1..k1} /\ Waiting(f) = {t[k] : k \in 1..(k1 - 1)}
    BY <1>4, <1>6 DEF Waiting
  <2> HIDE DEF s, t, k1, S
  <2>3. \A k \in 1..k1 : k = 1 \/ (k - 1 \in 1..(k1 - 1) /\ k = (k - 1) + 1)
    BY <2>1
  <2>4. \A k \in 1..(k1 - 1) : k + 1 \in 1..k1
    BY <2>1
  <2>5. 1 \in 1..k1
    BY <2>1
  <2>6. ASSUME NEW k \in 1..k1 PROVE s[k] = S \/ s[k] \in {t[l] : l \in 1..(k1 - 1)}
    BY <2>1, <2>3
  <2>7. ASSUME NEW k \in 1..(k1 - 1) PROVE t[k] \in {s[l] : l \in 1..k1}
    BY <2>1, <2>4
  <2>8. S \in {s[l] : l \in 1..k1}
    BY <2>1, <2>5
  <2> QED BY <2>2, <2>6, <2>7, <2>8
<1>8. ASSUME Ascending(frame)
      PROVE  /\ \A k, l \in 1..Len(f.todo) : k < l => f.todo[k][2] < f.todo[l][1]
             /\ \A l \in 1..Len(f.todo) : right < f.todo[l][1]
  <2> DEFINE s == frame.todo
             t == f.todo
             n == Len(s)
  <2>1. /\ n \in Nat /\ n >= 1 /\ Len(t) = n - 1 /\ \A k \in 1..(n - 1) : t[k] = s[k + 1]
        /\ s[1][2] = right /\ \A k, l \in 1..n : k < l => s[k][2] < s[l][1]
    BY <1>4, <1>6, <1>8 DEF Ascending
  <2> HIDE DEF s, t, n, right
  <2>2. \A k \in 1..Len(t) : k + 1 \in 1..n /\ 1 < k + 1 /\ t[k] = s[k + 1]
    BY <2>1
  <2>3. 1 \in 1..n
    BY <2>1
  <2>4. ASSUME NEW k \in 1..Len(t), NEW l \in 1..Len(t), k < l PROVE t[k][2] < t[l][1]
    <3>1. k + 1 < l + 1
      BY <2>1, <2>4
    <3> QED BY <2>1, <2>2, <3>1
  <2>5. ASSUME NEW l \in 1..Len(t) PROVE right < t[l][1]
    BY <2>1, <2>2, <2>3
  <2> QED BY <2>4, <2>5 DEF t
<1>9. CASE left >= right /\ frame' = f /\ Unchanged
  <2> SUFFICES ASSUME frame.edits = 0 PROVE Permuted(f, list) /\ (f.by \in Consistent => Sorting(f, list))
    BY <1>6, <1>9 DEF SortSoFar, Unchanged
  <2>1. Permuted(frame, list) /\ (frame.by \in Consistent => Sorting(frame, list))
    BY <1>1 DEF SortSoFar
  <2>2. Permuted(f, list)
    BY <1>6, <2>1 DEF Permuted
  <2>3. ASSUME f.by \in Consistent PROVE Sorting(f, list)
    <3>1. Ascending(frame) /\ OrderedBut(f.by, list, Live(frame)) /\ ~f.failed
      BY <1>6, <2>1, <2>3 DEF Sorting
    <3>2. Ascending(f)
      BY <1>6, <1>8, <3>1 DEF Ascending
    <3>3. Live(frame) = Waiting(f) \cup {S} /\ Live(f) = Waiting(f)
      BY <1>1, <1>6, <1>7 DEF Live
    <3>4. \A i, j \in 1..Len(list) : i < j => ~(In(S, i) /\ In(S, j))
      <4>1. S[1] = left /\ S[2] = right
        OBVIOUS
      <4> HIDE DEF S, left, right
      <4> QED BY <1>2, <1>5, <1>9, <4>1 DEF In
    <3>5. OrderedBut(f.by, list, Live(f))
      <4> HIDE DEF S, f
      <4> QED BY <3>1, <3>3, <3>4 DEF OrderedBut
    <3>6. Partition(f, list)
      BY <1>6 DEF Partition
    <3> QED BY <3>1, <3>2, <3>5, <3>6 DEF Sorting
  <2> QED BY <2>2, <2>3
<1>10. CASE frame' = Crashed(frame)
  BY <1>10 DEF SortSoFar, Crashed
<1>11. CASE /\ ~(left >= right) /\ ~Gone(left, mid) /\ Become(swapItems(Heap, left, mid))
            /\ frame' = g
  <2>1. left < right /\ mid \in Nat /\ left <= mid /\ mid <= right /\ left + 1 \in Nat
    <3>1. ~(left >= right)
      BY <1>11
    <3> HIDE DEF left, right, N
    <3> QED BY <1>3, <1>5, <3>1
  <2>2. S \in Spans(N)
    BY <1>5 DEF Spans
  <2>3. /\ ListOK' /\ Len(list') = Len(list) /\ list' = Swapped(list, left, mid)
        /\ \A x \in Items : Count(list', x) = Count(list, x)
    BY <1>2, <1>5, <1>11, <2>1, SwapStep
  <2> DEFINE a == [f EXCEPT !.range = S]
             b == [a EXCEPT !.end = left]
             c == [b EXCEPT !.k = left + 1]
  <2>4. g = [c EXCEPT !.pivot = p]
    OBVIOUS
  <2>5. S[1] = left /\ S[2] = right /\ S # <<>>
    OBVIOUS
  <2>6. p = list[mid + 1]
    BY DEF GetItem, Heap
  <2> HIDE DEF f, S, left, right, mid, p
  <2>7. /\ IsSort(g) /\ g.before = f.before /\ g.range = S /\ g.end = left /\ g.k = left + 1
        /\ g.pivot = p /\ g.inside = f.inside /\ g.edits = f.edits /\ g.by = f.by /\ g.todo = f.todo
        /\ g.failed = f.failed /\ g.m = "sort"
    <3>1. IsSort(a)
      BY <1>6, <2>2, SortFields
    <3>2. IsSort(b)
      BY <1>5, <3>1, SortFields
    <3>3. IsSort(c)
      BY <2>1, <3>2, SortFields
    <3>4. IsSort(g)
      BY <2>4, <3>3, SortFields
    <3> QED BY <1>6, <3>4 DEF IsSort
  <2> HIDE DEF g
  <2> SUFFICES ASSUME frame.edits = 0
               PROVE Permuted(g, list') /\ (g.by \in Consistent => Sorting(g, list'))
    BY <1>6, <1>11, <2>7 DEF SortSoFar, g
  <2>8. Permuted(frame, list) /\ (frame.by \in Consistent => Sorting(frame, list))
    BY <1>1 DEF SortSoFar
  <2>9. Permuted(g, list')
    BY <1>6, <2>3, <2>7, <2>8 DEF Permuted
  <2>10. ASSUME g.by \in Consistent PROVE Sorting(g, list')
    <3>1. Ascending(frame) /\ OrderedBut(g.by, list, Live(frame)) /\ ~g.failed
      BY <1>6, <2>7, <2>8, <2>10 DEF Sorting
    <3>2. Ascending(g)
      BY <1>8, <2>5, <2>7, <3>1 DEF Ascending
    <3>3. Live(g) = Live(frame)
      BY <1>1, <1>7, <2>5, <2>7 DEF Live, Waiting
    <3>4. left < Len(list) /\ mid < Len(list)
      <4>1. N = Len(list)
        BY <2>8 DEF Permuted
      <4> HIDE DEF N
      <4> QED BY <1>2, <1>5, <2>1, <4>1
    <3>5. OrderedBut(g.by, list', Live(g))
      <4>1. /\ g.range # <<>> /\ g.range[1] <= left /\ left <= g.range[2] /\ g.range[1] <= mid
            /\ mid <= g.range[2]
        BY <1>5, <2>1, <2>5, <2>7
      <4>2. OrderedBut(g.by, Swapped(list, left, mid), Live(g))
        BY <1>2, <1>5, <2>1, <2>7, <3>1, <3>2, <3>3, <3>4, <4>1, SwapInRange
      <4> QED BY <2>3, <4>2
    <3>6. Partition(g, list')
      <4>1. list'[left + 1] = list[mid + 1]
        BY <1>2, <1>5, <2>1, <2>3, <3>4, SwappedFacts
      <4>2. g.inside = FALSE
        BY <1>1, <1>2, <1>3, <2>7, SortTypes DEF SortOK, f, IsSort
      <4>3. /\ g.pivot = list'[g.range[1] + 1]
            /\ \A i \in 1..Len(list') : ~(g.range[1] + 1 < i /\ i <= g.end + 1)
            /\ \A i \in 1..Len(list') : ~(g.end + 1 < i /\ i <= g.k)
        BY <1>2, <1>5, <2>3, <2>5, <2>6, <2>7, <4>1
      <4> QED BY <4>2, <4>3 DEF Partition
    <3> QED BY <3>1, <3>2, <3>5, <3>6 DEF Sorting
  <2> QED BY <2>9, <2>10
<1> QED BY <1>1, <1>9, <1>10, <1>11

LEMMA CompareCallSorts ==
    ASSUME Safe, SortSoFar, invokeCallBack
    PROVE  SortSoFar'
<1> DEFINE x == GetItem(Heap, frame.k)
           g == [frame EXCEPT !.inside = TRUE, !.item = x]
<1>1. /\ frame.m = "sort" /\ frame.range # <<>> /\ list' = list
      /\ frame' = Crashed(frame) \/ frame' = g
  BY DEF invokeCallBack, InSort
<1>2. SortOK(frame, list) /\ IsSort(frame)
  BY <1>1, KindFacts DEF SortOK
<1>3. CASE frame' = Crashed(frame)
  BY <1>3 DEF SortSoFar, Crashed
<1>4. CASE frame' = g
  <2>1. /\ g.before = frame.before /\ g.range = frame.range /\ g.end = frame.end /\ g.k = frame.k
        /\ g.edits = frame.edits /\ g.by = frame.by /\ g.todo = frame.todo /\ g.m = "sort"
        /\ g.failed = frame.failed /\ g.pivot = frame.pivot /\ g.item = x
    BY <1>1, <1>2 DEF IsSort
  <2>2. x = list[frame.k + 1]
    BY DEF GetItem, Heap
  <2> HIDE DEF g, x
  <2> SUFFICES ASSUME frame.edits = 0
               PROVE Permuted(g, list) /\ (g.by \in Consistent => Sorting(g, list))
    BY <1>1, <1>4, <2>1 DEF SortSoFar
  <2>3. Permuted(frame, list) /\ (frame.by \in Consistent => Sorting(frame, list))
    BY <1>1 DEF SortSoFar
  <2>4. Permuted(g, list)
    BY <2>1, <2>3 DEF Permuted
  <2>5. ASSUME g.by \in Consistent PROVE Sorting(g, list)
    <3>1. Ascending(frame) /\ Partition(frame, list) /\ OrderedBut(g.by, list, Live(frame)) /\ ~g.failed
      BY <2>1, <2>3, <2>5 DEF Sorting
    <3>2. Ascending(g) /\ Live(g) = Live(frame)
      BY <2>1, <3>1 DEF Ascending, Live, Waiting
    <3>3. Partition(g, list)
      BY <2>1, <2>2, <3>1 DEF Partition
    <3> QED BY <3>1, <3>2, <3>3 DEF Sorting
  <2> QED BY <2>4, <2>5
<1> QED BY <1>1, <1>3, <1>4

LEMMA CompareRefusedSorts ==
    ASSUME Safe, SortSoFar, CompareRefused
    PROVE  SortSoFar'
<1> DEFINE g == [frame EXCEPT !.inside = FALSE, !.failed = TRUE, !.range = <<>>]
<1>1. frame.m = "sort" /\ frame.by = "any" /\ frame' = g /\ list' = list
  BY DEF CompareRefused, InSort
<1>2. IsSort(frame)
  BY <1>1, KindFacts DEF SortOK
<1>3. g.before = frame.before /\ g.edits = frame.edits /\ g.by = "any"
  BY <1>1, <1>2 DEF IsSort
<1> HIDE DEF g
<1>4. "any" \notin Consistent
  BY DEF Consistent
<1> QED BY <1>1, <1>3, <1>4 DEF SortSoFar, Permuted

LEMMA CompareReturnsSorts ==
    ASSUME Safe, SortSoFar, NEW r \in Verdicts(frame), CompareReturns(r)
    PROVE  SortSoFar'
<1> DEFINE f == [frame EXCEPT !.inside = FALSE, !.k = @ + 1]
           end == frame.end + 1
           k == frame.k
           N == Len(frame.before)
           left == frame.range[1]
           right == frame.range[2]
           out == [f EXCEPT !.range = <<>>]
           moved == [f EXCEPT !.end = end]
<1>1. /\ frame.m = "sort" /\ frame.inside
      /\ \/ f.failed /\ frame' = out /\ Unchanged
         \/ ~f.failed /\ r >= 0 /\ frame' = f /\ Unchanged
         \/ frame' = Crashed(frame)
         \/ ~(r >= 0) /\ ~Gone(end, k) /\ Become(swapItems(Heap, end, k)) /\ frame' = moved
  BY DEF CompareReturns, InSort
<1>2. SortOK(frame, list) /\ ListOK /\ list \in Seq(Items) /\ Len(list) \in Nat
  BY <1>1, KindFacts, SeqFacts DEF Safe, ListOK
<1>3. IsSort(frame) /\ frame.range # <<>>
  BY <1>1, <1>2 DEF SortOK
<1>4. /\ N \in Nat /\ frame.end \in Nat /\ k \in Nat /\ frame.range \in Spans(N)
      /\ k + 1 \in Nat /\ end \in Nat
  BY <1>3, SortTypes
<1>5. /\ left \in Nat /\ right \in Int /\ right < N /\ left <= frame.end /\ frame.end < k /\ k <= right
  BY <1>1, <1>2, <1>3, <1>4, SpanFacts DEF SortOK
<1>6. /\ IsSort(f) /\ f.before = frame.before /\ f.range = frame.range /\ f.inside = FALSE
      /\ f.end = frame.end /\ f.k = k + 1 /\ f.by = frame.by /\ f.edits = frame.edits
      /\ f.todo = frame.todo /\ f.failed = frame.failed /\ f.pivot = frame.pivot /\ f.m = "sort"
  <2> DEFINE a == [frame EXCEPT !.inside = FALSE]
  <2>1. IsSort(a)
    BY <1>3, SortFields
  <2>2. f = [a EXCEPT !.k = frame.k + 1]
    OBVIOUS
  <2>3. IsSort(f)
    <3> HIDE DEF a, f
    <3> QED BY <1>4, <2>1, <2>2, SortFields
  <2> QED BY <1>1, <1>3, <2>3 DEF IsSort
<1> HIDE DEF f
<1>7. ASSUME frame.edits = 0
      PROVE  Permuted(frame, list) /\ (frame.by \in Consistent => Sorting(frame, list))
  BY <1>1, <1>7 DEF SortSoFar
<1>8. CASE f.failed /\ frame' = out /\ Unchanged
  <2>1. out.before = frame.before /\ out.edits = frame.edits /\ out.by = frame.by
    BY <1>6 DEF IsSort
  <2> HIDE DEF out
  <2>2. ASSUME frame.edits = 0 PROVE frame.by \notin Consistent
    BY <1>6, <1>7, <1>8, <2>2 DEF Sorting
  <2>3. list' = list
    BY <1>8 DEF Unchanged
  <2> QED BY <1>7, <1>8, <2>1, <2>2, <2>3 DEF SortSoFar, Permuted
<1>9. CASE frame' = Crashed(frame)
  BY <1>9 DEF SortSoFar, Crashed
\* What the compare function said.
<1>10. ASSUME frame.edits = 0, frame.by \in Consistent
       PROVE  /\ r = Compare(frame.by, list[k + 1], frame.pivot) /\ r \in Int
              /\ frame.pivot \in Items /\ list[k + 1] \in Items
              /\ N = Len(list) /\ k + 1 \in 1..Len(list) /\ left + 1 \in 1..Len(list)
  <2>1. Partition(frame, list) /\ N = Len(list)
    BY <1>7, <1>10 DEF Sorting, Permuted
  <2>2. frame.item = list[k + 1] /\ frame.pivot = list[left + 1]
    BY <1>1, <1>3, <2>1 DEF Partition
  <2>3. k + 1 \in 1..Len(list) /\ left + 1 \in 1..Len(list)
    <3> HIDE DEF N, k, left, right
    <3> QED BY <1>2, <1>4, <1>5, <2>1
  <2>4. frame.pivot \in Items /\ list[k + 1] \in Items
    BY <1>2, <2>2, <2>3, SeqFacts
  <2>5. r = Compare(frame.by, list[k + 1], frame.pivot)
    BY <1>10, <2>2 DEF Verdicts
  <2>6. frame.by \in Comparators
    BY <1>3 DEF IsSort
  <2> QED BY <1>10, <2>1, <2>3, <2>4, <2>5, <2>6, OrderFacts
<1>11. CASE ~f.failed /\ r >= 0 /\ frame' = f /\ Unchanged
  <2> SUFFICES ASSUME frame.edits = 0
               PROVE Permuted(f, list) /\ (f.by \in Consistent => Sorting(f, list))
    BY <1>6, <1>11 DEF SortSoFar, Unchanged
  <2>1. Permuted(f, list)
    BY <1>6, <1>7 DEF Permuted
  <2>2. ASSUME f.by \in Consistent PROVE Sorting(f, list)
    <3>1. Ascending(frame) /\ Partition(frame, list) /\ OrderedBut(f.by, list, Live(frame)) /\ ~f.failed
      BY <1>6, <1>7, <2>2 DEF Sorting
    <3>2. Ascending(f) /\ Live(f) = Live(frame)
      BY <1>6, <3>1 DEF Ascending, Live, Waiting
    <3>3. /\ f.pivot = list[f.range[1] + 1]
          /\ \A i \in 1..Len(list) : f.range[1] + 1 < i /\ i <= f.end + 1 => Compare(f.by, list[i], f.pivot) < 0
          /\ \A i \in 1..Len(list) : frame.end + 1 < i /\ i <= k => Compare(f.by, list[i], f.pivot) >= 0
      BY <1>3, <1>6, <3>1 DEF Partition
    <3>4. Compare(f.by, list[k + 1], f.pivot) >= 0
      BY <1>6, <1>10, <1>11, <2>2
    <3>5. ASSUME NEW i \in 1..Len(list), f.end + 1 < i, i <= f.k
          PROVE  Compare(f.by, list[i], f.pivot) >= 0
      <4>1. i <= k \/ i = k + 1
        <5> HIDE DEF k
        <5> QED BY <1>2, <1>4, <1>6, <3>5
      <4> QED BY <1>6, <3>3, <3>4, <3>5, <4>1
    <3>6. Partition(f, list)
      BY <1>6, <3>3, <3>5 DEF Partition
    <3> QED BY <3>1, <3>2, <3>6 DEF Sorting
  <2> QED BY <2>1, <2>2
<1>12. CASE ~(r >= 0) /\ ~Gone(end, k) /\ Become(swapItems(Heap, end, k)) /\ frame' = moved
  <2> DEFINE M == Swapped(list, end, k)
  <2>1. list' = M /\ Len(list') = Len(list) /\ \A x \in Items : Count(list', x) = Count(list, x)
    BY <1>2, <1>4, <1>12, SwapStep
  <2>2. /\ IsSort(moved) /\ moved.before = frame.before /\ moved.range = frame.range
        /\ moved.inside = FALSE /\ moved.end = end /\ moved.k = k + 1 /\ moved.by = frame.by
        /\ moved.edits = frame.edits /\ moved.todo = frame.todo /\ moved.failed = frame.failed
        /\ moved.pivot = frame.pivot /\ moved.m = "sort"
    <3> HIDE DEF end, k
    <3>1. IsSort(moved)
      BY <1>4, <1>6, SortFields
    <3> QED BY <1>6, <3>1 DEF IsSort
  <2> HIDE DEF moved
  <2> SUFFICES ASSUME frame.edits = 0
               PROVE Permuted(moved, list') /\ (moved.by \in Consistent => Sorting(moved, list'))
    BY <1>12, <2>2 DEF SortSoFar, moved
  <2>3. Permuted(moved, list')
    BY <1>7, <2>1, <2>2 DEF Permuted
  <2>4. ASSUME moved.by \in Consistent PROVE Sorting(moved, M)
    <3>1. Ascending(frame) /\ Partition(frame, list) /\ OrderedBut(moved.by, list, Live(frame)) /\ ~moved.failed
      BY <1>7, <2>2, <2>4 DEF Sorting
    <3>2. Ascending(moved) /\ Live(moved) = Live(frame)
      BY <2>2, <3>1 DEF Ascending, Live, Waiting
    <3>3. /\ r = Compare(moved.by, list[k + 1], frame.pivot) /\ r \in Int /\ N = Len(list)
          /\ k + 1 \in 1..Len(list) /\ left + 1 \in 1..Len(list)
      BY <1>10, <2>2, <2>4
    <3>4. /\ left < end /\ end <= k /\ end < Len(list) /\ k < Len(list) /\ left <= right
          /\ end + 1 \in 1..Len(list)
      <4> HIDE DEF N, left, right, k
      <4> QED BY <1>2, <1>4, <1>5, <3>3
    <3>5. OrderedBut(moved.by, M, Live(moved))
      <4>1. /\ moved.range[1] = left /\ moved.range[2] = right /\ moved.range # <<>>
        BY <1>3, <2>2
      <4>2. left <= end /\ end <= right /\ left <= k /\ k <= right
        <5> HIDE DEF left, right, k
        <5> QED BY <1>4, <1>5, <3>4
      <4> HIDE DEF end, k, left, right
      <4> QED BY <1>2, <1>4, <2>2, <3>1, <3>2, <3>4, <4>1, <4>2, SwapInRange
    <3>6. /\ M[end + 1] = list[k + 1] /\ M[k + 1] = list[end + 1] /\ Len(M) = Len(list)
          /\ \A i \in 1..Len(list) : i # end + 1 /\ i # k + 1 => M[i] = list[i]
      <4> HIDE DEF end, k
      <4> QED BY <1>2, <1>4, <3>4, SwappedFacts
    <3> DEFINE Low(i) == Compare(moved.by, list[i], frame.pivot) < 0
               High(i) == Compare(moved.by, list[i], frame.pivot) >= 0
    <3>7. /\ frame.pivot = list[left + 1] /\ Low(k + 1)
          /\ \A i \in 1..Len(list) : left + 1 < i /\ i <= end => Low(i)
          /\ \A i \in 1..Len(list) : end < i /\ i <= k => High(i)
      BY <1>3, <1>12, <2>2, <3>1, <3>3 DEF Partition
    <3>8. frame.pivot = M[left + 1]
      <4>1. left + 1 # end + 1 /\ left + 1 # k + 1
        <5> HIDE DEF left, k, end
        <5> QED BY <1>4, <1>5, <3>4
      <4> QED BY <3>3, <3>6, <3>7, <4>1
    <3> HIDE DEF M, end, k, left
    <3>9. ASSUME NEW i \in 1..Len(list), left + 1 < i, i <= end + 1
          PROVE  Compare(moved.by, M[i], frame.pivot) < 0
      <4>1. CASE i = end + 1
        BY <3>6, <3>7, <4>1
      <4>2. CASE i # end + 1
        <5>1. i <= end /\ i # k + 1
          BY <1>4, <3>4, <3>9, <4>2
        <5>2. M[i] = list[i] /\ Low(i)
          BY <3>6, <3>7, <3>9, <4>2, <5>1
        <5> QED BY <5>2
      <4> QED BY <4>1, <4>2
    <3>10. ASSUME NEW i \in 1..Len(list), end + 1 < i, i <= k + 1
           PROVE  Compare(moved.by, M[i], frame.pivot) >= 0
      <4>1. CASE i = k + 1
        <5>1. end < end + 1 /\ end + 1 <= k
          BY <1>4, <3>4, <3>10, <4>1
        <5>2. High(end + 1)
          BY <3>4, <3>7, <5>1
        <5> QED BY <3>6, <4>1, <5>2
      <4>2. CASE i # k + 1
        <5>1. i <= k /\ end < i /\ i # end + 1
          BY <1>4, <3>10, <4>2
        <5>2. M[i] = list[i] /\ High(i)
          BY <3>6, <3>7, <4>2, <5>1
        <5> QED BY <5>2
      <4> QED BY <4>1, <4>2
    <3>11. Partition(moved, M)
      <4>1. moved.range[1] = left
        BY <2>2 DEF left
      <4> QED BY <2>2, <3>6, <3>8, <3>9, <3>10, <4>1 DEF Partition
    <3> QED BY <3>1, <3>2, <3>5, <3>11 DEF Sorting
  <2> QED BY <2>1, <2>3, <2>4
<1> QED BY <1>1, <1>8, <1>9, <1>11, <1>12

LEMMA TwoMore ==
    ASSUME NEW S, NEW p \in S, NEW q \in S, NEW t \in Seq(S), NEW u, u = <<p, q>> \o t
    PROVE  /\ Len(t) \in Nat /\ Len(u) = Len(t) + 2 /\ u[1] = p /\ u[2] = q
           /\ \A k \in 1..Len(t) : u[k + 2] = t[k]
<1>1. <<p, q>> \in Seq(S) /\ Len(<<p, q>>) = 2 /\ <<p, q>>[1] = p /\ <<p, q>>[2] = q
  OBVIOUS
<1> DEFINE s == <<p, q>>
<1> HIDE DEF s
<1>2. u = s \o t /\ s \in Seq(S) /\ Len(s) = 2 /\ s[1] = p /\ s[2] = q
  BY <1>1 DEF s
<1>3. Len(t) \in Nat
  BY SeqFacts
<1>4. /\ Len(u) = Len(t) + 2
      /\ \A k \in 1..(Len(t) + 2) : u[k] = IF k <= 2 THEN s[k] ELSE t[k - 2]
  BY <1>2, <1>3, ConcatProperties
<1>5. 1 \in 1..(Len(t) + 2) /\ 2 \in 1..(Len(t) + 2)
  BY <1>3
<1>6. u[1] = s[1] /\ u[2] = s[2]
  BY <1>4, <1>5
<1>7. ASSUME NEW k \in 1..Len(t) PROVE u[k + 2] = t[k]
  <2>1. k + 2 \in 1..(Len(t) + 2) /\ ~(k + 2 <= 2) /\ (k + 2) - 2 = k
    BY <1>3
  <2> QED BY <1>4, <2>1
<1> QED BY <1>2, <1>3, <1>4, <1>6, <1>7

\* The pivot takes its place between the two parts.
LEMMA PartsInOrder ==
    ASSUME NEW by \in Comparators, by \in Consistent, NEW L \in Seq(Items), NEW M,
           NEW left \in Nat, NEW right \in Int, NEW end \in Nat,
           left <= end, end <= right, right < Len(L),
           M = Swapped(L, left, end),
           \A i \in 1..Len(L) : left + 1 < i /\ i <= end + 1 => Compare(by, L[i], L[left + 1]) < 0,
           \A i \in 1..Len(L) : end + 1 < i /\ i <= right + 1 => Compare(by, L[i], L[left + 1]) >= 0,
           NEW i \in 1..Len(L), NEW j \in 1..Len(L), i < j, left < i, j <= right + 1
    PROVE  Le(by, M[i], M[j]) \/ j <= end \/ end + 1 < i
<1> DEFINE x == L[left + 1]
<1>0. Len(L) \in Nat
  BY SeqFacts
<1>1. left < Len(L) /\ end < Len(L) /\ left + 1 \in 1..Len(L) /\ end + 1 \in 1..Len(L)
  BY <1>0
<1>2. /\ M[left + 1] = L[end + 1] /\ M[end + 1] = x /\ M \in Seq(Items) /\ Len(M) = Len(L)
      /\ \A n \in 1..Len(L) : n # left + 1 /\ n # end + 1 => M[n] = L[n]
  BY <1>1, SwappedFacts
<1>3. x \in Items /\ M[i] \in Items /\ M[j] \in Items
  BY <1>1, <1>2, SeqFacts
<1> HIDE DEF x
<1>4. ASSUME i <= end PROVE Compare(by, M[i], x) < 0
  <2>1. CASE i = left + 1
    <3>1. left + 1 < end + 1 /\ end + 1 <= end + 1
      BY <1>4, <2>1
    <3> QED BY <1>1, <1>2, <2>1, <3>1 DEF x
  <2>2. CASE i # left + 1
    <3>1. left + 1 < i /\ i <= end + 1 /\ i # end + 1
      BY <1>4, <2>2
    <3> QED BY <1>2, <2>2, <3>1 DEF x
  <2> QED BY <2>1, <2>2
<1>5. ASSUME j > end + 1 PROVE Compare(by, M[j], x) >= 0
  <2>1. j # left + 1 /\ j # end + 1 /\ end + 1 < j
    BY <1>5
  <2> QED BY <1>2, <2>1 DEF x
<1>6. /\ i <= end => Le(by, M[i], x)
      /\ j > end + 1 => Le(by, x, M[j])
  BY <1>3, <1>4, <1>5, OrderFacts
<1>7. CASE i <= end /\ j = end + 1
  BY <1>2, <1>6, <1>7
<1>8. CASE i <= end /\ j > end + 1
  BY <1>3, <1>6, <1>8, OrderFacts
<1>9. CASE i = end + 1
  <2>1. j > end + 1
    BY <1>9
  <2> QED BY <1>2, <1>6, <1>9, <2>1
<1> QED BY <1>7, <1>8, <1>9

LEMMA EndPartitionSorts ==
    ASSUME Safe, SortSoFar, EndPartition
    PROVE  SortSoFar'
<1> DEFINE left == frame.range[1]
           right == frame.range[2]
           end == frame.end
           N == Len(frame.before)
           p == <<left, end - 1>>
           q == <<end + 1, right>>
           t == <<p, q>> \o frame.todo
           g == [frame EXCEPT !.range = <<>>, !.todo = <<p, q>> \o @]
           M == Swapped(list, left, end)
<1>1. /\ frame.m = "sort" /\ frame.range # <<>> /\ ~frame.inside /\ frame.k > right
      /\ \/ frame' = Crashed(frame)
         \/ ~Gone(left, end) /\ Become(swapItems(Heap, left, end)) /\ frame' = g
  BY DEF EndPartition, InSort
<1>2. SortOK(frame, list) /\ ListOK /\ list \in Seq(Items) /\ Len(list) \in Nat
  BY <1>1, KindFacts, SeqFacts DEF Safe, ListOK
<1>3. IsSort(frame) /\ frame.range # <<>>
  BY <1>1, <1>2 DEF SortOK
<1>4. /\ N \in Nat /\ end \in Nat /\ frame.k \in Nat /\ frame.range \in Spans(N)
      /\ frame.todo \in Seq(Spans(N))
  BY <1>3, SortTypes
<1>5. left \in Nat /\ right \in Int /\ right < N /\ left <= end /\ end < frame.k /\ frame.k <= right + 1
  BY <1>2, <1>3, <1>4, SpanFacts DEF SortOK
<1>6. end <= right /\ end < N /\ left <= right /\ frame.k = right + 1
  <2>1. frame.k > right
    BY <1>1
  <2> HIDE DEF left, right, end, N
  <2> QED BY <1>4, <1>5, <2>1
<1>7. p[1] = left /\ p[2] = end - 1 /\ q[1] = end + 1 /\ q[2] = right
  OBVIOUS
<1>8. p \in Spans(N) /\ q \in Spans(N)
  <2> HIDE DEF left, right, end, N
  <2> QED BY <1>4, <1>5, <1>6 DEF Spans
<1>9. CASE frame' = Crashed(frame)
  BY <1>9 DEF SortSoFar, Crashed
<1>10. CASE ~Gone(left, end) /\ Become(swapItems(Heap, left, end)) /\ frame' = g
  <2>1. list' = M /\ Len(list') = Len(list) /\ \A x \in Items : Count(list', x) = Count(list, x)
    BY <1>2, <1>4, <1>5, <1>10, SwapStep
  <2>2. /\ g.before = frame.before /\ g.range = <<>> /\ g.edits = frame.edits /\ g.by = frame.by
        /\ g.failed = frame.failed /\ g.todo = t /\ g.m = "sort"
    <3> HIDE DEF p, q
    <3> QED BY <1>1, <1>3 DEF IsSort
  <2> HIDE DEF g, t, p, q
  <2> SUFFICES ASSUME frame.edits = 0
               PROVE Permuted(g, list') /\ (g.by \in Consistent => Sorting(g, list'))
    BY <1>10, <2>2 DEF SortSoFar, g, p, q
  <2>3. Permuted(frame, list) /\ (frame.by \in Consistent => Sorting(frame, list))
    BY <1>1 DEF SortSoFar
  <2>4. Permuted(g, list')
    BY <2>1, <2>2, <2>3 DEF Permuted
  <2>5. ASSUME g.by \in Consistent PROVE Sorting(g, M)
    <3> DEFINE by == frame.by
    <3>1. Ascending(frame) /\ Partition(frame, list) /\ OrderedBut(by, list, Live(frame)) /\ ~g.failed
      BY <2>2, <2>3, <2>5 DEF Sorting
    <3>2. by \in Comparators /\ by \in Consistent
      BY <1>3, <2>2, <2>5 DEF IsSort
    <3>3. N = Len(list)
      BY <2>3 DEF Permuted
    <3>4. /\ Len(frame.todo) \in Nat /\ Len(t) = Len(frame.todo) + 2 /\ t[1] = p /\ t[2] = q
          /\ \A k \in 1..Len(frame.todo) : t[k + 2] = frame.todo[k]
      <4>1. t = <<p, q>> \o frame.todo
        BY DEF t
      <4> QED BY <1>4, <1>8, <4>1, TwoMore
    <3> DEFINE s == frame.todo
               n == Len(s)
    <3>5. /\ \A k, l \in 1..n : k < l => s[k][2] < s[l][1]
          /\ \A l \in 1..n : right < s[l][1]
          /\ \A l \in 1..n : s[l][1] \in Int
      <4>1. \A l \in 1..n : s[l] \in Spans(N)
        BY <1>4, SeqFacts
      <4>2. \A l \in 1..n : s[l][1] \in Int
        BY <1>4, <4>1, SpanFacts
      <4> QED BY <1>3, <3>1, <4>2 DEF Ascending
    <3>6. n \in Nat /\ Len(t) = n + 2 /\ t[1] = p /\ t[2] = q /\ \A k \in 1..n : t[k + 2] = s[k]
      BY <3>4
    <3> HIDE DEF s, n
    <3>7. ASSUME NEW k \in 1..(n + 2) PROVE k = 1 \/ k = 2 \/ (k - 2 \in 1..n /\ t[k] = s[k - 2])
      <4>1. k = 1 \/ k = 2 \/ (k - 2 \in 1..n /\ (k - 2) + 2 = k)
        BY <3>6
      <4> QED BY <3>6, <4>1
    <3> HIDE DEF left, right, end, N
    <3>8. Ascending(g)
      <4>1. ASSUME NEW k \in 1..(n + 2), NEW l \in 1..(n + 2), k < l
            PROVE  t[k][2] < t[l][1]
        <5>1. CASE k = 1 /\ l = 2
          BY <1>4, <1>7, <3>6, <5>1
        <5>2. CASE l # 1 /\ l # 2
          <6>1. l - 2 \in 1..n /\ t[l] = s[l - 2]
            BY <3>7, <5>2
          <6>2. right < s[l - 2][1] /\ s[l - 2][1] \in Int
            BY <3>5, <6>1
          <6>3. CASE k = 1
            BY <1>4, <1>5, <1>6, <1>7, <3>6, <6>1, <6>2, <6>3
          <6>4. CASE k = 2
            BY <1>7, <3>6, <6>1, <6>2, <6>4
          <6>5. CASE k # 1 /\ k # 2
            <7>1. k - 2 \in 1..n /\ t[k] = s[k - 2]
              BY <3>7, <6>5
            <7>2. k - 2 < l - 2
              BY <3>6, <4>1
            <7> QED BY <3>5, <6>1, <7>1, <7>2
          <6> QED BY <6>3, <6>4, <6>5
        <5>3. (k = 1 /\ l = 2) \/ (l # 1 /\ l # 2)
          BY <3>6, <4>1
        <5> QED BY <5>1, <5>2, <5>3
      <4> QED BY <2>2, <3>6, <4>1 DEF Ascending
    <3>9. p \in Live(g) /\ q \in Live(g) /\ Waiting(frame) \subseteq Live(g)
      <4>1. Live(g) = {t[k] : k \in 1..(n + 2)}
        BY <2>2, <3>6 DEF Live, Waiting
      <4>2. 1 \in 1..(n + 2) /\ 2 \in 1..(n + 2) /\ \A k \in 1..n : k + 2 \in 1..(n + 2)
        BY <3>6
      <4>3. Waiting(frame) = {s[k] : k \in 1..n}
        BY DEF Waiting, s, n
      <4> QED BY <3>6, <4>1, <4>2, <4>3
    <3>10. /\ left <= end /\ end <= right /\ right < Len(list) /\ left < Len(list) /\ end < Len(list)
      BY <1>2, <1>4, <1>5, <1>6, <3>3
    <3>11. OrderedBut(by, M, Live(frame))
      <4>1. /\ frame.range[1] = left /\ frame.range[2] = right
        BY DEF left, right
      <4>2. left <= left /\ left <= end /\ end <= right /\ left <= right
        BY <1>5, <1>6
      <4> QED BY <1>2, <1>3, <1>4, <1>5, <3>1, <3>10, <4>1, <4>2, SwapInRange
    <3>12. /\ frame.pivot = list[left + 1]
           /\ \A i \in 1..Len(list) : left + 1 < i /\ i <= end + 1 => Compare(by, list[i], frame.pivot) < 0
           /\ \A i \in 1..Len(list) : end + 1 < i /\ i <= right + 1 => Compare(by, list[i], frame.pivot) >= 0
      BY <1>3, <1>6, <3>1 DEF Partition, left, end, right
    <3>13. Len(M) = Len(list)
      BY <2>1
    <3>14. ASSUME NEW i \in 1..Len(list), NEW j \in 1..Len(list), i < j
           PROVE  Le(by, M[i], M[j]) \/ \E u \in Live(g) : In(u, i) /\ In(u, j)
      <4>1. \/ Le(by, M[i], M[j])
            \/ \E u \in Waiting(frame) : In(u, i) /\ In(u, j)
            \/ In(frame.range, i) /\ In(frame.range, j)
        <5>1. Live(frame) = Waiting(frame) \cup {frame.range}
          BY <1>3 DEF Live
        <5>2. Le(by, M[i], M[j]) \/ \E u \in Live(frame) : In(u, i) /\ In(u, j)
          BY <3>11, <3>13, <3>14 DEF OrderedBut
        <5> QED BY <5>1, <5>2
      <4>2. CASE \E u \in Waiting(frame) : In(u, i) /\ In(u, j)
        BY <3>9, <4>2
      <4>3. CASE In(frame.range, i) /\ In(frame.range, j)
        <5>1. left < i /\ j <= right + 1
          BY <4>3 DEF In, left, right
        <5>2. Le(by, M[i], M[j]) \/ j <= end \/ end + 1 < i
          <6> HIDE DEF M
          <6>1. M = Swapped(list, left, end)
            BY DEF M
          <6> HIDE DEF by
          <6>2. \A n1 \in 1..Len(list) : left + 1 < n1 /\ n1 <= end + 1 => Compare(by, list[n1], list[left + 1]) < 0
            BY <3>12
          <6>3. \A n1 \in 1..Len(list) : end + 1 < n1 /\ n1 <= right + 1 => Compare(by, list[n1], list[left + 1]) >= 0
            BY <3>12
          <6> QED BY <1>2, <1>4, <1>5, <3>2, <3>10, <3>14, <5>1, <6>1, <6>2, <6>3, PartsInOrder
        <5>3. j <= end => In(p, i) /\ In(p, j)
          BY <1>2, <1>4, <1>5, <1>7, <3>14, <5>1 DEF In
        <5>4. end + 1 < i => In(q, i) /\ In(q, j)
          BY <1>2, <1>4, <1>5, <1>7, <3>14, <5>1 DEF In
        <5> QED BY <3>9, <5>2, <5>3, <5>4
      <4> QED BY <4>1, <4>2, <4>3
    <3>15. OrderedBut(by, M, Live(g))
      <4> HIDE DEF M, by
      <4> QED BY <3>13, <3>14 DEF OrderedBut
    <3>16. Partition(g, M)
      BY <2>2 DEF Partition
    <3> QED BY <2>2, <3>1, <3>8, <3>15, <3>16 DEF Sorting
  <2> QED BY <2>1, <2>4, <2>5
<1> QED BY <1>1, <1>9, <1>10

\* A sort() that is over.
LastSort ==
    last.m = "sort" =>
        /\ last.went.edits = 0 => \A x \in Items : Count(list, x) = Count(last.went.before, x)
        /\ (last.how = "returned" /\ last.went.edits = 0 /\ last.went.by \in Consistent) =>
               \A i, j \in DOMAIN list : i < j => Le(last.went.by, list[i], list[j])

LEMMA SortImplies ==
    ASSUME SortSoFar, LastSort
    PROVE  SortMeetsStandard
<1>1. ASSUME NEW f \in {frame} \cup (IF last.m = "sort" THEN {last.went} ELSE {}),
             f.m = "sort", f.edits = 0, NEW x \in Items
      PROVE  Count(list, x) = Count(f.before, x)
  <2>1. CASE f = frame
    BY <1>1, <2>1 DEF SortSoFar, Permuted
  <2>2. CASE last.m = "sort" /\ f = last.went
    BY <1>1, <2>2 DEF LastSort
  <2> QED BY <1>1, <2>1, <2>2
<1>2. ASSUME Returned, last.m = "sort", last.went.edits = 0, last.went.by \in Consistent,
             NEW i \in DOMAIN list, NEW j \in DOMAIN list, i < j
      PROVE  Compare(last.went.by, list[i], list[j]) <= 0
  BY <1>2 DEF LastSort, Returned, Le
<1> QED BY <1>1, <1>2 DEF SortMeetsStandard

\* What concerns no sort().
LEMMA NoSort ==
    ASSUME frame'.m # "sort", last'.m # "sort"
    PROVE  (SortSoFar /\ LastSort)'
  BY DEF SortSoFar, LastSort

LEMMA NotSorts ==
    /\ "sort" \notin Loops /\ "sort" \notin Editors \cup Readers
    /\ Idle.m # "sort" /\ NoCall.m # "sort"
  BY DEF Loops, Iterators, Reducers, Editors, Readers, Idle, NoCall

LEMMA OtherStepsSort ==
    ASSUME Safe,
           \/ InvokeAny \/ Consume \/ StartOver
           \/ \E m \in Loops, given \in BOOLEAN : StartLoop(m, given)
           \/ Visit \/ EndLoop \/ \E r : CallReturns(r)
           \/ (\E r : ReturnsEarly(r)) \/ NestedThrows \/ FlatMapThrows
    PROVE  (SortSoFar /\ LastSort)'
<1>1. CASE InvokeAny
  <2>1. PICK m \in Calls \cap (Editors \cup Readers) : \E args \in Arguments(m) : Invoke(m, args)
    BY <1>1 DEF InvokeAny
  <2>2. frame' = Idle /\ last'.m = m
    BY <2>1 DEF Invoke
  <2> QED BY <2>2, NotSorts, NoSort
<1>2. CASE Consume
  <2>1. frame' = frame /\ last' = NoCall /\ last # NoCall
    BY <1>2 DEF Consume
  <2>2. frame = Idle
    BY <2>1 DEF Safe, LastOK
  <2> QED BY <2>1, <2>2, NotSorts, NoSort
<1>3. CASE StartOver
  BY <1>3, NotSorts, NoSort DEF StartOver
<1>4. CASE \E m \in Loops, given \in BOOLEAN : StartLoop(m, given)
  <2>1. PICK m \in Loops, given \in BOOLEAN : StartLoop(m, given)
    BY <1>4
  <2>2. last = NoCall
    BY <2>1 DEF StartLoop
  <2>3. \A first, skipped : NewLoop(m, first, skipped).m = m
    BY DEF NewLoop
  <2>4. \/ frame' = Idle /\ last'.m = m
        \/ UNCHANGED last /\ frame'.m = m
    BY <2>1, <2>3 DEF StartLoop, Throw, Finish
  <2> QED BY <2>1, <2>2, <2>4, NotSorts, NoSort
<1>5. CASE Visit
  <2>1. frame.m \in Loops /\ UNCHANGED last
    BY <1>5 DEF Visit, InLoop
  <2>2. IsLoop(frame) /\ last = NoCall
    BY <2>1, KindFacts DEF LoopOK
  <2> DEFINE f == [frame EXCEPT !.inside = TRUE]
             nested == [f EXCEPT !.seen = Append(@, Head(f.nest)), !.nest = Tail(@), !.depth = 0]
             next == [f EXCEPT !.seen = Append(@, Reported(f.m, Index(f))), !.k = @ + 1, !.depth = 1]
  <2>3. frame' = nested \/ frame' = Crashed(f) \/ frame' = next
    BY <1>5 DEF Visit
  <2>4. nested.m = frame.m /\ next.m = frame.m /\ Crashed(f).m = "crashed"
    BY <2>2 DEF IsLoop, Crashed
  <2> HIDE DEF nested, next, f
  <2>5. frame'.m \in Loops \cup {"crashed"}
    BY <2>1, <2>3, <2>4
  <2> QED BY <2>1, <2>2, <2>5, NotSorts, NoSort
<1>6. CASE EndLoop
  BY <1>6, NotSorts, NoSort DEF EndLoop, InLoop, Finish
<1>7. CASE \E r : CallReturns(r)
  <2>1. PICK r : CallReturns(r)
    BY <1>7
  <2>2. frame.m \in Loops /\ UNCHANGED last /\ frame' = AfterCall(frame, r)
    BY <2>1 DEF CallReturns, InLoop
  <2>3. IsLoop(frame) /\ last = NoCall
    BY <2>2, KindFacts DEF LoopOK
  <2> QED BY <2>2, <2>3, AfterCallFacts, NotSorts, NoSort
<1>8. CASE (\E r : ReturnsEarly(r)) \/ NestedThrows
  <2>1. frame'.m = "flatMap" /\ last' = NoCall
    BY <1>8, EarlyFacts, NestedThrowsFacts
  <2> QED BY <2>1, NotSorts, NoSort DEF Loops
<1>9. CASE FlatMapThrows
  <2>1. frame.m = "flatMap" /\ InCallback /\ frame' = Idle
        /\ last'.m = [frame EXCEPT !.lost = TRUE].m
    BY <1>9 DEF FlatMapThrows, Finish
  <2>2. IsLoop(frame)
    BY <2>1, KindFacts DEF Loops, LoopOK
  <2>3. last'.m = "flatMap"
    BY <2>1, <2>2 DEF IsLoop
  <2> QED BY <2>1, <2>3, NotSorts, NoSort DEF Loops
<1> QED BY <1>1, <1>2, <1>3, <1>4, <1>5, <1>6, <1>7, <1>8, <1>9

LEMMA EditSort ==
    ASSUME Safe, EditAny
    PROVE  (SortSoFar /\ LastSort)'
<1>1. PICK e \in EditCalls : Edit(e[1], e[2])
  BY DEF EditAny
<1>2. InCallback /\ UNCHANGED last
  BY <1>1 DEF Edit
<1>3. last'.m # "sort"
  BY <1>2, KindFacts, NotSorts
<1> DEFINE g(b) == [frame EXCEPT !.edits = @ + 1, !.shrunk = b]
<1>4. \E b : frame' = [frame EXCEPT !.edits = @ + 1, !.shrunk = b]
  BY <1>1 DEF Edit
<1>5. CASE LoopOK(frame, list)
  <2>1. frame'.m = frame.m /\ frame.m \in Loops
    BY <1>4, <1>5 DEF LoopOK, IsLoop
  <2> QED BY <1>3, <2>1, NotSorts, NoSort
<1>6. CASE SortOK(frame, list)
  <2>1. IsSort(frame)
    BY <1>6 DEF SortOK
  <2>2. frame.edits \in Nat
    BY <2>1, SortTypes
  <2>3. frame'.edits = frame.edits + 1
    BY <1>4, <2>1 DEF IsSort
  <2>4. frame'.edits # 0
    BY <2>2, <2>3
  <2> QED BY <1>3, <2>4 DEF SortSoFar, LastSort
<1> QED BY <1>2, <1>5, <1>6, KindFacts

LEMMA SortOver ==
    ASSUME Safe, SortSoFar, EndSort \/ CallThrows \/ \E by \in Comparators : array_sort(by)
    PROVE  LastSort'
<1>0. list \in Seq(Items) /\ Len(list) \in Nat /\ DOMAIN list = 1..Len(list)
  BY SeqFacts DEF Safe, ListOK
<1>1. CASE EndSort
  <2>1. /\ frame.m = "sort" /\ frame.range = <<>> /\ frame.todo = <<>> /\ list' = list
        /\ last'.went = frame /\ last'.how = "returned" => ~frame.failed
    BY <1>1 DEF EndSort, InSort, Throw, Finish, Unchanged
  <2>2. frame.edits = 0 => Permuted(frame, list) /\ (frame.by \in Consistent => Sorting(frame, list))
    BY <2>1 DEF SortSoFar
  <2>3. ASSUME frame.edits = 0, frame.by \in Consistent, NEW i \in DOMAIN list, NEW j \in DOMAIN list, i < j
        PROVE  Le(frame.by, list[i], list[j])
    <3>1. OrderedBut(frame.by, list, Live(frame))
      BY <2>2, <2>3 DEF Sorting
    <3>2. Live(frame) = {}
      BY <2>1 DEF Live, Waiting
    <3> QED BY <1>0, <2>3, <3>1, <3>2 DEF OrderedBut
  <2>4. last'.went = frame
    BY <1>1 DEF EndSort, Throw, Finish
  <2> QED BY <2>1, <2>2, <2>3, <2>4 DEF LastSort, Permuted
<1>2. CASE CallThrows
  <2>1. last'.m = frame.m /\ last'.how = "thrown" /\ last'.went = frame /\ list' = list
    BY <1>2 DEF CallThrows, Throw, Finish, Unchanged
  <2> QED BY <2>1 DEF SortSoFar, LastSort, Permuted
<1>3. CASE \E by \in Comparators : array_sort(by)
  <2>1. PICK by \in Comparators : array_sort(by)
    BY <1>3
  <2> DEFINE f == [m |-> "sort", by |-> by, before |-> list, todo |-> <<<<0, Len(list) - 1>>>>,
                   range |-> <<>>, pivot |-> None, item |-> None, end |-> 0, k |-> 0,
                   inside |-> FALSE, edits |-> 0, shrunk |-> FALSE, failed |-> FALSE]
  <2>2. /\ list' = list /\ last = NoCall
        /\ UNCHANGED last \/ (Len(list) <= 1 /\ last'.went = f /\ last'.m = "sort")
    <3>1. /\ last = NoCall /\ list' = list
          /\ UNCHANGED last \/ (~(Len(list) > 1) /\ Finish(f, "returned", "self"))
      BY <2>1 DEF array_sort, Unchanged
    <3>2. f.m = "sort"
      OBVIOUS
    <3> HIDE DEF f
    <3>3. Finish(f, "returned", "self") => last'.went = f /\ last'.m = "sort"
      BY <3>2 DEF Finish
    <3> QED BY <1>0, <3>1, <3>3
  <2>3. CASE UNCHANGED last
    BY <2>2, <2>3, NotSorts DEF LastSort
  <2>4. CASE Len(list) <= 1 /\ last'.went = f
    <3>1. f.before = list
      OBVIOUS
    <3>2. \A i, j \in DOMAIN list : ~(i < j)
      BY <1>0, <2>4
    <3> HIDE DEF f
    <3> QED BY <2>2, <2>4, <3>1, <3>2 DEF LastSort
  <2> QED BY <2>2, <2>3, <2>4
<1> QED BY <1>1, <1>2, <1>3

\* Whatever the list holds, and whatever the compare function returns: sort() keeps
\* the items at every moment, and puts them in order when it returns from a
\* consistent compare function, or from none.
THEOREM SortSorts == Spec => []SortMeetsStandard
<1> DEFINE Inv == Safe /\ SortSoFar /\ LastSort
<1>1. Init => Inv
  <2> SUFFICES ASSUME Init PROVE Inv
    OBVIOUS
  <2>1. Safe /\ frame = Idle /\ last = NoCall
    BY InitSafe DEF Init
  <2> QED BY <2>1, NotSorts DEF SortSoFar, LastSort
<1>2. Inv /\ [Next]_vars => Inv'
  <2> SUFFICES ASSUME Safe, SortSoFar, LastSort, [Next]_vars PROVE (SortSoFar /\ LastSort)'
    BY NextSafe
  <2>1. CASE UNCHANGED vars
    BY <2>1 DEF vars, SortSoFar, LastSort, Permuted, Sorting, Partition
  <2>2. CASE Next
    <3>1. \/ InvokeAny \/ Consume \/ StartOver
          \/ \E m \in Loops, given \in BOOLEAN : StartLoop(m, given)
          \/ Visit
          \/ \E r : CallReturns(r)
          \/ EndLoop
          \/ \E by \in Comparators : array_sort(by)
          \/ quickSort \/ invokeCallBack
          \/ \E r \in Verdicts(frame) : CompareReturns(r)
          \/ CompareRefused \/ EndPartition \/ EndSort \/ EditAny \/ CallThrows
          \/ (\E r : ReturnsEarly(r)) \/ NestedThrows \/ FlatMapThrows
      BY <2>2 DEF Next, InvokeAny, EditAny, GiveUp, Restart
    <3>2. CASE EditAny
      BY <3>2, EditSort
    <3>3. CASE \/ InvokeAny \/ Consume \/ StartOver
               \/ \E m \in Loops, given \in BOOLEAN : StartLoop(m, given)
               \/ Visit \/ EndLoop \/ \E r : CallReturns(r)
               \/ (\E r : ReturnsEarly(r)) \/ NestedThrows \/ FlatMapThrows
      BY <3>3, OtherStepsSort
    <3>4. CASE \E by \in Comparators : array_sort(by)
      BY <3>4, SortBegins, SortOver
    <3>5. CASE EndSort \/ CallThrows
      <4>1. frame' = Idle
        BY <3>5 DEF EndSort, CallThrows, Throw, Finish
      <4>2. SortSoFar'
        BY <4>1, NotSorts DEF SortSoFar
      <4> QED BY <3>5, <4>2, SortOver
    <3>6. CASE \/ quickSort \/ invokeCallBack \/ \E r \in Verdicts(frame) : CompareReturns(r)
               \/ CompareRefused \/ EndPartition
      <4>1. SortSoFar'
        BY <3>6, QuickSortSorts, CompareCallSorts, CompareReturnsSorts, CompareRefusedSorts,
           EndPartitionSorts
      <4>2. frame.m = "sort" /\ UNCHANGED last
        BY <3>6 DEF quickSort, invokeCallBack, CompareReturns, CompareRefused, EndPartition, InSort
      <4>3. last' = NoCall
        BY <4>2, KindFacts
      <4>4. LastSort'
        BY <4>3, NotSorts DEF LastSort
      <4> QED BY <4>1, <4>4
    <3> QED BY <3>1, <3>2, <3>3, <3>4, <3>5, <3>6
  <2> QED BY <2>1, <2>2
<1>3. Inv => SortMeetsStandard
  BY SortImplies
<1> QED BY <1>1, <1>2, <1>3, PTL DEF Spec

-----------------------------------------------------------------------------
(* What the methods that call a function make of the answers.              *)

LEMMA AppendFacts ==
    ASSUME NEW S, NEW s \in Seq(S), NEW x \in S
    PROVE  /\ Append(s, x) \in Seq(S) /\ Len(Append(s, x)) = Len(s) + 1
           /\ Append(s, x)[Len(s) + 1] = x
           /\ \A i \in 1..Len(s) : Append(s, x)[i] = s[i]
           /\ DOMAIN Append(s, x) = 1..(Len(s) + 1) /\ Append(s, x) # <<>>
  OBVIOUS

\* The places of the answers TRUE, and the k-th of them.
Trues(rets) == {i \in DOMAIN rets : rets[i] = TRUE}
TrueRank(rets, i) == Cardinality({j \in Trues(rets) : j <= i})
Picked(rets, k) == CHOOSE i \in Trues(rets) : TrueRank(rets, i) = k
Ranked(rets) == \A k \in 1..Cardinality(Trues(rets)) : \E i \in Trues(rets) : TrueRank(rets, i) = k
Filtered(seen, rets) == [k \in 1..Cardinality(Trues(rets)) |-> seen[Picked(rets, k)]]

LEMMA TruesFacts ==
    ASSUME NEW rets \in Seq(BOOLEAN)
    PROVE  /\ IsFiniteSet(Trues(rets)) /\ Cardinality(Trues(rets)) \in Nat
           /\ Trues(rets) \subseteq 1..Len(rets)
           /\ \A i : TrueRank(rets, i) \in Nat /\ TrueRank(rets, i) <= Cardinality(Trues(rets))
<1>1. Len(rets) \in Nat /\ DOMAIN rets = 1..Len(rets)
  BY SeqFacts
<1>2. Trues(rets) \subseteq 1..Len(rets)
  BY <1>1 DEF Trues
<1>3. IsFiniteSet(1..Len(rets))
  BY <1>1, FS_Interval
<1>4. IsFiniteSet(Trues(rets))
  BY <1>2, <1>3, FS_Subset
<1>5. ASSUME NEW i PROVE TrueRank(rets, i) \in Nat /\ TrueRank(rets, i) <= Cardinality(Trues(rets))
  <2> DEFINE T == {j \in Trues(rets) : j <= i}
  <2>1. T \subseteq Trues(rets)
    OBVIOUS
  <2>2. IsFiniteSet(T) /\ Cardinality(T) <= Cardinality(Trues(rets))
    BY <1>4, <2>1, FS_Subset
  <2>3. Cardinality(T) \in Nat
    BY <2>2, FS_CardinalityType
  <2> QED BY <2>2, <2>3 DEF TrueRank
<1>6. Cardinality(Trues(rets)) \in Nat
  BY <1>4, FS_CardinalityType
<1> QED BY <1>2, <1>4, <1>5, <1>6

LEMMA FilterNone ==
    Filtered(<<>>, <<>>) = <<>> /\ Ranked(<<>>)
<1>1. Trues(<<>>) = {}
  BY DEF Trues
<1>2. Cardinality(Trues(<<>>)) = 0
  BY <1>1, FS_EmptySet
<1> QED BY <1>2 DEF Filtered, Ranked

\* Another item was seen: the answers so far choose what they chose.
LEMMA FilterSeen ==
    ASSUME NEW S, NEW seen \in Seq(S), NEW x \in S, NEW rets \in Seq(BOOLEAN),
           Len(rets) <= Len(seen), Ranked(rets)
    PROVE  Filtered(Append(seen, x), rets) = Filtered(seen, rets)
<1>1. ASSUME NEW k \in 1..Cardinality(Trues(rets))
      PROVE  Append(seen, x)[Picked(rets, k)] = seen[Picked(rets, k)]
  <2>1. \E i \in Trues(rets) : TrueRank(rets, i) = k
    BY DEF Ranked
  <2>2. Picked(rets, k) \in Trues(rets)
    BY <2>1 DEF Picked
  <2>3. Len(rets) \in Nat /\ Len(seen) \in Nat
    BY SeqFacts
  <2>4. Picked(rets, k) \in 1..Len(seen)
    BY <2>2, <2>3, TruesFacts
  <2> QED BY <2>4, AppendFacts
<1> QED BY <1>1 DEF Filtered

LEMMA FilterStep ==
    ASSUME NEW S, NEW seen \in Seq(S), NEW rets \in Seq(BOOLEAN), NEW r \in BOOLEAN,
           Len(seen) = Len(rets) + 1, Ranked(rets)
    PROVE  /\ Ranked(Append(rets, r))
           /\ Filtered(seen, Append(rets, r)) =
                IF r THEN Append(Filtered(seen, rets), Last(seen)) ELSE Filtered(seen, rets)
<1> DEFINE t == Append(rets, r)
           n == Len(rets)
           m == n + 1
           C == Trues(rets)
           D == Trues(t)
           c == Cardinality(C)
<1>1. /\ t \in Seq(BOOLEAN) /\ n \in Nat /\ Len(t) = m /\ t[m] = r
      /\ \A i \in 1..n : t[i] = rets[i]
      /\ DOMAIN rets = 1..n /\ DOMAIN t = 1..m
  BY SeqFacts, AppendFacts
<1>2. C \subseteq 1..n /\ IsFiniteSet(C) /\ c \in Nat
  BY TruesFacts
<1> HIDE DEF t, n
<1>3. 1..m = 1..n \cup {m} /\ m \notin 1..n
  BY <1>1
<1>4. CASE ~r
  <2>1. D = C
    BY <1>1, <1>3, <1>4 DEF Trues
  <2>2. \A i : TrueRank(t, i) = TrueRank(rets, i)
    BY <2>1 DEF TrueRank
  <2>3. \A k : Picked(t, k) = Picked(rets, k)
    BY <2>1, <2>2 DEF Picked
  <2>4. Filtered(seen, t) = Filtered(seen, rets)
    BY <2>1, <2>3 DEF Filtered
  <2>5. Ranked(t)
    BY <2>1, <2>2 DEF Ranked
  <2> QED BY <1>4, <2>4, <2>5 DEF t
<1>5. CASE r
  <2>1. D = C \cup {m} /\ m \notin C
    BY <1>1, <1>2, <1>3, <1>5 DEF Trues
  <2>2. Cardinality(D) = c + 1
    BY <1>2, <2>1, FS_AddElement
  <2>3. ASSUME NEW i \in C PROVE TrueRank(t, i) = TrueRank(rets, i) /\ TrueRank(rets, i) <= c
    <3>1. {j \in D : j <= i} = {j \in C : j <= i}
      BY <1>1, <1>2, <2>1, <2>3
    <3>2. TrueRank(rets, i) <= c
      BY TruesFacts
    <3> QED BY <3>1, <3>2 DEF TrueRank
  <2>4. TrueRank(t, m) = c + 1
    <3>1. {j \in D : j <= m} = D
      BY <1>1, <1>2, <2>1
    <3> QED BY <2>2, <3>1 DEF TrueRank
  <2>5. ASSUME NEW k \in 1..c PROVE Picked(t, k) = Picked(rets, k)
    <3>1. k # c + 1
      BY <1>2
    <3>2. \A i : (i \in D /\ TrueRank(t, i) = k) <=> (i \in C /\ TrueRank(rets, i) = k)
      BY <2>1, <2>3, <2>4, <3>1
    <3> QED BY <3>2 DEF Picked
  <2>6. Picked(t, c + 1) = m
    <3>1. \A i \in C : TrueRank(t, i) \in Nat /\ TrueRank(t, i) <= c
      BY <1>1, <2>3, TruesFacts
    <3>2. \A i : (i \in D /\ TrueRank(t, i) = c + 1) <=> i = m
      BY <1>2, <2>1, <2>4, <3>1
    <3> QED BY <3>2 DEF Picked
  <2>7. Ranked(t)
    <3>1. ASSUME NEW k \in 1..(c + 1) PROVE \E i \in D : TrueRank(t, i) = k
      <4>1. CASE k = c + 1
        BY <2>1, <2>4, <4>1
      <4>2. CASE k \in 1..c
        <5>1. PICK i \in C : TrueRank(rets, i) = k
          BY <4>2 DEF Ranked
        <5> QED BY <2>1, <2>3, <5>1
      <4>3. k = c + 1 \/ k \in 1..c
        BY <1>2
      <4> QED BY <4>1, <4>2, <4>3
    <3> QED BY <2>2, <3>1 DEF Ranked
  <2>8. Last(seen) = seen[m]
    BY DEF Last, n
  <2> DEFINE a == Filtered(seen, rets)
             b == Filtered(seen, t)
  <2>9. /\ DOMAIN a = 1..c /\ DOMAIN b = 1..(c + 1)
        /\ \A k \in 1..c : a[k] = seen[Picked(rets, k)]
        /\ \A k \in 1..(c + 1) : b[k] = seen[Picked(t, k)]
    BY <2>2 DEF Filtered
  <2>10. a = [k \in 1..c |-> a[k]] /\ b = [k \in 1..(c + 1) |-> b[k]]
    BY <2>2 DEF Filtered
  <2> DEFINE U == {seen[Picked(rets, k)] : k \in 1..c} \cup {seen[m]}
  <2>11. \A k \in 1..c : a[k] \in U
    BY <2>9
  <2>12. seen[m] \in U
    OBVIOUS
  <2>13. \A k \in 1..(c + 1) : b[k] = IF k = c + 1 THEN seen[m] ELSE a[k]
    <3>1. \A k \in 1..(c + 1) : k = c + 1 \/ k \in 1..c
      BY <1>2
    <3> QED BY <1>2, <2>5, <2>6, <2>9, <3>1
  <2> HIDE DEF a, b, U
  <2>14. a \in Seq(U) /\ Len(a) = c
    BY <1>2, <2>9, <2>10, <2>11, IsSeq
  <2>15. /\ Append(a, seen[m]) \in Seq(U) /\ Len(Append(a, seen[m])) = c + 1
         /\ Append(a, seen[m])[c + 1] = seen[m]
         /\ \A k \in 1..c : Append(a, seen[m])[k] = a[k]
    BY <2>12, <2>14, AppendFacts
  <2>16. \A k \in 1..(c + 1) : b[k] = Append(a, seen[m])[k]
    <3>1. \A k \in 1..(c + 1) : k = c + 1 \/ (k \in 1..c /\ k # c + 1)
      BY <1>2
    <3> QED BY <2>13, <2>15, <3>1
  <2>17. c + 1 \in Nat /\ \A k \in 1..(c + 1) : b[k] \in U
    <3>1. c + 1 \in Nat
      BY <1>2
    <3> DEFINE z == Append(a, seen[m])
    <3>2. z \in Seq(U) /\ Len(z) = c + 1 /\ \A k \in 1..(c + 1) : b[k] = z[k]
      BY <2>15, <2>16
    <3> HIDE DEF z
    <3>3. \A k \in 1..Len(z) : z[k] \in U
      BY <3>2, SeqFacts
    <3> QED BY <3>1, <3>2, <3>3
  <2>18. b \in Seq(U) /\ Len(b) = c + 1
    BY <2>9, <2>10, <2>17, IsSeq
  <2>19. b = Append(a, seen[m])
    BY <2>15, <2>16, <2>18, SeqEqual
  <2> QED BY <1>5, <2>7, <2>8, <2>19 DEF t, a, b
<1> QED BY <1>4, <1>5


\* What a method takes an answer for.
Takes(m) == IF m \in Testers THEN BOOLEAN ELSE Returns(m)

LEMMA TakenFor == \A m : \A r \in Returns(m) : \A v \in Taken(m, r) : v \in Takes(m)
  BY DEF Taken, Takes

\* Unless flatMap() was given a container, or lost a failure, there is one call
\* for each item.
Plain(f) == f.m = "flatMap" => ~f.lost /\ \A i \in DOMAIN f.rets : f.rets[i] \notin Containers

Things == Items \cup Int \cup (Int \X Items)
Searchers == {"some", "every", "find", "findIndex"}
StopsAt(f, n) == f.rets[n] = (f.m # "every")

\* The calls keep step with the items that are seen.
InStep(f) ==
    /\ f.seen \in Seq(Things) /\ f.nest = <<>> /\ f.skipped \in 0..1
    /\ f.m \notin Reducers => f.skipped = 0
    /\ f.m \notin Iterators => f.k <= f.len
    /\ Len(f.seen) = f.k - f.skipped
    /\ Len(f.seen) = IF f.inside THEN Len(f.rets) + 1 ELSE Len(f.rets)

\* What a search has found, with its n-th call.
Find(f, n) == CASE f.m = "some" -> TRUE
                [] f.m = "every" -> FALSE
                [] f.m = "find" -> f.seen[n]
                [] OTHER -> n - 1
SearchSoFar(f) ==
    IF f.result = <<>> THEN \A i \in DOMAIN f.rets : ~StopsAt(f, i)
    ELSE LET n == Len(f.rets)
         IN  /\ n > 0 /\ ~f.inside /\ f.result = <<Find(f, n)>>
             /\ \A i \in 1..n : StopsAt(f, i) <=> i = n

\* Of the holes that flatMap() began with, one is filled with each answer.
HolesLeft(f) == f.rest \in Seq({Undefined}) /\ Len(f.rest) = f.len - Len(f.rets)

\* What a method has made of the answers it had.
MakesSoFar(f) ==
    /\ f.m \in Searchers => SearchSoFar(f)
    /\ f.m \notin Searchers => f.result = <<>>
    /\ f.m = "map" => f.acc = f.rets
    /\ f.m = "flatMap" => f.acc = Spread(f.rets) /\ HolesLeft(f)
    /\ f.m = "filter" => f.acc = Filtered(f.seen, f.rets) /\ Ranked(f.rets)
    /\ f.m \in Reducers => f.acc = LastOr(f.rets, f.initial)

\* What an iterator has reported of the list `s`.
ReportsSoFar(f, s) ==
    /\ f.m = "keys" => \A i \in 1..Len(f.seen) : f.seen[i] = i - 1
    /\ (f.m = "values" /\ f.edits = 0) =>
         f.k <= Len(s) /\ \A i \in 1..Len(f.seen) : f.seen[i] = s[i]

Progress(f, s) ==
    /\ f.rets \in Seq(Takes(f.m))
    /\ Plain(f) => InStep(f) /\ MakesSoFar(f) /\ ReportsSoFar(f, s)

LoopSoFar == frame.m \in Loops => Progress(frame, list)

\* One call has returned: what it changes, and what it leaves.
TakesIn(f, r, g) ==
    /\ g.m = f.m /\ g.k = f.k /\ g.len = f.len /\ g.skipped = f.skipped
    /\ g.initial = f.initial /\ g.seen = f.seen /\ g.edits = f.edits
    /\ g.rets = Append(f.rets, r) /\ g.inside = FALSE /\ g.lost = f.lost
    /\ ~(f.m = "flatMap" /\ r \in Containers) => g.nest = f.nest
    /\ f.m \notin Searchers => g.result = f.result
    /\ f.m = "map" => g.acc = Append(f.acc, r)
    /\ f.m = "flatMap" /\ r \notin Containers =>
         g.acc = f.acc \o <<r>> /\ g.rest = SubSeq(f.rest, 2, Len(f.rest))
    /\ f.m = "filter" => g.acc = IF r THEN Append(f.acc, Last(f.seen)) ELSE f.acc
    /\ f.m \in Reducers => g.acc = r
    /\ f.m = "some" => g.result = IF r THEN <<TRUE>> ELSE f.result
    /\ f.m = "every" => g.result = IF r THEN f.result ELSE <<FALSE>>
    /\ f.m = "find" => g.result = IF r THEN <<Last(f.seen)>> ELSE f.result
    /\ f.m = "findIndex" => g.result = IF r THEN <<f.k - 1>> ELSE f.result

LEMMA AfterCallFields ==
    ASSUME NEW f, IsLoop(f), NEW r
    PROVE  TakesIn(f, r, AfterCall(f, r))
<1> DEFINE e == [f EXCEPT !.inside = FALSE, !.rets = Append(@, r)]
           Same(a) == /\ a.m = f.m /\ a.k = f.k /\ a.len = f.len /\ a.skipped = f.skipped
                      /\ a.initial = f.initial /\ a.seen = f.seen /\ a.edits = f.edits
                      /\ a.rets = Append(f.rets, r) /\ a.inside = FALSE /\ a.lost = f.lost
           Shape(a) == a \in [m : {a.m}, k : {a.k}, len : {a.len}, initial : {a.initial},
                              skipped : {a.skipped}, acc : {a.acc}, seen : {a.seen}, rets : {a.rets},
                              result : {a.result}, nest : {a.nest}, depth : {a.depth},
                              rest : {a.rest}, leaked : {a.leaked}, lost : {a.lost},
                              inside : {a.inside}, edits : {a.edits}, shrunk : {a.shrunk}]
<1>1. Same(e) /\ e.nest = f.nest /\ e.acc = f.acc /\ e.result = f.result /\ e.rest = f.rest
  BY DEF IsLoop
<1>2. Shape(e)
  BY DEF IsLoop
<1>3. f.m \in Loops
  BY DEF IsLoop
<1>4. AfterCall(f, r) = LET h == e IN
        CASE f.m = "forEach" \/ f.m \in Iterators -> array_forEach(h, r)
          [] f.m = "map" -> array_map(h, r)
          [] f.m = "filter" -> array_filter(h, r)
          [] f.m = "reduce" -> array_reduce(h, r)
          [] f.m = "reduceRight" -> array_reduceRight(h, r)
          [] f.m = "some" -> array_some(h, r)
          [] f.m = "every" -> array_every(h, r)
          [] f.m = "find" -> array_find(h, r)
          [] f.m = "findIndex" -> array_findIndex(h, r)
          [] f.m = "flatMap" -> FlattenIntoArrayWithCallBack(h, r)
  BY DEF AfterCall
<1> HIDE DEF e
<1>5. CASE f.m = "forEach" \/ f.m \in Iterators
  <2>1. AfterCall(f, r) = e
    BY <1>4, <1>5 DEF array_forEach, Iterators
  <2> QED BY <1>1, <1>5, <2>1 DEF TakesIn, Iterators, Reducers, Searchers
<1>6. CASE f.m = "map"
  <2>1. AfterCall(f, r) = [e EXCEPT !.acc = Append(@, r)]
    BY <1>4, <1>6 DEF array_map, Iterators
  <2> QED BY <1>1, <1>2, <1>6, <2>1 DEF TakesIn, Reducers, Searchers
<1>7. CASE f.m = "filter"
  <2>1. AfterCall(f, r) = [e EXCEPT !.acc = IF r THEN Append(@, Last(e.seen)) ELSE @]
    BY <1>4, <1>7 DEF array_filter, Iterators
  <2> QED BY <1>1, <1>2, <1>7, <2>1 DEF TakesIn, Reducers, Searchers
<1>8. CASE f.m \in Reducers
  <2>1. AfterCall(f, r) = [e EXCEPT !.acc = r]
    BY <1>4, <1>8 DEF array_reduce, array_reduceRight, Iterators, Reducers
  <2> QED BY <1>1, <1>2, <1>8, <2>1 DEF TakesIn, Reducers, Searchers
<1>9. CASE f.m = "some"
  <2>1. AfterCall(f, r) = [e EXCEPT !.result = IF r THEN <<TRUE>> ELSE @]
    BY <1>4, <1>9 DEF array_some, Iterators
  <2> QED BY <1>1, <1>2, <1>9, <2>1 DEF TakesIn, Reducers, Searchers
<1>10. CASE f.m = "every"
  <2>1. AfterCall(f, r) = [e EXCEPT !.result = IF r THEN @ ELSE <<FALSE>>]
    BY <1>4, <1>10 DEF array_every, Iterators
  <2> QED BY <1>1, <1>2, <1>10, <2>1 DEF TakesIn, Reducers, Searchers
<1>11. CASE f.m = "find"
  <2>1. AfterCall(f, r) = [e EXCEPT !.result = IF r THEN <<Last(e.seen)>> ELSE @]
    BY <1>4, <1>11 DEF array_find, Iterators
  <2> QED BY <1>1, <1>2, <1>11, <2>1 DEF TakesIn, Reducers, Searchers
<1>12. CASE f.m = "findIndex"
  <2>1. AfterCall(f, r) = [e EXCEPT !.result = IF r THEN <<e.k - 1>> ELSE @]
    BY <1>4, <1>12 DEF array_findIndex, Iterators
  <2> QED BY <1>1, <1>2, <1>12, <2>1 DEF TakesIn, Reducers, Searchers
<1>13. CASE f.m = "flatMap"
  <2>1. AfterCall(f, r) = FlattenIntoArrayWithCallBack(e, r)
    BY <1>4, <1>13 DEF Iterators
  <2>2. CASE r \in Containers
    <3>1. \/ AfterCall(f, r) = [e EXCEPT !.nest = Contents[r]]
          \/ \E v, w : AfterCall(f, r) = [e EXCEPT !.acc = v, !.rest = w]
      BY <2>1 DEF FlattenIntoArrayWithCallBack, Store
    <3> QED BY <1>1, <1>2, <1>13, <2>2, <3>1 DEF TakesIn, Reducers, Searchers
  <2>3. CASE r \notin Containers
    <3>1. AfterCall(f, r) = [e EXCEPT !.acc = @ \o <<r>>, !.rest = SubSeq(@, Len(<<r>>) + 1, Len(@))]
      BY <2>1, <2>3 DEF FlattenIntoArrayWithCallBack, Store
    <3>2. Len(<<r>>) + 1 = 2
      OBVIOUS
    <3>3. AfterCall(f, r) = [e EXCEPT !.acc = @ \o <<r>>, !.rest = SubSeq(@, 2, Len(@))]
      BY <3>1, <3>2
    <3> QED BY <1>1, <1>2, <1>13, <2>3, <3>3 DEF TakesIn, Reducers, Searchers
  <2> QED BY <2>2, <2>3
<1> QED BY <1>3, <1>5, <1>6, <1>7, <1>8, <1>9, <1>10, <1>11, <1>12, <1>13
        DEF Loops, Reducers

\* What the program's functions return.
LEMMA ReturnsFacts ==
    /\ \A m \in Searchers \cup {"filter"} : Takes(m) = BOOLEAN
    /\ \A m \in Reducers \cup {"map", "flatMap"} : Takes(m) \subseteq Items
  BY ListAssumption DEF Takes, Returns, Testers, Searchers, Reducers

\* What reaches them.
LEMMA PlainAppend ==
    ASSUME NEW S, NEW f, f.rets \in Seq(S), NEW r \in S, NEW g, g.m = f.m,
           g.lost = f.lost, g.rets = Append(f.rets, r), Plain(g)
    PROVE  Plain(f) /\ ~(f.m = "flatMap" /\ r \in Containers)
<1>1. SUFFICES ASSUME f.m = "flatMap"
               PROVE  (\A i \in DOMAIN f.rets : f.rets[i] \notin Containers) /\ r \notin Containers
  BY DEF Plain
<1>2. Len(f.rets) \in Nat /\ DOMAIN f.rets = 1..Len(f.rets)
  BY SeqFacts
<1>3. /\ DOMAIN g.rets = 1..(Len(f.rets) + 1) /\ g.rets[Len(f.rets) + 1] = r
      /\ \A i \in 1..Len(f.rets) : g.rets[i] = f.rets[i]
  BY AppendFacts
<1>4. \A i \in 1..(Len(f.rets) + 1) : g.rets[i] \notin Containers
  BY <1>1, <1>3 DEF Plain
<1>5. /\ Len(f.rets) + 1 \in 1..(Len(f.rets) + 1)
      /\ \A i \in 1..Len(f.rets) : i \in 1..(Len(f.rets) + 1)
  BY <1>2
<1> QED BY <1>2, <1>3, <1>4, <1>5

LEMMA ReturnInStep ==
    ASSUME NEW f, IsLoop(f), NEW r \in Takes(f.m), f.inside, f.rets \in Seq(Takes(f.m)),
           InStep(f), ~(f.m = "flatMap" /\ r \in Containers)
    PROVE  InStep(AfterCall(f, r))
<1> DEFINE g == AfterCall(f, r)
<1>1. /\ g.m = f.m /\ g.k = f.k /\ g.len = f.len /\ g.skipped = f.skipped /\ g.seen = f.seen
      /\ g.rets = Append(f.rets, r) /\ g.inside = FALSE /\ g.nest = f.nest
  <2>1. TakesIn(f, r, g)
    BY AfterCallFields
  <2> HIDE DEF g
  <2> QED BY <2>1 DEF TakesIn
<1>2. Len(g.rets) = Len(f.rets) + 1 /\ Len(f.rets) \in Nat
  BY <1>1, AppendFacts, SeqFacts
<1> HIDE DEF g
<1>3. Len(g.seen) = Len(g.rets)
  BY <1>1, <1>2 DEF InStep
<1>5. ~g.inside
  BY <1>1
<1>6. InStep(g)
  BY <1>1, <1>3, <1>5 DEF InStep
<1> QED BY <1>6 DEF g

LEMMA ReturnSearch ==
    ASSUME NEW f, IsLoop(f), NEW r \in BOOLEAN, f.inside, f.rets \in Seq(BOOLEAN),
           InStep(f), SearchSoFar(f), f.m \in Searchers
    PROVE  SearchSoFar(AfterCall(f, r))
<1> DEFINE g == AfterCall(f, r)
           n == Len(f.rets)
           t == g.rets
<1>t. TakesIn(f, r, g)
  BY AfterCallFields
<1> HIDE DEF g
<1>1. /\ g.m = f.m /\ g.seen = f.seen /\ g.rets = Append(f.rets, r) /\ g.inside = FALSE
  BY <1>t DEF TakesIn
<1>2. /\ t \in Seq(BOOLEAN) /\ Len(t) = n + 1 /\ t[n + 1] = r /\ DOMAIN t = 1..(n + 1)
      /\ \A i \in 1..n : t[i] = f.rets[i]
  BY <1>1, AppendFacts
<1>3. n \in Nat /\ DOMAIN f.rets = 1..n
  BY SeqFacts
<1>4. f.result = <<>>
  BY DEF SearchSoFar
<1>5. Len(f.seen) = n + 1 /\ f.k = n + 1 /\ f.skipped = 0
  <2>1. f.skipped = 0
    BY DEF InStep, Searchers, Reducers
  <2>2. f.k \in Nat
    BY DEF IsLoop
  <2> QED BY <1>3, <2>1, <2>2 DEF InStep
<1>6. Last(f.seen) = f.seen[n + 1]
  BY <1>5 DEF Last
<1>7. f.k - 1 = n + 1 - 1
  BY <1>5
<1>8. g.result = IF r = (f.m # "every") THEN <<Find(f, n + 1)>> ELSE <<>>
  <2>1. CASE f.m = "some"
    BY <1>4, <2>1, <1>t DEF Find, TakesIn
  <2>2. CASE f.m = "every"
    BY <1>4, <2>2, <1>t DEF Find, TakesIn
  <2>3. CASE f.m = "find"
    BY <1>4, <1>6, <2>3, <1>t DEF Find, TakesIn
  <2>4. CASE f.m = "findIndex"
    BY <1>4, <1>7, <2>4, <1>t DEF Find, TakesIn
  <2> QED BY <2>1, <2>2, <2>3, <2>4 DEF Searchers
<1> HIDE DEF n
<1>9. Find(g, n + 1) = Find(f, n + 1)
  BY <1>1 DEF Find
<1>10. \A i \in 1..n : f.rets[i] = (f.m = "every")
  <2>1. \A i \in 1..n : ~(f.rets[i] = (f.m # "every"))
    BY <1>3, <1>4 DEF SearchSoFar, StopsAt
  <2>2. \A i \in 1..n : f.rets[i] \in BOOLEAN
    BY SeqFacts DEF n
  <2> QED BY <2>1, <2>2
<1>11. \A i \in 1..n : ~StopsAt(g, i)
  BY <1>1, <1>2, <1>10 DEF StopsAt
<1>12. StopsAt(g, n + 1) <=> r = (f.m # "every")
  BY <1>1, <1>2 DEF StopsAt
<1>13. \A i \in 1..(n + 1) : i \in 1..n \/ i = n + 1
  BY <1>3
<1>14. n + 1 \notin 1..n /\ n + 1 > 0
  BY <1>3
<1>15. ASSUME r = (f.m # "every") PROVE SearchSoFar(g)
  <2>1. g.result = <<Find(g, n + 1)>> /\ g.result # <<>>
    BY <1>8, <1>9, <1>15
  <2> QED BY <1>1, <1>2, <1>11, <1>12, <1>13, <1>14, <1>15, <2>1 DEF SearchSoFar
<1>16. ASSUME ~(r = (f.m # "every")) PROVE SearchSoFar(g)
  <2>1. g.result = <<>>
    BY <1>8, <1>16
  <2> QED BY <1>2, <1>11, <1>12, <1>13, <1>16, <2>1 DEF SearchSoFar
<1> QED BY <1>15, <1>16 DEF g

LEMMA ReturnMakes ==
    ASSUME NEW f, IsLoop(f), NEW r \in Takes(f.m), f.inside, f.rets \in Seq(Takes(f.m)),
           InStep(f), MakesSoFar(f), Plain(f), ~(f.m = "flatMap" /\ r \in Containers)
    PROVE  MakesSoFar(AfterCall(f, r))
<1> DEFINE g == AfterCall(f, r)
<1>1. TakesIn(f, r, g)
  BY AfterCallFields
<1>2. f.m \in Searchers => SearchSoFar(g)
  <2> SUFFICES ASSUME f.m \in Searchers PROVE SearchSoFar(g)
    OBVIOUS
  <2>1. Takes(f.m) = BOOLEAN
    BY ReturnsFacts
  <2>2. SearchSoFar(f) /\ f.rets \in Seq(BOOLEAN) /\ r \in BOOLEAN
    BY <2>1 DEF MakesSoFar
  <2> QED BY <2>2, ReturnSearch
<1> HIDE DEF g
<1>3. g.m = f.m /\ g.rets = Append(f.rets, r) /\ g.seen = f.seen /\ g.initial = f.initial
  BY <1>1 DEF TakesIn
<1>4. f.m \notin Searchers => g.result = <<>>
  BY <1>1 DEF TakesIn, MakesSoFar
<1>5. f.m = "map" => g.acc = g.rets
  BY <1>1 DEF TakesIn, MakesSoFar
<1>6. f.m = "flatMap" => g.acc = Spread(g.rets) /\ HolesLeft(g)
  <2> SUFFICES ASSUME f.m = "flatMap" PROVE g.acc = Spread(g.rets) /\ HolesLeft(g)
    OBVIOUS
  <2>1. Takes(f.m) \subseteq Items
    BY ReturnsFacts
  <2>2. f.rets \in Seq(Items) /\ r \in Items
    BY <2>1, SeqMonotonic
  <2>3. /\ g.acc = f.acc \o <<r>> /\ g.rest = SubSeq(f.rest, 2, Len(f.rest)) /\ g.len = f.len
        /\ f.acc = Spread(f.rets) /\ HolesLeft(f)
    BY <1>1 DEF TakesIn, MakesSoFar
  <2>4. Piece(r) = <<r>>
    BY DEF Piece
  <2>5. Spread(f.rets) \in Seq(Items) /\ Spread(g.rets) = Spread(f.rets) \o <<r>>
    BY <1>3, <2>2, <2>4, SpreadFacts
  <2>6. g.acc = Spread(g.rets)
    BY <2>3, <2>5
  <2>7. HolesLeft(g)
    <3> DEFINE n == Len(f.rets)
               t == f.rest
    <3>1. n \in Nat /\ Len(g.rets) = n + 1
      BY <1>3, <2>2, AppendFacts, SeqFacts
    <3>2. t \in Seq({Undefined}) /\ Len(t) = f.len - n /\ g.rest = SubSeq(t, 2, Len(t))
      BY <2>3 DEF HolesLeft
    <3>3. f.len \in Nat /\ f.k \in Nat /\ n + 1 <= f.len
      <4>1. f.len \in Nat /\ f.k \in Nat
        BY DEF IsLoop
      <4>2. f.skipped = 0 /\ f.k <= f.len
        BY DEF InStep, Iterators, Reducers
      <4>3. n + 1 = f.k - 0
        BY <4>2 DEF InStep
      <4> QED BY <3>1, <4>1, <4>2, <4>3
    <3> HIDE DEF n, t
    <3>4. Len(t) \in Nat /\ Len(t) >= 1
      BY <3>1, <3>2, <3>3
    <3>5. SubSeq(t, 2, Len(t)) \in Seq({Undefined}) /\ Len(SubSeq(t, 2, Len(t))) = Len(t) - 1
      BY <3>2, <3>4
    <3>6. Len(t) - 1 = f.len - (n + 1)
      BY <3>1, <3>2, <3>3
    <3> QED BY <2>3, <3>1, <3>2, <3>5, <3>6 DEF HolesLeft
  <2> QED BY <2>6, <2>7
<1>7. f.m = "filter" => g.acc = Filtered(g.seen, g.rets) /\ Ranked(g.rets)
  <2> SUFFICES ASSUME f.m = "filter" PROVE g.acc = Filtered(g.seen, g.rets) /\ Ranked(g.rets)
    OBVIOUS
  <2>1. Takes(f.m) = BOOLEAN
    BY ReturnsFacts
  <2>2. f.rets \in Seq(BOOLEAN) /\ r \in BOOLEAN
    BY <2>1
  <2>3. f.seen \in Seq(Things) /\ Len(f.seen) = Len(f.rets) + 1
    BY DEF InStep
  <2>4. f.acc = Filtered(f.seen, f.rets) /\ Ranked(f.rets)
    BY DEF MakesSoFar
  <2>5. g.acc = IF r THEN Append(f.acc, Last(f.seen)) ELSE f.acc
    BY <1>1 DEF TakesIn
  <2> DEFINE seen == f.seen
             rets == f.rets
  <2>6. /\ seen \in Seq(Things) /\ rets \in Seq(BOOLEAN) /\ Len(seen) = Len(rets) + 1
        /\ Ranked(rets)
    BY <2>2, <2>3, <2>4
  <2> HIDE DEF seen, rets
  <2>7. /\ Ranked(Append(rets, r))
        /\ Filtered(seen, Append(rets, r)) =
             IF r THEN Append(Filtered(seen, rets), Last(seen)) ELSE Filtered(seen, rets)
    BY <2>2, <2>6, FilterStep
  <2> QED BY <1>3, <2>4, <2>5, <2>7 DEF seen, rets
<1>8. f.m \in Reducers => g.acc = LastOr(g.rets, g.initial)
  <2> SUFFICES ASSUME f.m \in Reducers PROVE g.acc = LastOr(g.rets, g.initial)
    OBVIOUS
  <2>1. g.acc = r
    BY <1>1 DEF TakesIn
  <2>2. g.rets # <<>> /\ g.rets[Len(g.rets)] = r
    BY <1>3, AppendFacts
  <2> QED BY <2>1, <2>2 DEF LastOr
<1>9. MakesSoFar(g)
  BY <1>2, <1>3, <1>4, <1>5, <1>6, <1>7, <1>8 DEF MakesSoFar
<1> QED BY <1>9 DEF g

LEMMA ReturnProgress ==
    ASSUME Safe, NEW r \in Takes(frame.m), CallReturns(r), LoopSoFar
    PROVE  LoopSoFar'
<1> DEFINE g == AfterCall(frame, r)
<1>1. /\ frame.m \in Loops /\ frame.inside /\ frame' = g /\ list' = list /\ Progress(frame, list)
  BY DEF CallReturns, InLoop, LoopSoFar
<1>2. IsLoop(frame)
  BY <1>1, KindFacts DEF LoopOK
<1>3. TakesIn(frame, r, g)
  BY <1>2, AfterCallFields
<1>4. ~(frame.m = "flatMap" /\ r \in Containers) /\ Plain(frame)
        => /\ InStep(frame) => InStep(g)
           /\ InStep(frame) /\ MakesSoFar(frame) => MakesSoFar(g)
  BY <1>1, <1>2, ReturnInStep, ReturnMakes DEF Progress
<1> HIDE DEF g
<1>5. /\ g.m = frame.m /\ g.rets = Append(frame.rets, r) /\ g.lost = frame.lost
      /\ g.rets \in Seq(Takes(frame.m))
  BY <1>1, <1>3, AppendFacts DEF TakesIn, Progress
<1>6. ASSUME Plain(g) PROVE InStep(g) /\ MakesSoFar(g) /\ ReportsSoFar(g, list)
  <2>1. frame.rets \in Seq(Takes(frame.m))
    BY <1>1 DEF Progress
  <2>2. Plain(frame) /\ ~(frame.m = "flatMap" /\ r \in Containers)
    BY <1>5, <1>6, <2>1, PlainAppend
  <2>3. InStep(frame) /\ MakesSoFar(frame) /\ ReportsSoFar(frame, list)
    BY <1>1, <2>2 DEF Progress
  <2>4. ReportsSoFar(g, list)
    BY <1>3, <2>3 DEF TakesIn, ReportsSoFar
  <2> QED BY <1>4, <2>2, <2>3, <2>4
<1>7. Progress(g, list)
  BY <1>5, <1>6 DEF Progress
<1> QED BY <1>1, <1>7 DEF LoopSoFar

LEMMA CrashIsNoLoop ==
    \A f : Crashed(f).m \notin Loops
  BY DEF Crashed, Loops, Iterators, Reducers

\* A call begins: another item is seen.
LEMMA VisitProgress ==
    ASSUME Safe, Visit, LoopSoFar
    PROVE  LoopSoFar'
<1> DEFINE f == [frame EXCEPT !.inside = TRUE]
           nested == [f EXCEPT !.seen = Append(@, Head(f.nest)), !.nest = Tail(@), !.depth = 0]
           next == [f EXCEPT !.seen = Append(@, Reported(f.m, Index(f))), !.k = @ + 1, !.depth = 1]
<1>1. /\ frame.m \in Loops /\ ~frame.inside /\ More(frame)
      /\ UNCHANGED <<list, refs, freed, last>> /\ Progress(frame, list)
      /\ frame' = IF f.nest # <<>> THEN nested
                  ELSE IF Index(f) >= Len(list) THEN Crashed(f) ELSE next
  BY DEF Visit, InLoop, LoopSoFar
<1>2. IsLoop(frame)
  BY <1>1, KindFacts DEF LoopOK
<1>3. /\ f.nest = frame.nest /\ f.m = frame.m /\ f.seen = frame.seen /\ f.k = frame.k
      /\ f.len = frame.len
  BY <1>2 DEF IsLoop
<1>4. /\ nested.m = frame.m /\ nested.rets = frame.rets /\ next.m = frame.m
      /\ nested.lost = frame.lost /\ next.lost = frame.lost /\ next.rest = frame.rest
      /\ next.rets = frame.rets /\ next.skipped = frame.skipped /\ next.nest = frame.nest
      /\ next.len = frame.len /\ next.k = frame.k + 1 /\ next.inside = TRUE
      /\ next.result = frame.result /\ next.acc = frame.acc /\ next.initial = frame.initial
      /\ next.edits = frame.edits /\ next.seen = Append(frame.seen, Reported(f.m, Index(f)))
  BY <1>2 DEF IsLoop
<1> DEFINE x == Reported(f.m, Index(f))
           i == Index(f)
<1>5. frame.k \in Nat /\ frame.len \in Nat /\ Len(list) \in Nat /\ list \in Seq(Items)
  BY <1>2, SeqFacts DEF IsLoop, Safe, ListOK
<1>6. i = IF frame.m = "reduceRight" THEN frame.len - 1 - frame.k ELSE frame.k
  BY <1>3 DEF Index
<1>7. x = CASE frame.m = "keys" -> i [] frame.m = "entries" -> <<i, list[i + 1]>>
            [] OTHER -> list[i + 1]
  BY <1>3 DEF Reported
<1>8. frame.nest # <<>> => ~Plain(frame)
  BY <1>1 DEF Progress, InStep
<1>9. CASE frame' = nested /\ frame.nest # <<>>
  <2>1. frame'.m = frame.m /\ frame'.rets = frame.rets /\ frame'.lost = frame.lost
    BY <1>4, <1>9
  <2>2. ~Plain(frame')
    BY <1>8, <1>9, <2>1 DEF Plain
  <2>3. frame'.rets \in Seq(Takes(frame'.m))
    BY <1>1, <2>1 DEF Progress
  <2> QED BY <2>2, <2>3 DEF LoopSoFar, Progress
<1>10. CASE frame' = Crashed(f)
  BY <1>10, CrashIsNoLoop DEF LoopSoFar
<1>11. CASE frame' = next /\ i < Len(list) /\ frame.nest = <<>>
  <2> HIDE DEF f, nested, next, x, i
  <2>1. frame.result = <<>> /\ frame.k < Bound(frame)
    BY <1>1, <1>11 DEF More
  <2>2. frame.m \notin Iterators => frame.k < frame.len
    BY <2>1 DEF Bound
  <2>3. i \in Nat
    <3>1. frame.m = "reduceRight" => frame.m \notin Iterators
      BY DEF Iterators
    <3> QED BY <1>5, <1>6, <2>2, <3>1
  <2>4. i + 1 \in 1..Len(list) /\ list[i + 1] \in Items
    BY <1>5, <1>11, <2>3, SeqFacts
  <2>5. x \in Things
    BY <1>7, <2>3, <2>4 DEF Things
  <2>6. next.rets \in Seq(Takes(next.m))
    BY <1>1, <1>4 DEF Progress
  <2>7. ASSUME Plain(next) PROVE InStep(next) /\ MakesSoFar(next) /\ ReportsSoFar(next, list)
    <3>1. Plain(frame)
      BY <1>4, <2>7 DEF Plain
    <3>2. InStep(frame) /\ MakesSoFar(frame) /\ ReportsSoFar(frame, list)
      BY <1>1, <3>1 DEF Progress
    <3> DEFINE seen == frame.seen
               n == Len(seen)
    <3>3. seen \in Seq(Things) /\ n = Len(frame.rets) /\ n = frame.k - frame.skipped
          /\ frame.skipped \in 0..1
      BY <1>1, <3>2 DEF InStep
    <3>4. next.seen = Append(seen, x)
      BY <1>4 DEF x
    <3> HIDE DEF seen
    <3>5. n \in Nat
      BY <3>3, SeqFacts
    <3>6. /\ next.seen \in Seq(Things) /\ Len(next.seen) = n + 1 /\ next.seen[n + 1] = x
          /\ \A j \in 1..n : next.seen[j] = seen[j]
      BY <2>5, <3>3, <3>4, AppendFacts
    <3> HIDE DEF n
    <3>7. InStep(next)
      <4>1. next.k = frame.k + 1 /\ Len(next.seen) = next.k - next.skipped
        BY <1>4, <1>5, <3>3, <3>5, <3>6
      <4>2. Len(next.seen) = Len(next.rets) + 1 /\ next.inside
        BY <1>4, <3>3, <3>6
      <4>3. next.m \notin Iterators => next.k <= next.len
        BY <1>4, <1>5, <2>2
      <4> QED BY <1>4, <1>11, <3>2, <3>6, <4>1, <4>2, <4>3 DEF InStep
    <3>8. MakesSoFar(next)
      <4>1. frame.m \in Searchers => SearchSoFar(next)
        <5>1. frame.m \in Searchers => SearchSoFar(frame)
          BY <3>2 DEF MakesSoFar
        <5>2. \A j : StopsAt(next, j) = StopsAt(frame, j)
          BY <1>4 DEF StopsAt
        <5>3. next.result = <<>> /\ next.rets = frame.rets
          BY <1>4, <2>1
        <5> QED BY <2>1, <5>1, <5>2, <5>3 DEF SearchSoFar
      <4>2. frame.m = "filter" => next.acc = Filtered(next.seen, next.rets) /\ Ranked(next.rets)
        <5> SUFFICES ASSUME frame.m = "filter"
                     PROVE  next.acc = Filtered(next.seen, next.rets) /\ Ranked(next.rets)
          OBVIOUS
        <5>1. Takes(frame.m) = BOOLEAN
          BY ReturnsFacts
        <5> DEFINE rets == frame.rets
        <5>2. rets \in Seq(BOOLEAN) /\ Ranked(rets) /\ frame.acc = Filtered(seen, rets)
          BY <1>1, <3>2, <5>1 DEF Progress, MakesSoFar, seen
        <5>3. Len(rets) <= Len(seen)
          BY <3>3, <3>5 DEF n
        <5>4. next.rets = rets /\ next.acc = frame.acc
          BY <1>4
        <5> HIDE DEF rets
        <5>5. Filtered(Append(seen, x), rets) = Filtered(seen, rets)
          BY <2>5, <3>3, <5>2, <5>3, FilterSeen
        <5> QED BY <3>4, <5>2, <5>4, <5>5
      <4>3. frame.m = "flatMap" => HolesLeft(next)
        BY <1>4, <3>2 DEF MakesSoFar, HolesLeft
      <4> QED BY <1>4, <3>2, <4>1, <4>2, <4>3 DEF MakesSoFar
    <3>9. ReportsSoFar(next, list)
      <4>1. \A j \in 1..(n + 1) : j \in 1..n \/ j = n + 1
        BY <3>5
      <4>2. frame.m = "keys" => \A j \in 1..(n + 1) : next.seen[j] = j - 1
        <5> SUFFICES ASSUME frame.m = "keys" PROVE \A j \in 1..(n + 1) : next.seen[j] = j - 1
          OBVIOUS
        <5>1. frame.skipped = 0
          BY <3>2 DEF InStep, Reducers
        <5>2. n = frame.k /\ i = frame.k /\ x = i
          BY <1>5, <1>6, <1>7, <3>3, <5>1
        <5>3. x = n + 1 - 1
          BY <3>5, <5>2
        <5>4. \A j \in 1..n : seen[j] = j - 1
          BY <3>2 DEF ReportsSoFar, n, seen
        <5>5. \A j \in 1..n : next.seen[j] = j - 1
          BY <3>6, <5>4
        <5>6. next.seen[n + 1] = n + 1 - 1
          BY <3>6, <5>3
        <5>7. ASSUME NEW j \in 1..(n + 1) PROVE next.seen[j] = j - 1
          <6>1. CASE j \in 1..n
            BY <5>5, <6>1
          <6>2. CASE j = n + 1
            BY <3>5, <5>6, <6>2
          <6> QED BY <4>1, <6>1, <6>2
        <5> QED BY <5>7
      <4>3. (frame.m = "values" /\ frame.edits = 0)
               => next.k <= Len(list) /\ \A j \in 1..(n + 1) : next.seen[j] = list[j]
        <5> SUFFICES ASSUME frame.m = "values", frame.edits = 0
                     PROVE  next.k <= Len(list) /\ \A j \in 1..(n + 1) : next.seen[j] = list[j]
          OBVIOUS
        <5>1. frame.skipped = 0
          BY <3>2 DEF InStep, Reducers
        <5>2. n = frame.k /\ i = frame.k /\ x = list[i + 1]
          BY <1>5, <1>6, <1>7, <3>3, <5>1
        <5>3. next.k <= Len(list)
          BY <1>4, <1>5, <1>11, <5>2
        <5>4. \A j \in 1..n : seen[j] = list[j]
          BY <3>2 DEF ReportsSoFar, n, seen
        <5> QED BY <3>6, <4>1, <5>2, <5>3, <5>4
      <4> QED BY <1>4, <3>6, <4>2, <4>3 DEF ReportsSoFar
    <3> QED BY <3>7, <3>8, <3>9
  <2>8. Progress(next, list)
    BY <2>6, <2>7 DEF Progress
  <2> QED BY <1>1, <1>11, <2>8 DEF LoopSoFar
<1>12. i < Len(list) \/ i >= Len(list)
  BY <1>2, <1>5, <1>6 DEF IsLoop
<1> QED BY <1>1, <1>3, <1>9, <1>10, <1>11, <1>12

\* A call begins anew, or the list changes under it.
LEMMA StartProgress ==
    ASSUME Safe, NEW m \in Loops, NEW given \in BOOLEAN, StartLoop(m, given)
    PROVE  LoopSoFar'
<1> DEFINE new(first, skipped) == NewLoop(m, first, skipped)
<1>1. list \in Seq(Items) /\ Len(list) \in Nat /\ list' = list
  BY SeqFacts DEF Safe, ListOK, StartLoop, Unchanged
<1>2. \/ frame' = Idle
      \/ frame' = NewLoop(m, None, 0) /\ (m \in Reducers => given)
      \/ /\ m \in Reducers /\ list # <<>>
         /\ \E first : frame' = NewLoop(m, first, 1)
  BY DEF StartLoop, Throw, Finish
<1>3. ASSUME NEW first, NEW skipped \in 0..1, skipped <= Len(list), m \notin Reducers => skipped = 0
      PROVE  Progress(NewLoop(m, first, skipped), list)
  <2> DEFINE f == NewLoop(m, first, skipped)
  <2>1. /\ f.m = m /\ f.k = skipped /\ f.len = Len(list) /\ f.initial = first
        /\ f.skipped = skipped /\ f.seen = <<>> /\ f.rets = <<>> /\ f.result = <<>>
        /\ f.nest = <<>> /\ f.inside = FALSE
        /\ f.acc = IF m \in Reducers THEN first ELSE <<>>
        /\ m = "flatMap" => f.rest = NewArray(Len(list))
    BY DEF NewLoop
  <2> HIDE DEF f
  <2>2. \A S : <<>> \in Seq(S)
    OBVIOUS
  <2>3. Len(<<>>) = 0 /\ DOMAIN <<>> = {}
    OBVIOUS
  <2>4. InStep(f)
    <3>1. ~f.inside
      BY <2>1
    <3>2. Len(f.seen) = f.k - f.skipped /\ Len(f.seen) = Len(f.rets)
      BY <1>3, <2>1, <2>3
    <3>3. f.k <= f.len /\ f.skipped \in 0..1 /\ (f.m \notin Reducers => f.skipped = 0)
      BY <1>3, <2>1
    <3> QED BY <2>1, <2>2, <3>1, <3>2, <3>3 DEF InStep
  <2>5. MakesSoFar(f)
    <3>1. m \in Reducers => m \notin {"map", "flatMap", "filter"}
      BY DEF Reducers
    <3>2. SearchSoFar(f)
      BY <2>1, <2>3 DEF SearchSoFar
    <3>3. f.acc = IF m \in Reducers THEN f.initial ELSE <<>>
      BY <2>1
    <3>4. m = "flatMap" => HolesLeft(f)
      <4>1. NewArray(Len(list)) \in Seq({Undefined}) /\ Len(NewArray(Len(list))) = Len(list)
        BY <1>1 DEF NewArray
      <4> QED BY <1>1, <2>1, <2>3, <4>1 DEF HolesLeft
    <3> QED BY <2>1, <3>1, <3>2, <3>3, <3>4, FilterNone, SpreadFacts DEF MakesSoFar, LastOr
  <2>6. ReportsSoFar(f, list)
    <3>1. f.m = "values" => f.k <= Len(list)
      BY <1>3, <2>1
    <3>2. 1..Len(f.seen) = {}
      BY <2>1, <2>3
    <3> QED BY <3>1, <3>2 DEF ReportsSoFar
  <2>7. f.rets \in Seq(Takes(f.m))
    BY <2>1, <2>2
  <2>8. Progress(f, list)
    BY <2>4, <2>5, <2>6, <2>7 DEF Progress
  <2> QED BY <2>8 DEF f
<1>4. frame' = Idle => LoopSoFar'
  BY DEF LoopSoFar, Idle, Loops, Iterators, Reducers
<1>5. CASE frame' = NewLoop(m, None, 0)
  <2>1. Progress(NewLoop(m, None, 0), list)
    BY <1>1, <1>3
  <2> QED BY <1>1, <1>5, <2>1 DEF LoopSoFar
<1>6. CASE m \in Reducers /\ list # <<>> /\ \E first : frame' = NewLoop(m, first, 1)
  <2>1. PICK first : frame' = NewLoop(m, first, 1)
    BY <1>6
  <2>2. Len(list) >= 1
    BY <1>1, <1>6
  <2>3. Progress(NewLoop(m, first, 1), list)
    BY <1>1, <1>3, <1>6, <2>2
  <2> QED BY <1>1, <2>1, <2>3 DEF LoopSoFar
<1> QED BY <1>2, <1>4, <1>5, <1>6

LEMMA EditProgress ==
    ASSUME Safe, EditAny, LoopSoFar
    PROVE  LoopSoFar'
<1>1. PICK e \in EditCalls : Edit(e[1], e[2])
  BY DEF EditAny
<1>2. InCallback
  BY <1>1 DEF Edit
<1>3. \E b : frame' = [frame EXCEPT !.edits = @ + 1, !.shrunk = b]
  BY <1>1 DEF Edit
<1>4. CASE LoopOK(frame, list)
  <2>1. IsLoop(frame)
    BY <1>4 DEF LoopOK
  <2>2. frame.m \in Loops /\ frame.edits \in Nat
    BY <2>1 DEF IsLoop
  <2>3. Progress(frame, list)
    BY <2>2 DEF LoopSoFar
  <2> DEFINE g == frame'
  <2>4. /\ g.m = frame.m /\ g.k = frame.k /\ g.len = frame.len /\ g.skipped = frame.skipped
        /\ g.initial = frame.initial /\ g.seen = frame.seen /\ g.rets = frame.rets
        /\ g.inside = frame.inside /\ g.nest = frame.nest /\ g.result = frame.result
        /\ g.acc = frame.acc /\ g.edits = frame.edits + 1
        /\ g.rest = frame.rest /\ g.lost = frame.lost
    BY <1>3, <2>1 DEF IsLoop
  <2>5. g.edits # 0
    BY <2>2, <2>4
  <2> HIDE DEF g
  <2>6. Plain(g) <=> Plain(frame)
    BY <2>4 DEF Plain
  <2>7. InStep(frame) => InStep(g)
    BY <2>4 DEF InStep
  <2>8. MakesSoFar(frame) => MakesSoFar(g)
    <3>1. SearchSoFar(frame) => SearchSoFar(g)
      <4>1. \A i : StopsAt(g, i) = StopsAt(frame, i) /\ Find(g, i) = Find(frame, i)
        BY <2>4 DEF StopsAt, Find
      <4> QED BY <2>4, <4>1 DEF SearchSoFar
    <3>2. HolesLeft(frame) => HolesLeft(g)
      BY <2>4 DEF HolesLeft
    <3> QED BY <2>4, <3>1, <3>2 DEF MakesSoFar
  <2>9. ReportsSoFar(frame, list) => \A s : ReportsSoFar(g, s)
    BY <2>4, <2>5 DEF ReportsSoFar
  <2>10. \A s : Progress(g, s)
    BY <2>3, <2>4, <2>6, <2>7, <2>8, <2>9 DEF Progress
  <2> QED BY <2>10 DEF LoopSoFar, g
<1>5. CASE SortOK(frame, list)
  <2>1. frame'.m = "sort"
    BY <1>3, <1>5 DEF SortOK, IsSort
  <2> QED BY <2>1, NotSorts DEF LoopSoFar
<1> QED BY <1>2, <1>4, <1>5, KindFacts

\* The call is over.  What it made of the answers is what ECMAScript asks for.
SearchOver(f) == f.result # <<>> \/ Len(f.rets) = f.len - f.skipped

LEMMA SearchOutcome ==
    ASSUME NEW f, f.m \in Searchers, f.rets \in Seq(BOOLEAN), SearchSoFar(f), SearchOver(f)
    PROVE  /\ (IF f.result # <<>> THEN f.result[1] ELSE AtEnd(f))
                = Outcome(f.m, f.seen, f.rets, f.initial)
           /\ Len(f.rets) = CallsDue(f.m, f.rets, f.len - f.skipped)
<1> DEFINE n == Len(f.rets)
           C == Chosen(f.seen, f.rets)
           D == DOMAIN f.rets \ C
           stop == IF f.m = "every" THEN D ELSE C
<1>1. n \in Nat /\ DOMAIN f.rets = 1..n /\ \A i \in 1..n : f.rets[i] \in BOOLEAN
  BY SeqFacts
<1>2. C = {i \in 1..n : f.rets[i] = TRUE} /\ Chosen(f.rets, f.rets) = C
  BY <1>1 DEF Chosen
<1>3. \A i \in 1..n : i \in stop <=> StopsAt(f, i)
  BY <1>1, <1>2 DEF StopsAt
<1>4. stop \subseteq 1..n
  BY <1>1, <1>2
<1>5. CallsDue(f.m, f.rets, f.len - f.skipped) = IF stop = {} THEN f.len - f.skipped ELSE Min(stop)
  BY <1>2 DEF CallsDue, Searchers
<1>6. CASE f.result = <<>>
  <2>1. stop = {}
    BY <1>1, <1>3, <1>4, <1>6 DEF SearchSoFar
  <2>2. Len(f.rets) = f.len - f.skipped
    BY <1>6 DEF SearchOver
  <2>3. f.m # "every" => C = {}
    BY <2>1
  <2>4. f.m = "every" => C = DOMAIN f.rets
    BY <1>1, <1>2, <2>1
  <2>5. AtEnd(f) = Outcome(f.m, f.seen, f.rets, f.initial)
    BY <2>3, <2>4 DEF AtEnd, Outcome, Searchers, Reducers
  <2> QED BY <1>5, <1>6, <2>1, <2>2, <2>5
<1>7. CASE f.result # <<>>
  <2>1. /\ n > 0 /\ f.result = <<Find(f, n)>>
        /\ \A i \in 1..n : StopsAt(f, i) <=> i = n
    BY <1>7 DEF SearchSoFar
  <2>2. n \in 1..n
    BY <1>1, <2>1
  <2>3. stop = {n}
    BY <1>3, <1>4, <2>1, <2>2
  <2>4. Min({n}) = n
    <3> DEFINE T == {n}
    <3>1. T \subseteq Nat /\ T # {} /\ \A x \in T : x = n
      BY <1>1
    <3> HIDE DEF T
    <3>2. Min(T) = n
      BY <3>1, MinFacts
    <3> QED BY <3>2 DEF T
  <2>5. f.result[1] = Find(f, n)
    BY <2>1
  <2>6. f.m # "every" => C = {n} /\ C # {} /\ Min(C) = n
    BY <2>3, <2>4
  <2>7. f.m = "every" => C # DOMAIN f.rets
    BY <1>1, <2>2, <2>3
  <2>8. Find(f, n) = Outcome(f.m, f.seen, f.rets, f.initial)
    <3> HIDE DEF C, D, stop, n
    <3>1. CASE f.m = "some"
      BY <2>6, <3>1 DEF Find, Outcome, C
    <3>2. CASE f.m = "every"
      BY <2>7, <3>2 DEF Find, Outcome, C
    <3>3. CASE f.m = "find"
      BY <2>6, <3>3 DEF Find, Outcome, C
    <3>4. CASE f.m = "findIndex"
      BY <2>6, <3>4 DEF Find, Outcome, C
    <3> QED BY <3>1, <3>2, <3>3, <3>4 DEF Searchers
  <2> QED BY <1>5, <1>7, <2>3, <2>4, <2>5, <2>8
<1> QED BY <1>6, <1>7

LEMMA OtherOutcome ==
    ASSUME NEW f, f.m \in Loops \ (Searchers \cup Iterators), MakesSoFar(f), Plain(f),
           f.m = "flatMap" => f.rets \in Seq(Items) /\ Len(f.rets) = f.len
    PROVE  /\ f.result = <<>>
           /\ AtEnd(f) = Outcome(f.m, f.seen, f.rets, f.initial)
           /\ \A n : CallsDue(f.m, f.rets, n) = n
<1>1. f.m \in {"forEach", "map", "filter", "flatMap", "reduce", "reduceRight"}
  BY DEF Loops, Searchers, Iterators, Reducers
<1>2. f.result = <<>>
  BY DEF MakesSoFar
<1>3. \A n : CallsDue(f.m, f.rets, n) = n
  BY <1>1 DEF CallsDue
<1>4. ASSUME f.m = "forEach" PROVE AtEnd(f) = Outcome(f.m, f.seen, f.rets, f.initial)
  BY <1>4 DEF AtEnd, Outcome, Reducers
<1>5. ASSUME f.m = "map" PROVE AtEnd(f) = Outcome(f.m, f.seen, f.rets, f.initial)
  BY <1>5 DEF AtEnd, Outcome, Reducers, MakesSoFar
<1>6. ASSUME f.m = "flatMap" PROVE AtEnd(f) = Outcome(f.m, f.seen, f.rets, f.initial)
  <2>1. AtEnd(f) = f.acc \o f.rest /\ Outcome(f.m, f.seen, f.rets, f.initial) = Spread(f.rets)
    BY <1>6 DEF AtEnd, Outcome, Reducers
  <2>2. f.acc = Spread(f.rets) /\ Spread(f.rets) \in Seq(Items)
    BY <1>6, SpreadFacts DEF MakesSoFar
  <2> DEFINE n == Len(f.rets)
             t == f.rest
  <2>3. n \in Nat /\ t \in Seq({Undefined}) /\ Len(t) = n - n
    BY <1>6, SeqFacts DEF MakesSoFar, HolesLeft
  <2> HIDE DEF n, t
  <2>4. t = <<>>
    BY <2>3
  <2> DEFINE s == Spread(f.rets)
  <2>5. s \in Seq(Items)
    BY <2>2
  <2> HIDE DEF s
  <2>6. s \o <<>> = s
    BY <2>5
  <2> QED BY <2>1, <2>2, <2>4, <2>6 DEF s, t
<1>7. ASSUME f.m = "filter" PROVE AtEnd(f) = Outcome(f.m, f.seen, f.rets, f.initial)
  BY <1>7 DEF AtEnd, Outcome, Reducers, MakesSoFar, Filtered, Picked, TrueRank, Trues, Chosen
<1>8. ASSUME f.m \in Reducers PROVE AtEnd(f) = Outcome(f.m, f.seen, f.rets, f.initial)
  BY <1>8 DEF AtEnd, Outcome, Reducers, MakesSoFar
<1> QED BY <1>1, <1>2, <1>3, <1>4, <1>5, <1>6, <1>7, <1>8 DEF Reducers

\* What CallbacksMeetStandard says of a call `f` on the list `s` with the result `ret`.
MetBy(f, s, ret) ==
    IF f.m \in Iterators
    THEN /\ Len(f.seen) >= Len(s)
         /\ f.m = "keys" => \A i \in DOMAIN f.seen : f.seen[i] = i - 1
         /\ (f.m = "values" /\ f.edits = 0) => f.seen = s
    ELSE Plain(f) => /\ ret = Outcome(f.m, f.seen, f.rets, f.initial)
                     /\ Len(f.rets) = CallsDue(f.m, f.rets, f.len - f.skipped)

LEMMA EndLoopMeets ==
    ASSUME Safe, EndLoop, LoopSoFar
    PROVE  CallbacksMeetStandard'
<1> DEFINE f == frame
           ret == IF f.result # <<>> THEN f.result[1] ELSE AtEnd(f)
<1>1. /\ f.m \in Loops /\ ~f.inside /\ ~More(f) /\ list' = list /\ Progress(f, list)
      /\ last' = [m |-> f.m, how |-> "returned", ret |-> ret, out |-> <<>>, went |-> f]
  BY DEF EndLoop, InLoop, Finish, Unchanged, LoopSoFar
<1>2. IsLoop(f)
  BY <1>1, KindFacts DEF LoopOK
<1>3. last'.m = f.m /\ last'.went = f /\ last'.ret = ret
  BY <1>1
<1>4. f.k \in Nat /\ f.len \in Nat /\ list \in Seq(Items) /\ Len(list) \in Nat
  BY <1>2, SeqFacts DEF IsLoop, Safe, ListOK
<1> HIDE DEF f
<1>5. f.rets \in Seq(Takes(f.m)) /\ Len(f.rets) \in Nat
  BY <1>1, SeqFacts DEF Progress
<1>6. ASSUME f.m \in Iterators PROVE MetBy(f, list, ret)
  <2>1. f.m # "flatMap" /\ f.m \notin Reducers /\ f.m \notin Searchers
    BY <1>6 DEF Iterators, Reducers, Searchers
  <2>2. InStep(f) /\ MakesSoFar(f) /\ ReportsSoFar(f, list)
    BY <1>1, <2>1 DEF Progress, Plain
  <2>3. f.nest = <<>> /\ f.result = <<>> /\ f.skipped = 0 /\ f.seen \in Seq(Things)
    BY <2>1, <2>2 DEF InStep, MakesSoFar
  <2>4. ~(f.k < Len(list))
    BY <1>1, <1>6, <2>3 DEF More, Bound
  <2>5. Len(f.seen) = f.k
    BY <1>4, <2>2, <2>3 DEF InStep
  <2>6. Len(f.seen) >= Len(list)
    BY <1>4, <2>4, <2>5
  <2>7. f.m = "keys" => \A i \in DOMAIN f.seen : f.seen[i] = i - 1
    BY <2>2, <2>3, SeqFacts DEF ReportsSoFar
  <2>8. (f.m = "values" /\ f.edits = 0) => f.seen = list
    <3> SUFFICES ASSUME f.m = "values", f.edits = 0 PROVE f.seen = list
      OBVIOUS
    <3>1. Len(f.seen) = Len(list) /\ \A i \in 1..Len(f.seen) : f.seen[i] = list[i]
      BY <1>4, <2>2, <2>5, <2>6 DEF ReportsSoFar
    <3>2. list \in Seq(Things)
      BY <1>4, SeqMonotonic DEF Things
    <3> DEFINE t == f.seen
    <3>3. t \in Seq(Things) /\ Len(t) = Len(list) /\ \A i \in 1..Len(t) : t[i] = list[i]
      BY <2>3, <3>1
    <3> HIDE DEF t
    <3>4. t = list
      BY <3>2, <3>3, SeqEqual
    <3> QED BY <3>4 DEF t
  <2> QED BY <1>6, <2>6, <2>7, <2>8 DEF MetBy
<1>7. ASSUME f.m \notin Iterators, Plain(f) PROVE MetBy(f, list, ret)
  <2>1. InStep(f) /\ MakesSoFar(f)
    BY <1>1, <1>7 DEF Progress
  <2>2. f.result = <<>> => Len(f.rets) = f.len - f.skipped
    <3> SUFFICES ASSUME f.result = <<>> PROVE Len(f.rets) = f.len - f.skipped
      OBVIOUS
    <3>1. ~(f.k < f.len) /\ f.k <= f.len
      BY <1>1, <1>7, <2>1 DEF More, Bound, InStep
    <3>2. f.k = f.len
      BY <1>4, <3>1
    <3> QED BY <1>1, <2>1, <3>2 DEF InStep
  <2>3. CASE f.m \in Searchers
    <3>1. Takes(f.m) = BOOLEAN
      BY <2>3, ReturnsFacts
    <3>2. SearchOver(f) /\ SearchSoFar(f) /\ f.rets \in Seq(BOOLEAN)
      BY <1>5, <2>1, <2>2, <2>3, <3>1 DEF SearchOver, MakesSoFar
    <3> QED BY <2>3, <3>2, SearchOutcome, <1>7 DEF MetBy
  <2>4. CASE f.m \notin Searchers
    <3>1. f.m \in Loops \ (Searchers \cup Iterators)
      BY <1>1, <1>7, <2>4
    <3>2. f.m = "flatMap" => f.rets \in Seq(Items) /\ Len(f.rets) = f.len
      <4> SUFFICES ASSUME f.m = "flatMap" PROVE f.rets \in Seq(Items) /\ Len(f.rets) = f.len
        OBVIOUS
      <4>1. Takes(f.m) \subseteq Items
        BY ReturnsFacts
      <4>2. f.skipped = 0
        BY <2>1 DEF InStep, Reducers
      <4>3. f.result = <<>>
        BY <2>1, <2>4 DEF MakesSoFar
      <4> QED BY <1>4, <1>5, <2>2, <4>1, <4>2, <4>3, SeqMonotonic
    <3>3. /\ f.result = <<>> /\ AtEnd(f) = Outcome(f.m, f.seen, f.rets, f.initial)
          /\ \A n : CallsDue(f.m, f.rets, n) = n
      BY <1>7, <2>1, <3>1, <3>2, OtherOutcome
    <3> QED BY <1>7, <2>2, <3>3 DEF MetBy
  <2> QED BY <2>3, <2>4
<1>8. MetBy(f, list, ret)
  BY <1>6, <1>7 DEF MetBy
<1> HIDE DEF ret
<1>9. MetBy(last'.went, list', last'.ret)
  BY <1>1, <1>3, <1>8
<1> QED BY <1>9 DEF CallbacksMeetStandard, MetBy, Plain

LEMMA NoLoops ==
    /\ "sort" \notin Loops /\ (Editors \cup Readers) \cap (Loops \cup {"sort"}) = {}
    /\ Idle.m \notin Loops /\ NoCall.m \notin Loops \cup {"sort"}
  BY DEF Loops, Iterators, Reducers, Editors, Readers, Idle, NoCall

\* The last call was none of these methods, or one that threw.
Silent == last.m \in Loops => last.how # "returned"

LEMMA SilentMeets == Silent => CallbacksMeetStandard
<1> SUFFICES ASSUME Silent PROVE ~(Returned /\ last.m # "sort")
  BY DEF CallbacksMeetStandard
<1> QED BY DEF Silent, Returned

LEMMA SilentSteps ==
    ASSUME Safe,
           \/ InvokeAny \/ Consume \/ StartOver
           \/ \E m \in Loops, given \in BOOLEAN : StartLoop(m, given)
           \/ Visit \/ \E r : CallReturns(r)
           \/ \E by \in Comparators : array_sort(by)
           \/ quickSort \/ invokeCallBack \/ \E r : CompareReturns(r)
           \/ CompareRefused \/ EndPartition \/ EndSort \/ EditAny \/ CallThrows
           \/ (\E r : ReturnsEarly(r)) \/ NestedThrows
    PROVE  Silent'
<1>1. CASE InvokeAny
  <2>1. PICK m \in Calls \cap (Editors \cup Readers) : \E args \in Arguments(m) : Invoke(m, args)
    BY <1>1 DEF InvokeAny
  <2>2. last'.m = m
    BY <2>1 DEF Invoke
  <2> QED BY <2>1, <2>2, NoLoops DEF Silent
<1>2. CASE Consume \/ StartOver
  BY <1>2, NoLoops DEF Consume, StartOver, Silent
<1>3. CASE \E m \in Loops, given \in BOOLEAN : StartLoop(m, given)
  <2>1. last' = NoCall \/ last'.how = "thrown"
    BY <1>3 DEF StartLoop, Throw, Finish
  <2> QED BY <2>1, NoLoops DEF Silent
<1>4. CASE Visit \/ \E r : CallReturns(r)
  <2>1. frame.m \in Loops /\ last' = last
    BY <1>4 DEF Visit, CallReturns, InLoop
  <2> QED BY <2>1, KindFacts, NoLoops DEF Silent
<1>5. CASE \E by \in Comparators : array_sort(by)
  <2>1. last' = NoCall \/ last'.m = "sort"
    BY <1>5 DEF array_sort, Finish
  <2> QED BY <2>1, NoLoops DEF Silent
<1>6. CASE \/ quickSort \/ invokeCallBack \/ \E r : CompareReturns(r)
           \/ CompareRefused \/ EndPartition
  <2>1. frame.m = "sort" /\ last' = last
    BY <1>6 DEF quickSort, invokeCallBack, CompareReturns, CompareRefused, EndPartition, InSort
  <2> QED BY <2>1, KindFacts, NoLoops DEF Silent
<1>7. CASE EndSort
  <2>1. last'.m = "sort"
    BY <1>7 DEF EndSort, InSort, Throw, Finish
  <2> QED BY <2>1, NoLoops DEF Silent
<1>8. CASE EditAny
  <2>1. InCallback /\ last' = last
    BY <1>8 DEF EditAny, Edit
  <2> QED BY <2>1, KindFacts, NoLoops DEF Silent
<1>9. CASE CallThrows
  <2>1. last'.how = "thrown"
    BY <1>9 DEF CallThrows, Throw, Finish
  <2> QED BY <2>1 DEF Silent
<1>10. CASE (\E r : ReturnsEarly(r)) \/ NestedThrows
  <2>1. frame.m \in Loops /\ last' = last
    BY <1>10 DEF ReturnsEarly, NestedThrows, Nested, InLoop, Loops
  <2> QED BY <2>1, KindFacts, NoLoops DEF Silent
<1> QED BY <1>1, <1>2, <1>3, <1>4, <1>5, <1>6, <1>7, <1>8, <1>9, <1>10

\* A step after which flatMap() is not plain any more.
LEMMA UnplainSteps ==
    ASSUME Safe, LoopSoFar, (\E r \in Returns(frame.m) : ReturnsEarly(r)) \/ NestedThrows
    PROVE  LoopSoFar'
<1>1. frame.m = "flatMap" /\ frame.m \in Loops /\ IsLoop(frame)
  <2>1. frame.m = "flatMap"
    BY DEF ReturnsEarly, NestedThrows, Nested
  <2>2. frame.m \in Loops
    BY <2>1 DEF Loops
  <2> QED BY <2>1, <2>2, KindFacts DEF LoopOK
<1>2. frame.rets \in Seq(Takes("flatMap"))
  BY <1>1 DEF LoopSoFar, Progress
<1>3. CASE \E r \in Returns(frame.m) : ReturnsEarly(r)
  <2>1. PICK r \in Returns("flatMap") : ReturnsEarly(r)
    BY <1>1, <1>3
  <2>2. r \in Takes("flatMap") /\ r \in Containers
    BY <2>1 DEF Takes, Testers, ReturnsEarly
  <2>3. \E v, w, z : frame' = [frame EXCEPT !.acc = v, !.rest = w, !.rets = Append(@, r), !.nest = <<>>,
                                           !.leaked = z, !.inside = FALSE]
    BY <1>1, <2>1 DEF ReturnsEarly, Store, IsLoop
  <2>4. frame'.m = "flatMap" /\ frame'.rets = Append(frame.rets, r)
    BY <1>1, <2>3 DEF IsLoop
  <2> DEFINE t == frame'.rets
             n == Len(frame.rets) + 1
  <2>5. t \in Seq(Takes("flatMap")) /\ n \in DOMAIN t /\ t[n] = r
    <3>1. n \in 1..n
      BY <1>2, SeqFacts
    <3> QED BY <1>2, <2>2, <2>4, <3>1, AppendFacts
  <2>6. ~Plain(frame')
    BY <2>2, <2>4, <2>5 DEF Plain
  <2> QED BY <2>4, <2>5, <2>6 DEF LoopSoFar, Progress
<1>4. CASE NestedThrows
  <2>1. frame'.m = "flatMap" /\ frame'.rets = frame.rets /\ frame'.lost = TRUE
    BY <1>1, <1>4 DEF NestedThrows, IsLoop
  <2>2. ~Plain(frame')
    BY <2>1 DEF Plain
  <2> QED BY <1>2, <2>1, <2>2 DEF LoopSoFar, Progress
<1> QED BY <1>3, <1>4

\* A failure that flatMap() ignores: it returns, but not what the calls made.
LEMMA FlatMapThrowsMeets ==
    ASSUME Safe, FlatMapThrows
    PROVE  CallbacksMeetStandard'
<1>1. frame.m = "flatMap" /\ frame.m \in Loops /\ IsLoop(frame)
  <2>1. frame.m = "flatMap"
    BY DEF FlatMapThrows
  <2>2. frame.m \in Loops
    BY <2>1 DEF Loops
  <2> QED BY <2>1, <2>2, KindFacts DEF LoopOK
<1>2. last'.went = [frame EXCEPT !.lost = TRUE]
  BY DEF FlatMapThrows, Finish
<1>3. last'.went.m = "flatMap" /\ last'.went.lost = TRUE
  BY <1>1, <1>2 DEF IsLoop
<1>4. "flatMap" \notin Iterators
  BY DEF Iterators
<1> QED BY <1>3, <1>4 DEF CallbacksMeetStandard

\* A step that ends a frame, or works on one that is no loop.
LEMMA OtherStepsLoop ==
    ASSUME Safe,
           \/ InvokeAny \/ Consume \/ StartOver \/ EndLoop
           \/ \E by \in Comparators : array_sort(by)
           \/ quickSort \/ invokeCallBack \/ \E r : CompareReturns(r)
           \/ CompareRefused \/ EndPartition \/ EndSort \/ CallThrows \/ FlatMapThrows,
           LoopSoFar
    PROVE  LoopSoFar'
<1>1. CASE InvokeAny \/ StartOver \/ EndLoop \/ EndSort \/ CallThrows \/ FlatMapThrows
  <2>1. frame' = Idle
    BY <1>1 DEF InvokeAny, Invoke, StartOver, EndLoop, EndSort, CallThrows, FlatMapThrows, Throw, Finish
  <2> QED BY <2>1, NoLoops DEF LoopSoFar
<1>2. CASE Consume
  <2>1. frame' = frame /\ list' = list
    BY <1>2 DEF Consume
  <2> QED BY <2>1 DEF LoopSoFar
<1>3. CASE \E by \in Comparators : array_sort(by)
  <2>1. frame' = Idle \/ frame'.m = "sort"
    BY <1>3 DEF array_sort, Finish
  <2> QED BY <2>1, NoLoops DEF LoopSoFar
<1>4. CASE \/ quickSort \/ invokeCallBack \/ \E r : CompareReturns(r)
           \/ CompareRefused \/ EndPartition
  <2>1. IsSort(frame)
    BY <1>4, KindFacts DEF quickSort, invokeCallBack, CompareReturns, CompareRefused,
       EndPartition, InSort, SortOK
  <2>2. frame.m = "sort"
    BY <2>1 DEF IsSort
  <2>3. frame'.m = "sort" \/ frame' = Crashed(frame)
    <3>1. CASE quickSort
      BY <2>1, <3>1 DEF quickSort, IsSort
    <3>2. CASE invokeCallBack
      BY <2>1, <3>2 DEF invokeCallBack, IsSort
    <3>3. CASE \E r : CompareReturns(r)
      BY <2>1, <3>3 DEF CompareReturns, IsSort
    <3>4. CASE CompareRefused
      BY <2>1, <3>4 DEF CompareRefused, IsSort
    <3>5. CASE EndPartition
      BY <2>1, <3>5 DEF EndPartition, IsSort
    <3> QED BY <1>4, <3>1, <3>2, <3>3, <3>4, <3>5
  <2> QED BY <2>3, NoLoops, CrashIsNoLoop DEF LoopSoFar
<1> QED BY <1>1, <1>2, <1>3, <1>4

\* Whatever the list holds, whatever the functions return and do to the list: every
\* method that calls a function calls it as often as it must, and makes of what the
\* calls saw and of what it took their answers for what ECMAScript asks for, but for
\* a flatMap() whose function returned a container or threw.
THEOREM CallbacksAsPromised == Spec => []CallbacksMeetStandard
<1> DEFINE Inv == Safe /\ LoopSoFar /\ CallbacksMeetStandard
<1>1. Init => Inv
  <2> SUFFICES ASSUME Init PROVE Inv
    OBVIOUS
  <2>1. Safe /\ frame = Idle /\ last = NoCall
    BY InitSafe DEF Init
  <2>2. LoopSoFar /\ Silent
    BY <2>1, NoLoops DEF LoopSoFar, Silent
  <2> QED BY <2>1, <2>2, SilentMeets
<1>2. Inv /\ [Next]_vars => Inv'
  <2> SUFFICES ASSUME Safe, LoopSoFar, CallbacksMeetStandard, [Next]_vars
               PROVE  LoopSoFar' /\ CallbacksMeetStandard'
    BY NextSafe
  <2>1. CASE UNCHANGED vars
    BY <2>1 DEF vars, LoopSoFar, CallbacksMeetStandard, Returned
  <2>2. CASE Next
    <3>1. \/ InvokeAny \/ Consume \/ StartOver
          \/ \E m \in Loops, given \in BOOLEAN : StartLoop(m, given)
          \/ Visit
          \/ \E r \in Takes(frame.m) : CallReturns(r)
          \/ \E r \in Returns(frame.m) : ReturnsEarly(r)
          \/ EndLoop
          \/ \E by \in Comparators : array_sort(by)
          \/ quickSort \/ invokeCallBack
          \/ \E r : CompareReturns(r)
          \/ CompareRefused \/ EndPartition \/ EndSort \/ EditAny \/ CallThrows
          \/ NestedThrows \/ FlatMapThrows
      BY <2>2, TakenFor DEF Next, InvokeAny, EditAny, GiveUp, Restart
    <3>2. LoopSoFar'
      <4>1. CASE \E m \in Loops, given \in BOOLEAN : StartLoop(m, given)
        BY <4>1, StartProgress
      <4>2. CASE Visit
        BY <4>2, VisitProgress
      <4>3. CASE \E r \in Takes(frame.m) : CallReturns(r)
        BY <4>3, ReturnProgress
      <4>4. CASE EditAny
        BY <4>4, EditProgress
      <4>5. CASE (\E r \in Returns(frame.m) : ReturnsEarly(r)) \/ NestedThrows
        BY <4>5, UnplainSteps
      <4> QED BY <3>1, <4>1, <4>2, <4>3, <4>4, <4>5, OtherStepsLoop
    <3>3. CASE EndLoop \/ FlatMapThrows
      BY <3>2, <3>3, EndLoopMeets, FlatMapThrowsMeets
    <3>4. CASE ~EndLoop /\ ~FlatMapThrows
      <4>1. Silent'
        BY <3>1, <3>4, SilentSteps
      <4>2. Silent' => CallbacksMeetStandard'
        BY SilentMeets, PTL
      <4> QED BY <3>2, <4>1, <4>2
    <3> QED BY <3>2, <3>3, <3>4
  <2> QED BY <2>1, <2>2
<1>3. Inv => CallbacksMeetStandard
  OBVIOUS
<1> QED BY <1>1, <1>2, <1>3, PTL DEF Spec

-----------------------------------------------------------------------------
(* What the methods that look at the list return.                          *)

LEMMA MappedConcat ==
    ASSUME NEW F, F \in [Items -> Seq(Items)], NEW s \in Seq(Items)
    PROVE  \A t \in Seq(Items) : Mapped(F, s \o t) = Mapped(F, s) \o Mapped(F, t)
<1> DEFINE T == {u \in Seq(Items) : Mapped(F, s \o u) = Mapped(F, s) \o Mapped(F, u)}
<1>1. <<>> \in T
  <2>1. s \o <<>> = s /\ Mapped(F, <<>>) = <<>> /\ Mapped(F, s) \in Seq(Items)
    BY ConcatEmptySeq, MappedFacts
  <2>2. Mapped(F, s) \o <<>> = Mapped(F, s)
    BY <2>1, ConcatEmptySeq
  <2> QED BY <2>1, <2>2
<1>2. ASSUME NEW u, NEW v, u \in Seq(Items), v \in Items, u \in T PROVE Append(u, v) \in T
  <2>1. s \o Append(u, v) = Append(s \o u, v) /\ s \o u \in Seq(Items) /\ Append(u, v) \in Seq(Items)
    BY <1>2, AppendToConcat, CountConcat, AppendFacts
  <2>2. PICK a \in Seq(Items), b \in Seq(Items), c \in Seq(Items), w \in {s \o u} :
            a = Mapped(F, s) /\ b = Mapped(F, u) /\ c = F[v] /\ w = s \o u
    BY <1>2, <2>1, MappedFacts
  <2>3. Mapped(F, w) = a \o b
    BY <1>2, <2>2
  <2>4. Mapped(F, Append(w, v)) = Mapped(F, w) \o c /\ Mapped(F, Append(u, v)) = b \o c
    BY <1>2, <2>1, <2>2, MappedFacts
  <2>5. a \o (b \o c) = (a \o b) \o c
    <3> HIDE DEF T
    <3> QED BY ConcatItems
  <2>6. Mapped(F, s \o Append(u, v)) = a \o (b \o c)
    BY <2>1, <2>2, <2>3, <2>4, <2>5
  <2> QED BY <2>1, <2>2, <2>4, <2>6
<1>3. Seq(Items) \subseteq T
  <2> HIDE DEF T
  <2> QED BY <1>1, <1>2, SeqInd
<1> QED BY <1>3

\* To go through the containers and then through what is found, one level at a time.
Deeper(F) == [x \in Items |-> Mapped(F, Piece(x))]

LEMMA MappedThrough ==
    ASSUME NEW F, F \in [Items -> Seq(Items)]
    PROVE  /\ Deeper(F) \in [Items -> Seq(Items)]
           /\ \A s \in Seq(Items) : Mapped(Deeper(F), s) = Mapped(F, Spread(s))
<1> DEFINE G == Deeper(F)
<1>1. \A x \in Items : Mapped(F, Piece(x)) \in Seq(Items)
  BY SpreadFacts, MappedFacts
<1>2. G \in [Items -> Seq(Items)] /\ \A x \in Items : G[x] = Mapped(F, Piece(x))
  BY <1>1 DEF Deeper
<1> HIDE DEF G
<1> DEFINE T == {s \in Seq(Items) : Mapped(G, s) = Mapped(F, Spread(s))}
<1>3. <<>> \in T
  BY <1>2, MappedFacts, SpreadFacts
<1>4. ASSUME NEW s \in Seq(Items), NEW v \in Items, s \in T PROVE Append(s, v) \in T
  <2> DEFINE p == Piece(v)
             w == Spread(s)
  <2>1. p \in Seq(Items) /\ w \in Seq(Items) /\ Spread(Append(s, v)) = w \o p
        /\ Append(s, v) \in Seq(Items)
    BY SpreadFacts, AppendFacts
  <2>2. Mapped(G, Append(s, v)) = Mapped(G, s) \o Mapped(F, p)
    BY <1>2, MappedFacts
  <2>3. Mapped(G, s) = Mapped(F, w)
    BY <1>4
  <2> HIDE DEF p, w
  <2>4. Mapped(F, w \o p) = Mapped(F, w) \o Mapped(F, p)
    BY <2>1, MappedConcat
  <2> QED BY <2>1, <2>2, <2>3, <2>4
<1>5. Seq(Items) \subseteq T
  <2> HIDE DEF T
  <2> QED BY <1>3, <1>4, SeqInd
<1> QED BY <1>2, <1>5 DEF G

LEMMA FlattenLevels ==
    /\ FlattenIntoArray[0] = [x \in Items |-> <<x>>]
    /\ \A d \in 1..3 : FlattenIntoArray[d] =
         [x \in Items |-> IF x \notin Containers THEN <<x>>
                          ELSE Mapped(FlattenIntoArray[d - 1], Contents[x])]
<1> DEFINE Down(F) == [x \in Items |-> IF x \notin Containers THEN <<x>> ELSE Mapped(F, Contents[x])]
           L0 == [x \in Items |-> <<x>>]
           L1 == Down(L0)
           L2 == Down(L1)
           L3 == Down(L2)
           Body(f, d) == [x \in Items |->
               IF d = 0 \/ x \notin Containers THEN <<x>>
               ELSE FlattenSeq([i \in DOMAIN Contents[x] |-> f[d - 1][Contents[x][i]]])]
           e == [d \in 0..3 |-> IF d = 0 THEN L0 ELSE IF d = 1 THEN L1 ELSE IF d = 2 THEN L2 ELSE L3]
<1>1. \A f : Body(f, 0) = L0
  OBVIOUS
<1>2. \A f : \A d : d # 0 => Body(f, d) = Down(f[d - 1])
  BY DEF Mapped
<1>3. L1 = Down(L0) /\ L2 = Down(L1) /\ L3 = Down(L2)
  OBVIOUS
<1>4. FlattenIntoArray = CHOOSE f : f = [d \in 0..3 |-> Body(f, d)]
  BY DEF FlattenIntoArray, MaxDepth
<1> HIDE DEF L0, L1, L2, L3, Body, Down
<1>5. e[0] = L0 /\ e[1] = L1 /\ e[2] = L2 /\ e[3] = L3
  OBVIOUS
<1>6. \A d \in 0..3 : d = 0 \/ d = 1 \/ d = 2 \/ d = 3
  OBVIOUS
<1>7. \A d \in 0..3 : e[d] = Body(e, d)
  <2> TAKE d \in 0..3
  <2>0. 1 - 1 = 0 /\ 2 - 1 = 1 /\ 3 - 1 = 2
    OBVIOUS
  <2>1. CASE d = 0
    BY <1>1, <1>5, <2>1
  <2>2. CASE d = 1
    BY <1>2, <1>3, <1>5, <2>0, <2>2
  <2>3. CASE d = 2
    BY <1>2, <1>3, <1>5, <2>0, <2>3
  <2>4. CASE d = 3
    BY <1>2, <1>3, <1>5, <2>0, <2>4
  <2> QED BY <1>6, <2>1, <2>2, <2>3, <2>4
<1>8. e = [d \in 0..3 |-> e[d]]
  OBVIOUS
<1> HIDE DEF e
<1>9. e = [d \in 0..3 |-> Body(e, d)]
  BY <1>7, <1>8
<1> DEFINE f == FlattenIntoArray
<1>10. f = [d \in 0..3 |-> Body(f, d)]
  BY <1>4, <1>9
<1> HIDE DEF f
<1>11. \A d \in 0..3 : f[d] = Body(f, d)
  BY <1>10
<1>12. f[0] = L0 /\ \A d \in 1..3 : f[d] = Down(f[d - 1])
  BY <1>1, <1>2, <1>11
<1> QED BY <1>12 DEF f, L0, Down

LEMMA MappedSelf ==
    \A s \in Seq(Items) : Mapped([x \in Items |-> <<x>>], s) = s
<1> DEFINE F == [x \in Items |-> <<x>>]
           T == {s \in Seq(Items) : Mapped(F, s) = s}
<1>1. F \in [Items -> Seq(Items)] /\ \A x \in Items : F[x] = <<x>>
  OBVIOUS
<1> HIDE DEF F
<1>2. <<>> \in T
  BY <1>1, MappedFacts
<1>3. ASSUME NEW s \in Seq(Items), NEW v \in Items, s \in T PROVE Append(s, v) \in T
  <2>1. Mapped(F, Append(s, v)) = Mapped(F, s) \o F[v]
    BY <1>1, MappedFacts
  <2>2. s \o <<v>> = Append(s, v)
    OBVIOUS
  <2>3. Mapped(F, s) = s /\ Append(s, v) \in Seq(Items)
    BY <1>3, AppendFacts
  <2>4. Mapped(F, Append(s, v)) = Append(s, v)
    BY <1>1, <2>1, <2>2, <2>3
  <2> QED BY <2>3, <2>4
<1>4. Seq(Items) \subseteq T
  <2> HIDE DEF T
  <2> QED BY <1>2, <1>3, SeqInd
<1> QED BY <1>4 DEF F

\* flat() takes one level of containers away for each level of its depth.
LEMMA FlatIsFlattened ==
    ASSUME NEW s \in Seq(Items), NEW d \in 0..3
    PROVE  Mapped(FlattenIntoArray[d], s) = Flattened(s, d)
<1> DEFINE F(k) == FlattenIntoArray[k]
<1>1. /\ F(0) \in [Items -> Seq(Items)] /\ \A t \in Seq(Items) : Mapped(F(0), t) = t
      /\ \A x \in Items : F(0)[x] = <<x>>
  BY FlattenLevels, MappedSelf
<1> DEFINE Level(k) == /\ F(k) \in [Items -> Seq(Items)]
                      /\ \A x \in Items : x \notin Containers => F(k)[x] = <<x>>
<1>2. ASSUME NEW k \in 1..3, Level(k - 1)
      PROVE  Level(k) /\ \A t \in Seq(Items) : Mapped(F(k), t) = Mapped(F(k - 1), Spread(t))
  <2> DEFINE G == F(k - 1)
  <2>1. F(k) = [x \in Items |-> IF x \notin Containers THEN <<x>> ELSE Mapped(G, Contents[x])]
    BY FlattenLevels
  <2>2. G \in [Items -> Seq(Items)] /\ \A x \in Items : x \notin Containers => G[x] = <<x>>
    BY <1>2
  <2> HIDE DEF G
  <2>3. ASSUME NEW x \in Items, x \notin Containers PROVE Mapped(G, <<x>>) = <<x>>
    <3> DEFINE z == <<>>
    <3>1. z \in Seq(Items) /\ Append(z, x) = <<x>> /\ Mapped(G, z) = <<>>
      BY <2>2, MappedFacts
    <3>2. Mapped(G, Append(z, x)) = Mapped(G, z) \o G[x]
      <4> HIDE DEF z
      <4> QED BY <2>2, <3>1, MappedFacts
    <3>3. <<>> \o <<x>> = <<x>>
      OBVIOUS
    <3> QED BY <2>2, <2>3, <3>1, <3>2, <3>3
  <2>4. F(k) = Deeper(G)
    BY <2>1, <2>3 DEF Deeper, Piece
  <2>5. \A x \in Items : x \notin Containers => F(k)[x] = <<x>>
    BY <2>1
  <2>6. /\ Deeper(G) \in [Items -> Seq(Items)]
        /\ \A t \in Seq(Items) : Mapped(Deeper(G), t) = Mapped(G, Spread(t))
    BY <2>2, MappedThrough
  <2> QED BY <2>4, <2>5, <2>6 DEF G
<1> HIDE DEF F
<1>3. 1 - 1 = 0 /\ 2 - 1 = 1 /\ 3 - 1 = 2 /\ 1 \in 1..3 /\ 2 \in 1..3 /\ 3 \in 1..3
  OBVIOUS
<1>4. Level(0)
  BY <1>1
<1> HIDE DEF Level
<1>5. Level(1) /\ \A t \in Seq(Items) : Mapped(F(1), t) = Mapped(F(0), Spread(t))
  <2> DEFINE k == 1
  <2>1. k \in 1..3 /\ Level(k - 1) /\ k - 1 = 0
    BY <1>3, <1>4
  <2> HIDE DEF k
  <2>2. Level(k) /\ \A t \in Seq(Items) : Mapped(F(k), t) = Mapped(F(k - 1), Spread(t))
    BY <1>2, <2>1
  <2> QED BY <2>1, <2>2 DEF k
<1>6. Level(2) /\ \A t \in Seq(Items) : Mapped(F(2), t) = Mapped(F(1), Spread(t))
  <2> DEFINE k == 2
  <2>1. k \in 1..3 /\ Level(k - 1) /\ k - 1 = 1
    BY <1>3, <1>5
  <2> HIDE DEF k
  <2>2. Level(k) /\ \A t \in Seq(Items) : Mapped(F(k), t) = Mapped(F(k - 1), Spread(t))
    BY <1>2, <2>1
  <2> QED BY <2>1, <2>2 DEF k
<1>7. \A t \in Seq(Items) : Mapped(F(3), t) = Mapped(F(2), Spread(t))
  <2> DEFINE k == 3
  <2>1. k \in 1..3 /\ Level(k - 1) /\ k - 1 = 2
    BY <1>3, <1>6
  <2> HIDE DEF k
  <2>2. \A t \in Seq(Items) : Mapped(F(k), t) = Mapped(F(k - 1), Spread(t))
    BY <1>2, <2>1
  <2> QED BY <2>1, <2>2 DEF k
<1>8. \A t \in Seq(Items) : Spread(t) \in Seq(Items)
  BY SpreadFacts
<1>9. /\ Mapped(F(0), s) = s /\ Mapped(F(1), s) = Spread(s) /\ Mapped(F(2), s) = Spread(Spread(s))
      /\ Mapped(F(3), s) = Spread(Spread(Spread(s)))
  BY <1>1, <1>5, <1>6, <1>7, <1>8
<1>10. d = 0 \/ d = 1 \/ d = 2 \/ d = 3
  OBVIOUS
<1>11. Mapped(F(d), s) = Flattened(s, d)
  BY <1>9, <1>10 DEF Flattened
<1> QED BY <1>11 DEF F

\* The first and the last of a set of places, counted from 0 or from 1.
LEMMA ShiftedMin ==
    ASSUME NEW T, NEW U, T \subseteq Nat, U \subseteq Nat,
           \A x \in T : x + 1 \in U, \A x \in U : x - 1 \in T
    PROVE  (T = {} <=> U = {}) /\ (T # {} => Min(T) = Min(U) - 1 /\ Min(T) \in Nat)
<1>1. T = {} <=> U = {}
  OBVIOUS
<1>2. ASSUME T # {} PROVE Min(T) = Min(U) - 1 /\ Min(T) \in Nat
  <2>1. /\ Min(T) \in T /\ \A y \in T : Min(T) <= y
        /\ Min(U) \in U /\ \A y \in U : Min(U) <= y
    BY <1>1, <1>2, MinFacts
  <2>2. PICK a \in Nat, b \in Nat : a = Min(T) /\ b = Min(U)
    BY <2>1
  <2>3. a + 1 \in U /\ b - 1 \in T
    BY <2>1, <2>2
  <2>4. b <= a + 1 /\ a <= b - 1
    BY <2>1, <2>2, <2>3
  <2> QED BY <2>2, <2>4
<1> QED BY <1>1, <1>2

LEMMA ShiftedMax ==
    ASSUME NEW n \in Nat, NEW T, NEW U, T \subseteq 0..n, U \subseteq 0..n,
           \A x \in T : x + 1 \in U, \A x \in U : x - 1 \in T
    PROVE  (T = {} <=> U = {}) /\ (T # {} => Max(T) = Max(U) - 1)
<1>1. T = {} <=> U = {}
  OBVIOUS
<1>2. ASSUME T # {} PROVE Max(T) = Max(U) - 1
  <2>1. /\ Max(T) \in T /\ \A y \in T : y <= Max(T)
        /\ Max(U) \in U /\ \A y \in U : y <= Max(U)
    BY <1>1, <1>2, MaxFacts
  <2>2. PICK a \in Int, b \in Int : a = Max(T) /\ b = Max(U)
    <3>1. T \subseteq Int /\ U \subseteq Int
      OBVIOUS
    <3> QED BY <2>1, <3>1
  <2>3. a + 1 \in U /\ b - 1 \in T
    BY <2>1, <2>2
  <2>4. a + 1 <= b /\ b - 1 <= a
    BY <2>1, <2>2, <2>3
  <2> QED BY <2>2, <2>4
<1> QED BY <1>1, <1>2

LEMMA SearchArguments ==
    ASSUME NEW m \in {"indexOf", "includes", "lastIndexOf"}, NEW args \in Arguments(m)
    PROVE  Len(args) \in 1..2 /\ (2 <= Len(args) => args[2] \in Int)
<1>1. args \in Tuples(Elements, 1) \/ args \in Elements \X Indices
  BY DEF Arguments
<1>2. CASE args \in Tuples(Elements, 1)
  <2>1. Len(args) = 1
    BY <1>2, OneTuple
  <2> QED BY <2>1
<1>3. CASE args \in Elements \X Indices
  <2>1. PICK x \in Elements, i \in Indices : args = <<x, i>>
    BY <1>3
  <2>2. Len(args) = 2 /\ args[2] = i
    BY <2>1
  <2> QED BY <2>2, IndexFacts
<1> QED BY <1>1, <1>2, <1>3

LEMMA IndexOfAnswers ==
    ASSUME NEW h, IsHeap(h), NEW args, Len(args) \in 1..2, 2 <= Len(args) => args[2] \in Int
    PROVE  /\ array_indexOf(h, args).ret = Answer("indexOf", h.list, args)
           /\ array_includes(h, args).ret = Answer("includes", h.list, args)
<1> DEFINE s == h.list
           n == Len(s)
           v == args[1]
           from == Arg(args, 2, 0)
           p == From(args, 2, s)
           q == IF from >= 0 THEN from ELSE Most(n + from, 0)
           T == {i \in q..(n - 1) : s[i + 1] = v}
           U == {i \in Positions(s, v) : i > p}
           r == IF n = 0 \/ from >= n THEN -1 ELSE ListIndex(h, v, q)
<1>1. s \in Seq(Items) /\ n \in Nat /\ DOMAIN s = 1..n /\ Size(h) = n
  BY HeapFacts, SeqFacts
<1>2. from \in Int /\ ActualIndex(from, n) = p /\ p \in 0..n
  <2>1. 2 \in Nat /\ Len(args) \in Nat
    OBVIOUS
  <2>2. from \in Int
    BY DEF Arg
  <2> QED BY <1>1, <2>1, <2>2, ClampFacts
<1>3. array_indexOf(h, args) = Return(h, r)
  BY <1>1 DEF array_indexOf
<1>4. r = IF U = {} THEN -1 ELSE Min(U) - 1
  <2>1. CASE n = 0 \/ from >= n
    <3>1. p = n
      BY <1>1, <1>2, <2>1 DEF ActualIndex, Least, Most
    <3>2. U = {}
      <4> HIDE DEF p, n
      <4> QED BY <1>1, <3>1 DEF Positions
    <3> QED BY <2>1, <3>2
  <2>2. CASE ~(n = 0 \/ from >= n)
    <3>1. p = q
      BY <1>1, <1>2, <2>2 DEF ActualIndex, Least, Most
    <3>2. r = IF T = {} THEN -1 ELSE Min(T)
      BY <1>1, <2>2 DEF ListIndex, GetItem
    <3> HIDE DEF p, q, n, s, v, r
    <3>3. /\ T \subseteq Nat /\ U \subseteq Nat
          /\ \A x \in T : x + 1 \in U
          /\ \A x \in U : x - 1 \in T
      BY <1>1, <1>2, <3>1 DEF Positions
    <3> HIDE DEF T, U
    <3> QED BY <3>2, <3>3, ShiftedMin
  <2> QED BY <2>1, <2>2
<1>5. r >= 0 <=> U # {}
  <2>1. CASE U = {}
    BY <1>4, <2>1
  <2>2. CASE U # {}
    <3>1. U \subseteq Nat /\ \A x \in U : x >= 1
      <4> HIDE DEF p, n, s, v
      <4> QED BY <1>1, <1>2 DEF Positions
    <3>2. Min(U) \in U
      <4> HIDE DEF U
      <4> QED BY <2>2, <3>1, MinFacts
    <3>3. PICK b \in Nat : b = Min(U) /\ b >= 1
      <4> HIDE DEF U
      <4> QED BY <3>1, <3>2
    <3>4. r = b - 1
      BY <1>4, <2>2, <3>3
    <3> HIDE DEF U, r
    <3> QED BY <2>2, <3>3, <3>4
  <2> QED BY <2>1, <2>2
<1>6. /\ Answer("indexOf", s, args) = IF U = {} THEN -1 ELSE Min(U) - 1
      /\ Answer("includes", s, args) = (U # {})
  BY DEF Answer
<1>7. Return(h, r).ret = r
  BY ReturnFacts
<1>8. array_includes(h, args) = Return(h, r >= 0)
  BY <1>3, <1>7 DEF array_includes
<1>9. Return(h, r >= 0).ret = (r >= 0)
  BY ReturnFacts
<1> HIDE DEF r, U
<1>10. (r >= 0) = (U # {})
  BY <1>5
<1> QED BY <1>3, <1>4, <1>6, <1>7, <1>8, <1>9, <1>10 DEF s

LEMMA LastIndexOfAnswers ==
    ASSUME NEW h, IsHeap(h), NEW args, Len(args) \in 1..2, 2 <= Len(args) => args[2] \in Int
    PROVE  array_lastIndexOf(h, args).ret = Answer("lastIndexOf", h.list, args)
<1> DEFINE s == h.list
           n == Len(s)
           v == args[1]
           to == Arg(args, 2, n - 1)
           start == IF to < 0 THEN n + to ELSE Least(to, n - 1)
           T == {i \in 0..start : s[i + 1] = v}
           U == {i \in Positions(s, v) : \/ Len(args) < 2
                                         \/ i <= 1 + (IF args[2] < 0 THEN n + args[2] ELSE args[2])}
           r == IF n = 0 \/ T = {} THEN -1 ELSE Max(T)
<1>1. s \in Seq(Items) /\ n \in Nat /\ DOMAIN s = 1..n /\ Size(h) = n
  BY HeapFacts, SeqFacts
<1>2. array_lastIndexOf(h, args) = Return(h, r)
  BY <1>1 DEF array_lastIndexOf, GetItem
<1>3. Answer("lastIndexOf", s, args) = IF U = {} THEN -1 ELSE Max(U) - 1
  BY DEF Answer
<1>4. to \in Int /\ (Len(args) < 2 => to = n - 1) /\ (~(Len(args) < 2) => to = args[2])
  BY <1>1 DEF Arg
<1>5. r = IF U = {} THEN -1 ELSE Max(U) - 1
  <2>1. CASE n = 0
    <3>1. U = {}
      <4> HIDE DEF n
      <4> QED BY <1>1, <2>1 DEF Positions
    <3> QED BY <2>1, <3>1
  <2>2. CASE n # 0
    <3>1. /\ start \in Int /\ start <= n - 1
          /\ to < 0 => start = n + to
          /\ to >= 0 => start <= to /\ (start = to \/ start = n - 1)
      BY <1>1, <1>4, <2>2 DEF Least
    <3> HIDE DEF start, to, n, s, v
    <3>2. \A i \in 1..n : (\/ Len(args) < 2
                           \/ i <= 1 + (IF args[2] < 0 THEN n + args[2] ELSE args[2]))
                          <=> i - 1 <= start
      BY <1>1, <1>4, <2>2, <3>1
    <3>3. U = {i \in 1..n : s[i] = v /\ i - 1 <= start}
      BY <1>1, <3>2 DEF Positions
    <3> HIDE DEF U
    <3>4. /\ T \subseteq 0..n /\ U \subseteq 0..n
          /\ \A x \in T : x + 1 \in U
          /\ \A x \in U : x - 1 \in T
      BY <1>1, <3>1, <3>3
    <3> HIDE DEF T
    <3> QED BY <1>1, <2>2, <3>4, ShiftedMax
  <2> QED BY <2>1, <2>2
<1>6. Return(h, r).ret = r
  BY ReturnFacts
<1> QED BY <1>2, <1>3, <1>5, <1>6

\* The bound on the depth is no bound on what a greater depth does.
LEMMA DeepEnough ==
    ASSUME NEW s, NEW n \in Nat
    PROVE  Least(n, MaxDepth) \in 0..3 /\ Flattened(s, Least(n, MaxDepth)) = Flattened(s, n)
<1>1. CASE n <= 3
  BY <1>1 DEF Least, MaxDepth
<1>2. CASE n > 3
  <2>1. Least(n, MaxDepth) = 3
    BY <1>2 DEF Least, MaxDepth
  <2>2. ~(n <= 0) /\ n # 1 /\ n # 2
    BY <1>2
  <2>3. Flattened(s, n) = Spread(Spread(Spread(s)))
    BY <2>2 DEF Flattened
  <2>4. Flattened(s, 3) = Spread(Spread(Spread(s)))
    BY DEF Flattened
  <2> QED BY <2>1, <2>3, <2>4
<1> QED BY <1>1, <1>2

LEMMA FlatAnswers ==
    ASSUME NEW h, IsHeap(h), NEW args \in Arguments("flat"), ~FlatDeparts(h.list, args)
    PROVE  array_flat(h, args).ret = Answer("flat", h.list, args)
<1> DEFINE s == h.list
           n == IF args = <<>> THEN 1 ELSE args[1]
           d == DepthNum(args)
           w == Mapped(FlattenIntoArray[d], s)
           pad == NewArray(Most(Size(h) - Len(w), 0))
<1>1. s \in Seq(Items) /\ Size(h) = Len(s) /\ Len(s) \in Nat
  BY HeapFacts, SeqFacts DEF Size
<1>2. args = <<>> \/ (args[1] # Undefined /\ ~(args[1] < 0))
  BY DEF FlatDeparts
<1>3. n \in Nat /\ d = Least(n, MaxDepth)
  <2>1. CASE args = <<>>
    BY <2>1 DEF DepthNum
  <2>2. CASE args # <<>>
    <3>1. args \in BoundedSeq(Indices, 1)
      BY <1>2, <2>2 DEF Arguments
    <3> DEFINE one == 1
    <3>2. one \in Nat /\ args \in BoundedSeq(Indices, one)
      BY <3>1
    <3> HIDE DEF one
    <3>3. args \in Seq(Indices) /\ Len(args) \in Nat
      BY <3>2, BoundedFacts
    <3>4. Len(args) # 0
      BY <2>2, <3>3, EmptySeq
    <3>5. 1 \in 1..Len(args)
      BY <3>3, <3>4
    <3>6. args[1] \in Indices
      BY <3>3, <3>5, SeqFacts
    <3>7. args[1] \in Int
      BY <3>6, ListAssumption DEF Indices
    <3> QED BY <1>2, <2>2, <3>7 DEF DepthNum
  <2> QED BY <2>1, <2>2
<1>4. d \in 0..3 /\ Flattened(s, d) = Flattened(s, n)
  BY <1>3, DeepEnough
<1>5. array_flat(h, args) = Return(h, w \o pad)
  BY DEF array_flat, ReturnArray, Mapped
<1>6. Answer("flat", s, args) = Flattened(s, n)
  BY DEF Answer
<1> HIDE DEF d, s, n
<1>7. w = Flattened(s, n) /\ w \in Seq(Items)
  <2>1. w = Flattened(s, n)
    BY <1>1, <1>4, FlatIsFlattened
  <2>2. Spread(s) \in Seq(Items)
    BY <1>1, SpreadFacts
  <2>3. Spread(Spread(s)) \in Seq(Items)
    BY <2>2, SpreadFacts
  <2>4. Spread(Spread(Spread(s))) \in Seq(Items)
    BY <2>3, SpreadFacts
  <2>5. Flattened(s, n) \in {s, Spread(s), Spread(Spread(s)), Spread(Spread(Spread(s)))}
    BY <1>3 DEF Flattened
  <2> QED BY <1>1, <2>1, <2>2, <2>3, <2>4, <2>5
<1>8. ~(Len(w) < Len(s))
  BY <1>6, <1>7 DEF FlatDeparts, s
<1> HIDE DEF w
<1>9. pad = <<>>
  <2>1. Len(w) \in Nat
    BY <1>7, SeqFacts
  <2>2. Most(Size(h) - Len(w), 0) = 0
    BY <1>1, <1>8, <2>1 DEF Most
  <2> QED BY <2>2 DEF NewArray
<1>10. w \o pad = w
  BY <1>7, <1>9
<1>11. Return(h, w).ret = w
  BY ReturnFacts
<1> QED BY <1>5, <1>6, <1>7, <1>10, <1>11 DEF s

LEMMA OwnKeysAnswers ==
    ASSUME NEW h, IsHeap(h), NEW args
    PROVE  ownPropertyKeys(h, args).ret = Answer("ownKeys", h.list, args)
<1> DEFINE n == Len(h.list)
           t == Upto(0, n)
           u == Append(t, LengthKey)
           r == [i \in 1..(n + 1) |-> IF i <= n THEN i - 1 ELSE LengthKey]
<1>1. n \in Nat /\ Size(h) = n
  BY HeapFacts
<1>2. t \in Seq(Int) /\ Len(t) = n /\ \A k \in 1..n : t[k] = k - 1
  <2>1. t = [k \in 1..n |-> k - 1]
    BY <1>1 DEF Upto, Most
  <2> HIDE DEF t
  <2> QED BY <1>1, <2>1
<1> HIDE DEF t
<1>3. /\ u \in Seq(Int) /\ Len(u) = n + 1 /\ DOMAIN u = 1..(n + 1) /\ u[n + 1] = LengthKey
      /\ \A k \in 1..n : u[k] = k - 1
  <2>1. LengthKey \in Int
    BY DEF LengthKey
  <2> DEFINE key == LengthKey
  <2> HIDE DEF key
  <2>2. key \in Int
    BY <2>1 DEF key
  <2>3. /\ Append(t, key) \in Seq(Int) /\ Len(Append(t, key)) = Len(t) + 1
        /\ Append(t, key)[Len(t) + 1] = key
        /\ \A i \in 1..Len(t) : Append(t, key)[i] = t[i]
        /\ DOMAIN Append(t, key) = 1..(Len(t) + 1)
    BY <1>2, <2>2, AppendFacts
  <2> QED BY <1>2, <2>3 DEF key
<1> HIDE DEF u
<1>4. u = [k \in 1..(n + 1) |-> u[k]]
  <2>1. u = [k \in 1..Len(u) |-> u[k]]
    BY <1>3, SeqFacts
  <2> QED BY <1>3, <2>1
<1> HIDE DEF n
<1>5. \A k \in 1..(n + 1) : u[k] = IF k <= n THEN k - 1 ELSE LengthKey
  <2>1. \A k \in 1..(n + 1) : k \in 1..n \/ (k = n + 1 /\ ~(k <= n))
    BY <1>1
  <2> QED BY <1>1, <1>3, <2>1
<1>6. u = r
  BY <1>4, <1>5
<1>7. ownPropertyKeys(h, args) = Return(h, u)
  BY <1>1 DEF ownPropertyKeys, u, t
<1>8. Answer("ownKeys", h.list, args) = r
  BY DEF Answer, n
<1>9. Return(h, u).ret = u
  BY ReturnFacts
<1> QED BY <1>6, <1>7, <1>8, <1>9

LEMMA Regroup ==
    ASSUME NEW S, NEW s \in Seq(S), NEW t \in Seq(S), NEW u \in Seq(S)
    PROVE  s \o (t \o u) = (s \o t) \o u
  BY ConcatAssociative

\* What join() writes for an item: a separator, unless it is the first, and
\* nothing for None.
Written(sep, first, v) == (IF first THEN <<>> ELSE <<sep>>) \o (IF v = None THEN <<>> ELSE <<v>>)

LEMMA WrittenFacts ==
    ASSUME NEW sep, NEW v \in Items, NEW first \in BOOLEAN
    PROVE  LET U == Items \cup {sep}
               a == IF first THEN <<>> ELSE <<sep>>
               b == IF v = None THEN <<>> ELSE <<v>>
           IN  a \in Seq(U) /\ b \in Seq(U) /\ Written(sep, first, v) = a \o b
               /\ Written(sep, first, v) \in Seq(U)
<1> DEFINE U == Items \cup {sep}
           a == IF first THEN <<>> ELSE <<sep>>
           b == IF v = None THEN <<>> ELSE <<v>>
<1>1. sep \in U /\ v \in U
  OBVIOUS
<1> HIDE DEF U
<1>2. a \in Seq(U) /\ b \in Seq(U)
  BY <1>1
<1>3. Written(sep, first, v) = a \o b
  BY DEF Written
<1> HIDE DEF a, b
<1>4. a \o b \in Seq(U)
  BY <1>2
<1> QED BY <1>2, <1>3, <1>4 DEF U, a, b

LEMMA JoinedFacts ==
    ASSUME NEW sep
    PROVE  /\ Joined(<<>>, sep) = <<>>
           /\ \A s \in Seq(Items) : Joined(s, sep) \in Seq(Items \cup {sep})
           /\ \A s \in Seq(Items), v \in Items :
                Joined(Append(s, v), sep) = Joined(s, sep) \o Written(sep, Len(s) = 0, v)
<1> DEFINE U == Items \cup {sep}
           P(s) == [i \in DOMAIN s |-> Written(sep, i = 1, s[i])]
<1>1. \A s : Joined(s, sep) = FlattenSeq(P(s))
  BY DEF Joined, Written
<1>2. \A v \in Items, first \in BOOLEAN : Written(sep, first, v) \in Seq(U)
  BY WrittenFacts
<1> HIDE DEF U
<1>3. ASSUME NEW s \in Seq(Items)
      PROVE  P(s) \in Seq(Seq(U)) /\ Len(P(s)) = Len(s)
  <2>1. Len(s) \in Nat /\ DOMAIN s = 1..Len(s) /\ \A i \in 1..Len(s) : s[i] \in Items
    BY SeqFacts
  <2>2. \A i \in 1..Len(s) : Written(sep, i = 1, s[i]) \in Seq(U)
    BY <1>2, <2>1
  <2> DEFINE p == P(s)
             V == Seq(U)
  <2>3. DOMAIN p = 1..Len(s) /\ p = [i \in 1..Len(s) |-> p[i]] /\ \A i \in 1..Len(s) : p[i] \in V
    BY <2>1, <2>2
  <2> HIDE DEF p, V
  <2>4. p \in Seq(V) /\ Len(p) = Len(s)
    BY <2>1, <2>3, IsSeq
  <2> QED BY <2>4 DEF p, V
<1>4. Joined(<<>>, sep) = <<>>
  <2>1. P(<<>>) = <<>>
    OBVIOUS
  <2> HIDE DEF P
  <2> QED BY <1>1, <2>1, FlattenFacts
<1>5. \A s \in Seq(Items) : Joined(s, sep) \in Seq(U)
  <2> HIDE DEF P
  <2> QED BY <1>1, <1>3, FlattenFacts
<1>6. ASSUME NEW s \in Seq(Items), NEW v \in Items
      PROVE  Joined(Append(s, v), sep) = Joined(s, sep) \o Written(sep, Len(s) = 0, v)
  <2> DEFINE n == Len(s)
             t == Append(s, v)
             x == Written(sep, n = 0, v)
             p == P(s)
             q == P(t)
  <2>1. /\ n \in Nat /\ DOMAIN s = 1..n /\ t \in Seq(Items) /\ Len(t) = n + 1
        /\ DOMAIN t = 1..(n + 1) /\ t[n + 1] = v /\ \A i \in 1..n : t[i] = s[i]
    BY SeqFacts, AppendFacts
  <2>2. p \in Seq(Seq(U)) /\ Len(p) = n /\ q \in Seq(Seq(U)) /\ Len(q) = n + 1 /\ x \in Seq(U)
    <3> HIDE DEF P
    <3> QED BY <1>2, <1>3, <2>1
  <2> HIDE DEF t
  <2>3. \A i \in 1..n : q[i] = p[i]
    <3>1. \A i \in 1..n : i \in 1..(n + 1)
      BY <2>1
    <3> HIDE DEF n
    <3> QED BY <2>1, <3>1
  <2>4. q[n + 1] = x
    <3>1. n + 1 \in 1..(n + 1) /\ ((n + 1 = 1) <=> (n = 0))
      BY <2>1
    <3>2. (n + 1 = 1) = (n = 0)
      BY <3>1
    <3>3. q[n + 1] = Written(sep, n + 1 = 1, t[n + 1])
      <4> HIDE DEF n
      <4> QED BY <2>1, <3>1
    <3> QED BY <2>1, <3>2, <3>3
  <2> DEFINE V == Seq(U)
             r == Append(p, x)
  <2> HIDE DEF p, q, x, n, V
  <2>5. /\ p \in Seq(V) /\ q \in Seq(V) /\ x \in V
    BY <2>2 DEF V
  <2>6. /\ r \in Seq(V) /\ Len(r) = n + 1 /\ r[n + 1] = x
        /\ \A i \in 1..n : r[i] = p[i]
    BY <2>2, <2>5, AppendFacts
  <2>7. \A i \in 1..(n + 1) : q[i] = r[i]
    <3>1. \A i \in 1..(n + 1) : i \in 1..n \/ i = n + 1
      BY <2>1
    <3> HIDE DEF r
    <3> QED BY <2>3, <2>4, <2>6, <3>1
  <2>8. q = r
    <3>1. /\ q = [i \in 1..Len(q) |-> q[i]] /\ r = [i \in 1..Len(r) |-> r[i]]
      <4> HIDE DEF r
      <4> QED BY <2>5, <2>6, SeqFacts
    <3> HIDE DEF r
    <3> QED BY <2>2, <2>6, <2>7, <3>1
  <2>9. FlattenSeq(Append(p, x)) = FlattenSeq(p) \o x
    BY <2>2, FlattenFacts
  <2>10. Joined(t, sep) = FlattenSeq(q) /\ Joined(s, sep) = FlattenSeq(p)
    BY <1>1 DEF p, q
  <2> QED BY <2>8, <2>9, <2>10 DEF t, x, n
<1> QED BY <1>4, <1>5, <1>6 DEF U

LEMMA JoinWrites ==
    ASSUME NEW h, IsHeap(h), NEW args
    PROVE  array_join(h, args).ret =
             Joined(h.list, IF Arg(args, 1, Undefined) = Undefined THEN "," ELSE args[1])
<1> DEFINE s == h.list
           sep == IF Arg(args, 1, Undefined) = Undefined THEN "," ELSE args[1]
           S == Upto(0, Size(h))
           n == Len(S)
           j == <<>>
           Body(w, i) == w \o (IF i > 0 THEN <<sep>> ELSE <<>>)
                           \o (IF GetItem(h, i) = None THEN <<>> ELSE <<GetItem(h, i)>>)
           after[k \in 0..n] == IF k = 0 THEN j ELSE Body(after[k - 1], S[k])
           D == [k \in 0..n |-> {Joined(SubSeq(s, 1, k), sep)}]
           G == [k \in 1..n |-> [g \in D[k - 1] |-> Body(g, S[k])]]
<1>1. array_join(h, args) = Return(h, after[n])
  BY DEF array_join, Walk
<1>7. s \in Seq(Items) /\ Len(s) \in Nat /\ Size(h) = Len(s)
  BY HeapFacts
<1>2. n \in Nat /\ n = Len(s) /\ \A k \in 1..n : S[k] = k - 1
  <2> DEFINE z == 0
             l == Len(s)
  <2>1. z \in Int /\ l \in Int /\ z <= l /\ l - z = l /\ \A k \in Nat : z + k - 1 = k - 1
    BY <1>7
  <2>2. S = Upto(z, l)
    BY <1>7
  <2> HIDE DEF z, l, S
  <2>3. /\ n \in Nat /\ n = (IF z <= l THEN l - z ELSE 0)
        /\ \A k \in 1..n : S[k] = z + k - 1
    BY <2>1, <2>2, UptoFacts
  <2>4. \A k \in 1..n : k \in Nat
    BY <2>3
  <2> QED BY <2>1, <2>3, <2>4 DEF l
<1> HIDE DEF Body, sep, S
<1>3. j \in D[0]
  <2>1. SubSeq(s, 1, 0) = <<>>
    BY <1>7, SubSeqEmpty
  <2>2. Joined(SubSeq(s, 1, 0), sep) = <<>>
    BY <2>1, JoinedFacts
  <2>3. 0 \in 0..n
    BY <1>2
  <2> HIDE DEF n, s
  <2> QED BY <2>2, <2>3
<1>4. ASSUME NEW k \in 1..n, NEW g \in D[k - 1] PROVE Body(g, S[k]) \in D[k]
  <2> DEFINE a == SubSeq(s, 1, k - 1)
             v == s[k]
  <2>1. k - 1 \in 0..n /\ k \in 0..n /\ k \in 1..Len(s) /\ k - 1 + 1 = k /\ S[k] = k - 1
        /\ k - 1 \in Nat /\ k - 1 <= Len(s)
    BY <1>2
  <2>2. SubSeq(s, 1, k) = Append(a, v) /\ a \in Seq(Items) /\ v \in Items
    BY <1>7, <2>1, PrefixStep
  <2>3. Len(a) = k - 1
    <3> DEFINE one == 1
               b == k - 1
    <3>1. one \in 1..(Len(s) + 1) /\ b \in Int /\ b <= Len(s)
      BY <1>7, <2>1
    <3> HIDE DEF one, b, s
    <3>2. Len(SubSeq(s, one, b)) = IF one <= b THEN b - one + 1 ELSE 0
      BY <1>7, <3>1, SubSeqFacts
    <3> QED BY <2>1, <3>2 DEF one, b
  <2>4. GetItem(h, k - 1) = v
    BY <2>1 DEF GetItem
  <2>5. g = Joined(a, sep)
    <3> HIDE DEF s, n
    <3> QED BY <2>1
  <2> HIDE DEF a, v, s
  <2> DEFINE U == Items \cup {sep}
             w == Joined(a, sep)
             first == Len(a) = 0
             b == IF first THEN <<>> ELSE <<sep>>
             c == IF v = None THEN <<>> ELSE <<v>>
  <2>6. w \in Seq(U) /\ Joined(Append(a, v), sep) = w \o Written(sep, first, v)
    BY <2>2, JoinedFacts
  <2>7. b \in Seq(U) /\ c \in Seq(U) /\ Written(sep, first, v) = b \o c
    BY <2>2, WrittenFacts
  <2>8. Body(g, S[k]) = w \o b \o c
    <3>1. k - 1 > 0 <=> ~first
      BY <2>1, <2>3
    <3>2. (IF k - 1 > 0 THEN <<sep>> ELSE <<>>) = b
      BY <3>1
    <3>3. Body(g, S[k]) = g \o (IF k - 1 > 0 THEN <<sep>> ELSE <<>>)
                            \o (IF GetItem(h, k - 1) = None THEN <<>> ELSE <<GetItem(h, k - 1)>>)
      BY <2>1 DEF Body
    <3> HIDE DEF b, w
    <3> QED BY <2>4, <2>5, <3>2, <3>3 DEF w
  <2> HIDE DEF U, w, b, c, first
  <2>9. w \o (b \o c) = (w \o b) \o c
    <3>1. w \in Seq(U) /\ b \in Seq(U) /\ c \in Seq(U)
      BY <2>6, <2>7
    <3> HIDE DEF D, S, Body
    <3> QED BY <3>1, Regroup, SMTT(30)
  <2>10. Body(g, S[k]) = Joined(SubSeq(s, 1, k), sep)
    BY <2>2, <2>6, <2>7, <2>8, <2>9
  <2> HIDE DEF n
  <2> QED BY <2>1, <2>10 DEF s
<1>5. after[n] \in D[n]
  <2>1. \A k \in 1..n : \A g \in D[k - 1] : G[k][g] = Body(g, S[k])
    OBVIOUS
  <2>2. Leads(n, D, G)
    BY <1>4 DEF Leads
  <2>3. \E f : f = [k \in 0..n |-> IF k = 0 THEN j ELSE Body(f[k - 1], S[k])]
    <3> HIDE DEF D, G, n, after
    <3>1. PICK f : Path(f, n, j, G) /\ Stays(f, n, D)
      BY <1>2, <1>3, <2>2, LoopExists
    <3>2. \A k \in 1..n : G[k][f[k - 1]] = Body(f[k - 1], S[k])
      <4> TAKE k \in 1..n
      <4>1. k - 1 \in 0..n
        BY <1>2
      <4> QED BY <2>1, <3>1, <4>1 DEF Stays
    <3>3. f = [k \in 0..n |-> IF k = 0 THEN j ELSE Body(f[k - 1], S[k])]
      <4>1. \A k \in 0..n : k # 0 => k \in 1..n
        BY <1>2
      <4> QED BY <3>1, <3>2, <4>1 DEF Path
    <3> QED BY <3>3
  <2>4. after = [k \in 0..n |-> IF k = 0 THEN j ELSE Body(after[k - 1], S[k])]
    BY <2>3
  <2> HIDE DEF after
  <2>5. after[0] = j /\ \A k \in 1..n : after[k] = Body(after[k - 1], S[k])
    BY <1>2, <2>4
  <2> HIDE DEF D, G, n
  <2>6. \A k \in 0..n : after[k] \in D[k]
    BY <1>2, <1>3, <1>4, <2>5, LoopKeeps
  <2> QED BY <1>2, <2>6
<1>6. n \in 0..n
  BY <1>2
<1>8. D[n] = {Joined(SubSeq(s, 1, n), sep)}
  <2> HIDE DEF n
  <2> QED BY <1>6
<1>9. SubSeq(s, 1, n) = s
  BY <1>2, <1>7, SubSeqFull
<1> HIDE DEF D, after
<1>10. after[n] = Joined(s, sep)
  BY <1>5, <1>8, <1>9
<1>11. Return(h, after[n]).ret = after[n]
  BY ReturnFacts
<1> QED BY <1>1, <1>10, <1>11 DEF s, sep

LEMMA JoinAnswers ==
    ASSUME NEW h, IsHeap(h), NEW m \in {"join", "toString", "toLocaleString"}, NEW args \in Arguments(m)
    PROVE  Call(m, h, args).ret = Answer(m, h.list, args)
<1>1. ASSUME NEW a, NEW sep, sep = (IF Arg(a, 1, Undefined) = Undefined THEN "," ELSE a[1])
      PROVE  array_join(h, a).ret = Joined(h.list, sep)
  BY <1>1, JoinWrites
<1>2. array_join(h, <<>>).ret = Joined(h.list, ",")
  <2> DEFINE z == <<>>
  <2>1. Arg(z, 1, Undefined) = Undefined
    BY DEF Arg
  <2> HIDE DEF z
  <2>2. array_join(h, z).ret = Joined(h.list, ",")
    BY <1>1, <2>1
  <2> QED BY <2>2 DEF z
<1>3. CASE m = "join"
  <2>1. args = <<>> \/ args = <<"-">>
    BY <1>3 DEF Arguments
  <2>2. Call(m, h, args) = array_join(h, args)
    BY <1>3 DEF Call
  <2>3. Answer(m, h.list, args) = Joined(h.list, IF args = <<>> THEN "," ELSE args[1])
    BY <1>3 DEF Answer
  <2>4. CASE args = <<"-">>
    <3>1. Len(args) = 1 /\ args # <<>> /\ args[1] = "-"
      BY <2>4
    <3>3. args[1] # Undefined
      BY <3>1, ItemsAssumption
    <3>4. Arg(args, 1, Undefined) = args[1]
      BY <3>1 DEF Arg
    <3>5. array_join(h, args).ret = Joined(h.list, args[1])
      BY <1>1, <3>3, <3>4
    <3> QED BY <2>2, <2>3, <3>1, <3>5
  <2>5. CASE args = <<>>
    BY <1>2, <2>2, <2>3, <2>5
  <2> QED BY <2>1, <2>4, <2>5
<1>4. CASE m \in {"toString", "toLocaleString"}
  <2>1. args = <<>>
    BY <1>4 DEF Arguments
  <2>2. Call(m, h, args) = array_join(h, <<>>)
    BY <1>4, <2>1 DEF Call, array_toString, array_toLocaleString
  <2>3. Answer(m, h.list, args) = Joined(h.list, ",")
    BY <1>4 DEF Answer
  <2> QED BY <1>2, <2>2, <2>3
<1> QED BY <1>3, <1>4

-----------------------------------------------------------------------------
(* Every call, by its result and by the list it leaves.                    *)

\* What the program gets from a call that ends in g.
Outgoing(m, g) == CASE m \in {"reverse", "fill", "copyWithin", "valueOf"} -> g.list
                    [] m \in {"slice", "splice", "concat"} -> g.out
                    [] OTHER -> g.ret

LEMMA EditorAnswers ==
    ASSUME NEW h, IsHeap(h), h.out = <<>>, NEW m \in Editors, NEW args \in Arguments(m),
           ~Refused(m, Len(h.list), args)
    PROVE  Outgoing(m, Call(m, h, args)) = Answer(m, h.list, args)
<1> DEFINE g == Call(m, h, args)
<1>0. g = Call(m, h, args)
  OBVIOUS
<1> HIDE DEF g
<1>1. CASE m \in {"reverse", "fill", "copyWithin"}
  <2>1. g.list = Edited(m, h.list, args)
    BY <1>0, CallFacts DEF Leaves
  <2>2. Outgoing(m, g) = g.list
    BY <1>1 DEF Outgoing
  <2>3. Answer(m, h.list, args) = Edited(m, h.list, args)
    BY <1>1 DEF Answer
  <2> QED BY <1>0, <2>1, <2>2, <2>3
<1>2. CASE m = "splice"
  <2>1. g = array_splice(h, args)
    BY <1>0, <1>2, CallIs
  <2>2. PlacesThenItems(args) /\ \E S : args \in Seq(S)
    BY <1>2, SpliceArguments
  <2>3. g.out = Answer("splice", h.list, args)
    BY <2>1, <2>2, SpliceFacts
  <2>4. Outgoing("splice", g) = g.out
    BY DEF Outgoing
  <2> QED BY <1>0, <1>2, <2>3, <2>4
<1>3. m \notin {"reverse", "fill", "copyWithin", "splice"} => Outgoing(m, g) = g.ret
  BY DEF Outgoing, Editors
<1>4. CASE m = "pop"
  <2>1. g = array_pop(h, args)
    BY <1>0, <1>4, CallIs
  <2>2. g.ret = Answer("pop", h.list, args)
    BY <2>1, PopFacts
  <2> QED BY <1>0, <1>3, <1>4, <2>2
<1>5. CASE m = "shift"
  <2>1. g = array_shift(h, args)
    BY <1>0, <1>5, CallIs
  <2>2. g.ret = Answer("shift", h.list, args)
    BY <2>1, ShiftFacts
  <2> QED BY <1>0, <1>3, <1>5, <2>2
<1>6. CASE m \in {"push", "unshift"}
  <2>1. args \in Seq(Items)
    BY <1>6, ItemArguments
  <2>2. CASE m = "push"
    <3>1. g = array_push(h, args)
      BY <1>0, <2>2, CallIs
    <3>2. g.ret = Answer("push", h.list, args)
      BY <2>1, <3>1, PushFacts
    <3> QED BY <1>0, <1>3, <2>2, <3>2
  <2>3. CASE m = "unshift"
    <3>1. g = array_unshift(h, args)
      BY <1>0, <2>3, CallIs
    <3>2. g.ret = Answer("unshift", h.list, args)
      BY <2>1, <3>1, UnshiftFacts
    <3> QED BY <1>0, <1>3, <2>3, <3>2
  <2> QED BY <1>6, <2>2, <2>3
<1>7. CASE m \in {"set", "delete"}
  <2>1. /\ args[1] = LengthKey \/ args[1] \in Nat
        /\ args[1] \in Int /\ (m = "set" => args[2] \in Items)
    BY <1>7, KeyArguments
  <2>2. CASE m = "set"
    <3>1. g = defineProperty(h, args) /\ args[1] # LengthKey
      BY <1>0, <2>2, CallIs DEF Refused
    <3>2. g.ret = TRUE
      BY <2>1, <2>2, <3>1, SetFacts
    <3> QED BY <1>0, <1>3, <2>2, <3>2 DEF Answer
  <2>3. CASE m = "delete"
    <3>1. g = delete_(h, args) /\ args[1] \in 0..(Len(h.list) - 1)
      BY <1>0, <2>3, CallIs DEF Refused
    <3>2. g.ret = TRUE
      BY <2>1, <3>1, DeleteFacts
    <3> QED BY <1>0, <1>3, <2>3, <3>2 DEF Answer
  <2> QED BY <1>7, <2>2, <2>3
<1> QED BY <1>1, <1>2, <1>4, <1>5, <1>6, <1>7 DEF Editors

LEMMA ReaderAnswers ==
    ASSUME NEW h, IsHeap(h), h.out = <<>>, NEW m \in Readers, NEW args \in Arguments(m),
           ~Departs(m, h.list, args)
    PROVE  Outgoing(m, Call(m, h, args)) = Answer(m, h.list, args)
<1> DEFINE g == Call(m, h, args)
<1>0. g = Call(m, h, args)
  OBVIOUS
<1> HIDE DEF g
<1>1. CASE m = "valueOf"
  <2>1. g.list = h.list
    <3>1. ~Refused(m, Len(h.list), args)
      BY <1>1 DEF Refused
    <3>2. g.list = Edited("valueOf", h.list, args)
      BY <1>0, <1>1, <3>1, CallFacts DEF Leaves
    <3> QED BY <3>2 DEF Edited
  <2>2. Outgoing(m, g) = g.list
    BY <1>1 DEF Outgoing
  <2>3. Answer("valueOf", h.list, args) = Edited("valueOf", h.list, args)
    BY DEF Answer
  <2>4. Edited("valueOf", h.list, args) = h.list
    BY DEF Edited
  <2> QED BY <1>0, <1>1, <2>1, <2>2, <2>3, <2>4
<1>2. CASE m = "slice"
  <2>1. g = array_slice(h, args)
    BY <1>0, <1>2, CallIs
  <2>2. /\ Len(args) \in Nat /\ Len(args) >= 1 /\ args[1] \in Int
        /\ 2 <= Len(args) => args[2] \in Int \cup {Undefined}
    BY <1>2, SliceArguments
  <2>3. g.out = Answer("slice", h.list, args)
    BY <2>1, <2>2, SliceFacts
  <2>4. Outgoing("slice", g) = g.out
    BY DEF Outgoing
  <2> QED BY <1>0, <1>2, <2>3, <2>4
<1>3. CASE m = "concat"
  <2>1. g = array_concat(h, args)
    BY <1>0, <1>3, CallIs
  <2>2. args \in Seq(Items)
    BY <1>3, ItemArguments
  <2>3. g.out = Answer("concat", h.list, args)
    BY <2>1, <2>2, ConcatFacts
  <2>4. Outgoing("concat", g) = g.out
    BY DEF Outgoing
  <2> QED BY <1>0, <1>3, <2>3, <2>4
<1>4. m \notin {"valueOf", "slice", "concat"} => Outgoing(m, g) = g.ret
  BY DEF Outgoing, Readers
<1>5. CASE m \in {"indexOf", "includes", "lastIndexOf"}
  <2>1. Len(args) \in 1..2 /\ (2 <= Len(args) => args[2] \in Int)
    BY <1>5, SearchArguments
  <2>2. CASE m = "indexOf"
    <3>1. g = array_indexOf(h, args)
      BY <1>0, <2>2 DEF Call
    <3>2. g.ret = Answer("indexOf", h.list, args)
      BY <2>1, <3>1, IndexOfAnswers
    <3> QED BY <1>0, <1>4, <2>2, <3>2
  <2>3. CASE m = "includes"
    <3>1. g = array_includes(h, args)
      BY <1>0, <2>3 DEF Call
    <3>2. g.ret = Answer("includes", h.list, args)
      BY <2>1, <3>1, IndexOfAnswers
    <3> QED BY <1>0, <1>4, <2>3, <3>2
  <2>4. CASE m = "lastIndexOf"
    <3>1. g = array_lastIndexOf(h, args)
      BY <1>0, <2>4 DEF Call
    <3>2. g.ret = Answer("lastIndexOf", h.list, args)
      BY <2>1, <3>1, LastIndexOfAnswers
    <3> QED BY <1>0, <1>4, <2>4, <3>2
  <2> QED BY <1>5, <2>2, <2>3, <2>4
<1>6. CASE m = "flat"
  <2>1. g = array_flat(h, args)
    BY <1>0, <1>6 DEF Call
  <2>2. g.ret = Answer("flat", h.list, args)
    BY <1>6, <2>1, FlatAnswers DEF Departs
  <2> QED BY <1>0, <1>4, <1>6, <2>2
<1>7. CASE m \in {"join", "toString", "toLocaleString"}
  <2>1. g.ret = Answer(m, h.list, args)
    BY <1>0, <1>7, JoinAnswers
  <2> QED BY <1>0, <1>4, <1>7, <2>1
<1>8. CASE m = "get"
  <2>1. g = getOwnPropertyDescriptor(h, args)
    BY <1>0, <1>8, CallIs
  <2>2. args[1] = LengthKey \/ args[1] \in Nat
    BY <1>8, KeyArguments
  <2>3. g.ret = Answer("get", h.list, args)
    BY <2>1, <2>2, GetFacts
  <2> QED BY <1>0, <1>4, <1>8, <2>3
<1>9. CASE m = "ownKeys"
  <2>1. g = ownPropertyKeys(h, args)
    BY <1>0, <1>9 DEF Call
  <2>2. g.ret = Answer("ownKeys", h.list, args)
    BY <2>1, OwnKeysAnswers
  <2> QED BY <1>0, <1>4, <1>9, <2>2
<1> QED BY <1>1, <1>2, <1>3, <1>5, <1>6, <1>7, <1>8, <1>9 DEF Readers

LEMMA InvokeMeets ==
    ASSUME Safe, InvokeAny
    PROVE  MethodsMeetStandard'
<1>1. PICK m \in Calls \cap (Editors \cup Readers) : \E args \in Arguments(m) : Invoke(m, args)
  BY DEF InvokeAny
<1>2. PICK args \in Arguments(m) : Invoke(m, args)
  BY <1>1
<1> DEFINE h == Call(m, Heap, args)
<1>3. /\ Become(h)
      /\ last' = [m |-> m, args |-> args, before |-> list, ret |-> h.ret, out |-> h.out]
  BY <1>2 DEF Invoke
<1>4. IsHeap(Heap) /\ Heap.out = <<>> /\ Heap.list = list
  BY HeapIsHeap DEF Safe
<1>5. list' = h.list
  BY <1>3 DEF Become
<1>6. /\ last'.m = m /\ last'.args = args /\ last'.before = list
      /\ last'.ret = h.ret /\ last'.out = h.out
  BY <1>3
<1>7. Leaves(h, Heap, m, args)
  BY <1>4, CallFacts
<1>8. ASSUME ~Refused(m, Len(list), args), ~Departs(m, list, args)
      PROVE  h.list = Edited(m, list, args) /\ Outgoing(m, h) = Answer(m, list, args)
  <2>1. h.list = Edited(m, list, args)
    BY <1>4, <1>7, <1>8 DEF Leaves
  <2>2. CASE m \in Editors
    BY <1>4, <1>8, <2>1, <2>2, EditorAnswers
  <2>3. CASE m \in Readers
    BY <1>4, <1>8, <2>1, <2>3, ReaderAnswers
  <2> QED BY <2>2, <2>3
<1> HIDE DEF h
<1>9. Result' = Outgoing(m, h)
  BY <1>5, <1>6 DEF Result, Outgoing
<1>10. ASSUME ~Departs(m, list, args)
       PROVE  ~Refused(m, Len(list), args)
  <2>1. CASE m = "delete"
    <3>1. args[1] = LengthKey \/ args[1] \in Nat
      BY <2>1, KeyArguments
    <3>2. Len(list) \in Nat
      BY <1>4, HeapFacts
    <3>3. args[1] \in 0..(Len(list) - 1)
      BY <1>10, <2>1, <3>1, <3>2 DEF Departs
    <3> QED BY <1>10, <2>1, <3>3 DEF Refused
  <2>2. CASE m # "delete"
    BY <1>10, <2>2 DEF Refused, Departs
  <2> QED BY <2>1, <2>2
<1> QED BY <1>5, <1>6, <1>8, <1>9, <1>10 DEF MethodsMeetStandard

\* The last call was none of these methods.
LEMMA OtherMeets ==
    ASSUME last.m \notin Editors \cup Readers
    PROVE  MethodsMeetStandard
  BY DEF MethodsMeetStandard

LEMMA OtherLast ==
    ASSUME Safe,
           \/ Consume \/ StartOver
           \/ \E m \in Loops, given \in BOOLEAN : StartLoop(m, given)
           \/ Visit \/ EndLoop \/ CallThrows \/ \E r : CallReturns(r)
           \/ \E by \in Comparators : array_sort(by)
           \/ quickSort \/ invokeCallBack \/ \E r : CompareReturns(r)
           \/ CompareRefused \/ EndPartition \/ EndSort \/ EditAny
           \/ (\E r : ReturnsEarly(r)) \/ NestedThrows \/ FlatMapThrows
    PROVE  last'.m \notin Editors \cup Readers
<1>0. /\ NoCall.m \notin Editors \cup Readers
      /\ \A m \in Loops \cup {"sort"} : m \notin Editors \cup Readers
  BY NoLoops DEF NoCall, Editors, Readers
<1>1. CASE Consume \/ StartOver
  BY <1>0, <1>1 DEF Consume, StartOver
<1>2. CASE \E m \in Loops, given \in BOOLEAN : StartLoop(m, given)
  <2>1. PICK m \in Loops : (last' = last /\ last = NoCall) \/ last'.m = m
    BY <1>2 DEF StartLoop, Throw, Finish
  <2> QED BY <1>0, <2>1
<1>3. CASE EndLoop
  BY <1>0, <1>3 DEF EndLoop, Finish, InLoop
<1>4. CASE EndSort
  BY <1>0, <1>4 DEF EndSort, Throw, Finish, InSort
<1>5. CASE \E by \in Comparators : array_sort(by)
  BY <1>0, <1>5 DEF array_sort, Finish
<1>6. CASE CallThrows
  <2>1. frame.m \in Loops \cup {"sort"}
    BY <1>6, KindFacts DEF CallThrows, LoopOK, SortOK, IsLoop, IsSort
  <2> QED BY <1>0, <1>6, <2>1 DEF CallThrows, Throw, Finish
<1>7. CASE \/ Visit \/ \E r : CallReturns(r) \/ quickSort \/ invokeCallBack
           \/ \E r : CompareReturns(r) \/ CompareRefused \/ EndPartition \/ EditAny
  <2>1. last' = last /\ (frame.m \in Loops \/ frame.m = "sort" \/ InCallback)
    BY <1>7 DEF Visit, CallReturns, quickSort, invokeCallBack, CompareReturns, CompareRefused,
       EndPartition, EditAny, Edit, InLoop, InSort
  <2> QED BY <1>0, <2>1, KindFacts
<1>8. CASE FlatMapThrows
  <2>1. last'.m = frame.m
    <3>1. IsLoop(frame)
      BY <1>8, KindFacts DEF FlatMapThrows, LoopOK, SortOK, IsSort
    <3> QED BY <1>8, <3>1 DEF FlatMapThrows, Finish, IsLoop
  <2> QED BY <1>0, <1>8, <2>1 DEF FlatMapThrows, Loops
<1>9. CASE (\E r : ReturnsEarly(r)) \/ NestedThrows
  <2>1. last' = last /\ frame.m \in Loops
    BY <1>9 DEF ReturnsEarly, NestedThrows, Nested, InLoop, Loops
  <2> QED BY <1>0, <2>1, KindFacts
<1> QED BY <1>1, <1>2, <1>3, <1>4, <1>5, <1>6, <1>7, <1>8, <1>9

\* Whatever the list holds, and whatever the signs and sizes of the arguments: every
\* method leaves in the list, and returns, what ECMAScript asks of an Array, but for
\* the calls that Departs names: an assignment to `length`, the deletion of what is
\* not there, and a flat() with a negative depth, with one that is no int32, or that
\* finds less than the list is long.
THEOREM MethodsAsPromised == Spec => []MethodsMeetStandard
<1> DEFINE Inv == Safe /\ MethodsMeetStandard
<1>1. Init => Inv
  <2> SUFFICES ASSUME Init PROVE Inv
    OBVIOUS
  <2>1. Safe /\ last.m \notin Editors \cup Readers
    BY InitSafe DEF Init, NoCall, Editors, Readers
  <2> QED BY <2>1, OtherMeets
<1>2. Inv /\ [Next]_vars => Inv'
  <2> SUFFICES ASSUME Safe, MethodsMeetStandard, [Next]_vars PROVE MethodsMeetStandard'
    BY NextSafe
  <2>1. CASE UNCHANGED vars
    BY <2>1 DEF vars, MethodsMeetStandard, Result
  <2>2. CASE InvokeAny
    BY <2>2, InvokeMeets
  <2>3. CASE Next /\ ~InvokeAny
    <3>1. last'.m \notin Editors \cup Readers
      <4>1. \/ Consume \/ StartOver
            \/ \E m \in Loops, given \in BOOLEAN : StartLoop(m, given)
            \/ Visit \/ EndLoop \/ CallThrows \/ \E r : CallReturns(r)
            \/ \E by \in Comparators : array_sort(by)
            \/ quickSort \/ invokeCallBack \/ \E r : CompareReturns(r)
            \/ CompareRefused \/ EndPartition \/ EndSort \/ EditAny
            \/ (\E r : ReturnsEarly(r)) \/ NestedThrows \/ FlatMapThrows
        BY <2>3 DEF Next, InvokeAny, EditAny, GiveUp, Restart
      <4> QED BY <4>1, OtherLast
    <3>2. (last.m \notin Editors \cup Readers => MethodsMeetStandard)'
      BY OtherMeets, PTL
    <3> QED BY <3>1, <3>2
  <2> QED BY <2>1, <2>2, <2>3
<1>3. Inv => MethodsMeetStandard
  OBVIOUS
<1> QED BY <1>1, <1>2, <1>3, PTL DEF Spec
===============================================================================
