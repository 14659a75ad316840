------------------------------ MODULE Values_proofs ------------------------------
(***************************************************************************)
(* What is promised of values that cross between the languages one step at *)
(* a time: of the iterators over a JavaScript Array (ArrayIter) and over a *)
(* JavaScript object (ObjectIter), for every container and every way the   *)
(* program may change it between two calls of next(), of the arguments of  *)
(* a call, of integers and of strings (Conversions), for every size, and   *)
(* of every operation of a JavaScript object as a dict (ObjectProxy), for  *)
(* every object and every operand.                                         *)
(***************************************************************************)
EXTENDS Conversions, ArrayIter, ObjectProxy, SequenceTheorems, FiniteSetTheorems,
        WellFoundedInduction, TLAPS

-----------------------------------------------------------------------------
(* The iterators of src/src/JSArrayIterProxy.cc. *)

ArrayIterType ==
    /\ arr \in Seq(Items)
    /\ arrIt \in [state : {"none", "live", "spent"}, reversed : BOOLEAN, index : Int, start : Nat,
               given : Nat, shrunk : BOOLEAN, stale : BOOLEAN, short : BOOLEAN]

\* Forward, the place is the number of items given; backward, the two add up to
\* the last place there was.  Only a shrunken array is shorter than at the start.
ArrayPlaceCounts ==
    arrIt.state = "live" =>
        /\ ~arrIt.reversed => arrIt.index = arrIt.given
        /\ arrIt.reversed => arrIt.index + arrIt.given = arrIt.start - 1 /\ arrIt.index >= -1
        /\ ~arrIt.shrunk => arrIt.start <= Len(arr)

ArrayInv == ArrayIterType /\ ArrayPlaceCounts /\ IterationIsFaithful

\* The invariant holds at the start, when there is no iterator.
LEMMA ArrayInitInv == ArrayIterInit => ArrayInv
  BY SMT DEF ArrayIterInit, ArrayInv, ArrayIterType, ArrayPlaceCounts, IterationIsFaithful,
             NoArrayIter

\* Every step of an iterator, and every change of the array, keeps it.
LEMMA ArrayNextInv == ArrayInv /\ [ArrayIterNext]_arrIterVars => ArrayInv'
<1> SUFFICES ASSUME ArrayInv, [ArrayIterNext]_arrIterVars PROVE ArrayInv'
  OBVIOUS
<1> USE DEF ArrayInv, ArrayIterType, ArrayPlaceCounts, IterationIsFaithful
<1>0. Len(arr) \in Nat
  BY LenProperties
<1>1. CASE JSArrayProxy_iter
  BY <1>0, <1>1 DEF JSArrayProxy_iter, ArrayIterator, NoArrayIter
<1>2. CASE JSArrayProxy_iter_reverse
  BY <1>0, <1>2 DEF JSArrayProxy_iter_reverse, ArrayIterator, NoArrayIter
<1>3. CASE JSArrayIterProxy_next
  <2> DEFINE place == IF arrIt.reversed THEN arrIt.index - 1 ELSE arrIt.index + 1
             missing == arrIt.stale \/ arrIt.index >= Len(arr)
  <2>1. arrIt.state = "live" /\ ~AtArrayEnd /\ arr' = arr
    BY <1>3 DEF JSArrayIterProxy_next
  <2>2. arrIt' = [arrIt EXCEPT !.index = place, !.given = arrIt.given + 1, !.stale = missing]
    BY <1>3 DEF JSArrayIterProxy_next
  <2>3. missing \in BOOLEAN /\ place \in Int /\ arrIt.given + 1 \in Nat
    OBVIOUS
  <2> HIDE DEF place, missing
  <2>4. /\ arrIt'.state = "live" /\ arrIt'.reversed = arrIt.reversed /\ arrIt'.start = arrIt.start
        /\ arrIt'.shrunk = arrIt.shrunk /\ arrIt'.short = arrIt.short
        /\ arrIt'.index = place /\ arrIt'.given = arrIt.given + 1 /\ arrIt'.stale = missing
    BY <2>1, <2>2
  <2>5. ArrayIterType'
    <3> HIDE DEF ArrayPlaceCounts, IterationIsFaithful
    <3> DEFINE count == arrIt.given + 1
    <3>1. arrIt' = [arrIt EXCEPT !.index = place, !.given = count, !.stale = missing] /\ count \in Nat
      BY <2>2, <2>3
    <3> HIDE DEF count
    <3> QED BY <2>1, <2>3, <3>1
  <2>6. ArrayPlaceCounts'
    BY <2>1, <2>4, <1>0 DEF place, AtArrayEnd
  <2>7. missing => arrIt.shrunk /\ arrIt.reversed
    BY <2>1, <1>0 DEF missing, AtArrayEnd
  <2>8. IterationIsFaithful'
    BY <2>4, <2>7, Zenon
  <2> QED BY <2>5, <2>6, <2>8
<1>4. CASE arrNextEnds
  <2> DEFINE early == IF arrIt.reversed THEN arrIt.given # arrIt.start ELSE arrIt.given < Len(arr)
  <2>1. arrIt.state = "live" /\ AtArrayEnd /\ arr' = arr
    BY <1>4 DEF arrNextEnds
  <2>2. arrIt' = [arrIt EXCEPT !.state = "spent", !.short = early]
    BY <1>4 DEF arrNextEnds
  <2>3. early = FALSE
    BY <1>0, <2>1 DEF AtArrayEnd
  <2> HIDE DEF early
  <2>4. /\ arrIt'.state = "spent" /\ arrIt'.short = FALSE /\ arrIt'.stale = arrIt.stale
        /\ arrIt'.shrunk = arrIt.shrunk /\ arrIt'.reversed = arrIt.reversed
    BY <2>2, <2>3
  <2>5. ArrayIterType'
    BY <2>1, <2>2, <2>3
  <2>6. ArrayPlaceCounts'
    BY <2>4
  <2>7. IterationIsFaithful'
    BY <2>4, Zenon
  <2> QED BY <2>5, <2>6, <2>7
<1>5. CASE arrNextAgain
  BY <1>5 DEF arrNextAgain, arrIterVars
<1>6. CASE JSArrayIterProxy_dealloc
  BY <1>6 DEF JSArrayIterProxy_dealloc, NoArrayIter
<1>7. CASE ChangeArray
  <2>1. arr' \in Seq(Items) /\ Len(arr') \in Nat
    BY <1>7, LenProperties DEF ChangeArray
  <2>2. CASE arrIt.state = "none"
    BY <1>7, <2>1, <2>2 DEF ChangeArray, ArrayNoticed
  <2>3. CASE arrIt.state # "none"
    <3> DEFINE smaller == arrIt.shrunk \/ Len(arr') < Len(arr)
    <3>1. arrIt' = [arrIt EXCEPT !.shrunk = smaller]
      BY <1>7, <2>3 DEF ChangeArray, ArrayNoticed
    <3>2. smaller \in BOOLEAN /\ (~smaller => ~arrIt.shrunk /\ Len(arr) <= Len(arr'))
      BY <1>0, <2>1
    <3>3. arrIt.shrunk => smaller
      OBVIOUS
    <3> HIDE DEF smaller
    <3>4. /\ arrIt'.state = arrIt.state /\ arrIt'.reversed = arrIt.reversed /\ arrIt'.index = arrIt.index
          /\ arrIt'.given = arrIt.given /\ arrIt'.start = arrIt.start
          /\ arrIt'.stale = arrIt.stale
          /\ arrIt'.short = arrIt.short /\ arrIt'.shrunk = smaller
      BY <3>1
    <3>5. ArrayIterType'
      BY <2>1, <3>1, <3>2
    <3>6. ArrayPlaceCounts'
      BY <1>0, <2>1, <3>2, <3>4
    <3>7. IterationIsFaithful'
      BY <3>3, <3>4, Zenon
    <3> QED BY <3>5, <3>6, <3>7
  <2> QED BY <2>2, <2>3
<1>8. CASE UNCHANGED arrIterVars
  BY <1>8 DEF arrIterVars
<1> QED
  BY <1>1, <1>2, <1>3, <1>4, <1>5, <1>6, <1>7, <1>8 DEF ArrayIterNext

\* No place is left out or given twice, and no item is given that is not there,
\* except by a backward iterator under which the array has shrunk.
THEOREM Faithful == ArrayIterSpec => []IterationIsFaithful
<1>1. ArrayInv => IterationIsFaithful
  BY DEF ArrayInv
<1> QED BY ArrayInitInv, ArrayNextInv, <1>1, PTL DEF ArrayIterSpec

\* StopIteration is final.
THEOREM StopIsFinal == ArrayIterSpec => SpentStaysSpent
<1>1. ASSUME ArrayInv, [ArrayIterNext]_arrIterVars
      PROVE [arrIt.state = "spent" => arrIt'.state \in {"spent", "none"}]_arrIterVars
  <2> SUFFICES ASSUME arrIt.state = "spent", ArrayIterNext PROVE arrIt'.state \in {"spent", "none"}
    BY <1>1 DEF arrIterVars
  <2>1. CASE JSArrayProxy_iter \/ JSArrayProxy_iter_reverse \/ JSArrayIterProxy_next \/ arrNextEnds
    <3>1. arrIt.state = "none" \/ arrIt.state = "live"
      <4>1. NoArrayIter.state = "none"
        BY DEF NoArrayIter
      <4> QED BY <2>1, <4>1 DEF JSArrayProxy_iter, JSArrayProxy_iter_reverse,
                                JSArrayIterProxy_next, arrNextEnds
    <3> QED BY <3>1
  <2>2. CASE arrNextAgain
    BY <2>2 DEF arrNextAgain, arrIterVars
  <2>3. CASE JSArrayIterProxy_dealloc
    BY <2>3 DEF JSArrayIterProxy_dealloc, NoArrayIter
  <2>4. CASE ChangeArray
    BY <1>1, <2>4 DEF ChangeArray, ArrayNoticed, ArrayInv, ArrayIterType
  <2> QED
    BY <2>1, <2>2, <2>3, <2>4 DEF ArrayIterNext
<1> QED BY <1>1, ArrayInitInv, ArrayNextInv, PTL DEF ArrayIterSpec, SpentStaysSpent

-----------------------------------------------------------------------------
(* The iterators of src/src/JSObjectIterProxy.cc. *)

\* Of the item given last nothing is said.
ObjectIterType ==
    /\ obj \in Objects
    /\ \E o : objIt \in [state : {"none", "live", "spent", "crashed"}, kind : Kinds,
                      reversed : BOOLEAN, index : Int, props : Seq(Names), given : Nat,
                      out : {o}, grown : BOOLEAN, lessened : BOOLEAN]

\* The place and the number of items given determine each other; and the object
\* has as many properties as the copy unless the history says otherwise.
ObjectPlaceCounts ==
    objIt.state = "live" =>
        /\ ~objIt.reversed => objIt.index = objIt.given
        /\ objIt.reversed => objIt.index + objIt.given = Len(objIt.props) - 1
        /\ objIt.index >= -1
        /\ ~objIt.grown => Len(obj) <= Len(objIt.props)
        /\ ~objIt.lessened => Len(obj) >= Len(objIt.props)

ObjectInv == ObjectIterType /\ ObjectPlaceCounts /\ IterationIsSafe /\ IterationIsComplete

\* The keys of an object are as many as its properties.
LEMMA OwnKeysFacts ==
  ASSUME NEW o \in Objects
  PROVE  OwnKeys(o) \in Seq(Names) /\ Len(OwnKeys(o)) = Len(o) /\ Len(o) \in Nat
<1>1. Len(o) \in Nat /\ DOMAIN o = 1..Len(o)
  BY LenProperties DEF Objects
<1>2. \A i \in 1..Len(o) : o[i] \in Names \X (Values \cup {None})
  BY ElementOfSeq DEF Objects
<1>3. OwnKeys(o) = [i \in 1..Len(o) |-> o[i][1]]
  BY <1>1 DEF OwnKeys
<1>4. \A i \in 1..Len(o) : o[i][1] \in Names
  BY <1>2
<1> QED BY <1>1, <1>3, <1>4, SMT

\* The invariant holds at the start, when there is no iterator.
LEMMA ObjectInitInv == ObjectIterInit => ObjectInv
<1> SUFFICES ASSUME ObjectIterInit PROVE ObjectInv
  OBVIOUS
<1>1. objIt = NoObjectIter /\ obj \in Objects
  BY DEF ObjectIterInit
<1>2. ObjectIterType
  BY <1>1 DEF ObjectIterType, NoObjectIter, Kinds
<1> QED
  BY <1>1, <1>2 DEF ObjectInv, ObjectPlaceCounts, IterationIsSafe, IterationIsComplete,
                    NoObjectIter

\* A new iterator has a copy of the keys and stands before its first place.
LEMMA NewIterator ==
  ASSUME ObjectInv, NEW kind \in Kinds, NEW reversed \in BOOLEAN,
         ObjectIterator(kind, reversed, IF reversed THEN Len(obj) - 1 ELSE 0)
  PROVE  ObjectInv'
<1> DEFINE place == IF reversed THEN Len(obj) - 1 ELSE 0
<1>1. obj' = obj /\ obj \in Objects
  BY DEF ObjectIterator, ObjectInv, ObjectIterType
<1>2. objIt' = [NoObjectIter EXCEPT !.state = "live", !.kind = kind, !.reversed = reversed,
                           !.index = place, !.props = OwnKeys(obj)]
  BY DEF ObjectIterator
<1>3. /\ objIt'.state = "live" /\ objIt'.reversed = reversed /\ objIt'.index = place
      /\ objIt'.props = OwnKeys(obj) /\ objIt'.given = 0 /\ objIt'.grown = FALSE
      /\ objIt'.lessened = FALSE
  BY <1>2 DEF NoObjectIter
<1>4. OwnKeys(obj) \in Seq(Names) /\ Len(OwnKeys(obj)) = Len(obj) /\ Len(obj) \in Nat
  BY <1>1, OwnKeysFacts
<1>5. place \in Int
  BY <1>4
<1> HIDE DEF place
<1>6. ObjectIterType'
  BY <1>1, <1>2, <1>4, <1>5 DEF ObjectIterType, NoObjectIter
<1>7. ObjectPlaceCounts'
  BY <1>1, <1>3, <1>4 DEF ObjectPlaceCounts, place
<1>8. (IterationIsSafe /\ IterationIsComplete)'
  BY <1>3, <1>4 DEF IterationIsSafe, IterationIsComplete
<1> QED BY <1>6, <1>7, <1>8 DEF ObjectInv

\* A step of a live iterator that gives a key keeps the invariant.
LEMMA NextKey == ASSUME ObjectInv, JSObjectIterProxy_nextkey PROVE ObjectInv'
<1> DEFINE place == IF objIt.reversed THEN objIt.index - 1 ELSE objIt.index + 1
           item == Item(objIt.props[objIt.index + 1])
           count == objIt.given + 1
<1>1. objIt.state = "live" /\ ~AtObjectEnd /\ InCopy /\ obj' = obj
  BY DEF JSObjectIterProxy_nextkey
<1>2. objIt' = [objIt EXCEPT !.index = place, !.given = count, !.out = item]
  BY DEF JSObjectIterProxy_nextkey
<1>3. PICK o : objIt \in [state : {"none", "live", "spent", "crashed"}, kind : Kinds,
                       reversed : BOOLEAN, index : Int, props : Seq(Names), given : Nat,
                       out : {o}, grown : BOOLEAN, lessened : BOOLEAN]
  BY DEF ObjectInv, ObjectIterType
<1>4. place \in Int /\ count \in Nat
  BY <1>3
<1>5. obj \in Objects
  BY DEF ObjectInv, ObjectIterType
<1>6. Len(obj) \in Nat /\ Len(OwnKeys(obj)) = Len(obj) /\ Len(objIt.props) \in Nat
  BY <1>3, <1>5, OwnKeysFacts, LenProperties
<1> HIDE DEF place, item, count
<1>7. /\ objIt'.state = "live" /\ objIt'.reversed = objIt.reversed /\ objIt'.props = objIt.props
      /\ objIt'.grown = objIt.grown /\ objIt'.lessened = objIt.lessened
      /\ objIt'.index = place /\ objIt'.given = count
  BY <1>1, <1>2, <1>3
<1>8. ObjectIterType'
  <2>1. objIt' \in [state : {"none", "live", "spent", "crashed"}, kind : Kinds,
                 reversed : BOOLEAN, index : Int, props : Seq(Names), given : Nat,
                 out : {item}, grown : BOOLEAN, lessened : BOOLEAN]
    BY <1>2, <1>3, <1>4
  <2> QED BY <1>1, <1>5, <2>1 DEF ObjectIterType
<1>9. ObjectPlaceCounts'
  BY <1>1, <1>3, <1>6, <1>7 DEF ObjectInv, ObjectPlaceCounts, place, count, AtObjectEnd,
                                JSObjectProxy_length
<1>10. (IterationIsSafe /\ IterationIsComplete)'
  <2>1. count <= Len(objIt.props)
    BY <1>1, <1>3, <1>6 DEF ObjectInv, ObjectPlaceCounts, count, AtObjectEnd, InCopy,
                            JSObjectProxy_length
  <2> QED BY <1>7, <2>1 DEF IterationIsSafe, IterationIsComplete
<1> QED BY <1>8, <1>9, <1>10 DEF ObjectInv

\* So does a change of the object.
LEMMA ChangeKeeps == ASSUME ObjectInv, ChangeObject PROVE ObjectInv'
<1>1. obj' \in Objects /\ obj \in Objects /\ objIt.state # "crashed"
  BY DEF ChangeObject, ObjectInv, ObjectIterType
<1>2. Len(obj') \in Nat /\ Len(obj) \in Nat
  BY <1>1, OwnKeysFacts
<1>3. CASE objIt.state = "none"
  <2>1. objIt' = objIt
    BY <1>3 DEF ChangeObject, ObjectNoticed
  <2> QED BY <1>1, <1>3, <2>1 DEF ObjectInv, ObjectIterType, ObjectPlaceCounts,
                                  IterationIsSafe, IterationIsComplete
<1>4. CASE objIt.state # "none"
  <2> DEFINE more == objIt.grown \/ Len(obj') > Len(objIt.props)
             fewer == objIt.lessened \/ Len(obj') < Len(objIt.props)
  <2>1. objIt' = [objIt EXCEPT !.grown = more, !.lessened = fewer]
    BY <1>4 DEF ChangeObject, ObjectNoticed
  <2>2. PICK o : objIt \in [state : {"none", "live", "spent", "crashed"}, kind : Kinds,
                         reversed : BOOLEAN, index : Int, props : Seq(Names), given : Nat,
                         out : {o}, grown : BOOLEAN, lessened : BOOLEAN]
    BY DEF ObjectInv, ObjectIterType
  <2>3. Len(objIt.props) \in Nat
    BY <2>2, LenProperties
  <2>4. /\ more \in BOOLEAN /\ fewer \in BOOLEAN
        /\ ~more => Len(obj') <= Len(objIt.props)
        /\ ~fewer => Len(obj') >= Len(objIt.props)
    BY <1>2, <2>3
  <2>5. objIt.lessened => fewer
    OBVIOUS
  <2> HIDE DEF more, fewer
  <2>6. /\ objIt'.state = objIt.state /\ objIt'.reversed = objIt.reversed /\ objIt'.props = objIt.props
        /\ objIt'.index = objIt.index /\ objIt'.given = objIt.given
        /\ objIt'.grown = more /\ objIt'.lessened = fewer
    BY <2>1, <2>2
  <2>7. ObjectIterType'
    BY <1>1, <2>1, <2>2, <2>4 DEF ObjectIterType
  <2>8. ObjectPlaceCounts'
    BY <2>4, <2>6 DEF ObjectInv, ObjectPlaceCounts
  <2>9. (IterationIsSafe /\ IterationIsComplete)'
    BY <1>1, <2>5, <2>6 DEF ObjectInv, IterationIsSafe, IterationIsComplete
  <2> QED BY <2>7, <2>8, <2>9 DEF ObjectInv
<1> QED BY <1>3, <1>4

\* Every step keeps the invariant.
LEMMA ObjectNextInv == ObjectInv /\ [ObjectIterNext]_objIterVars => ObjectInv'
<1> SUFFICES ASSUME ObjectInv, [ObjectIterNext]_objIterVars PROVE ObjectInv'
  OBVIOUS
<1>0. PICK o : objIt \in [state : {"none", "live", "spent", "crashed"}, kind : Kinds,
                       reversed : BOOLEAN, index : Int, props : Seq(Names), given : Nat,
                       out : {o}, grown : BOOLEAN, lessened : BOOLEAN]
  BY DEF ObjectInv, ObjectIterType
<1>1. /\ obj \in Objects /\ Len(OwnKeys(obj)) = Len(obj) /\ Len(obj) \in Nat
      /\ Len(objIt.props) \in Nat
  BY <1>0, OwnKeysFacts, LenProperties DEF ObjectInv, ObjectIterType
<1>2. CASE \/ JSObjectProxy_iter \/ JSObjectKeysProxy_iter \/ JSObjectValuesProxy_iter
           \/ JSObjectItemsProxy_iter
  <2>1. \E kind \in Kinds : ObjectIterator(kind, FALSE, 0)
    BY <1>2 DEF JSObjectProxy_iter, JSObjectKeysProxy_iter, JSObjectValuesProxy_iter,
                JSObjectItemsProxy_iter, Kinds
  <2> QED BY <2>1, NewIterator
<1>3. CASE JSObjectKeysProxy_iter_reverse \/ JSObjectValuesProxy_iter_reverse
           \/ JSObjectItemsProxy_iter_reverse
  <2>1. \E kind \in Kinds : ObjectIterator(kind, TRUE, Len(obj) - 1)
    BY <1>1, <1>3 DEF JSObjectKeysProxy_iter_reverse, JSObjectValuesProxy_iter_reverse,
                JSObjectItemsProxy_iter_reverse, JSObjectValuesProxy_length,
                JSObjectItemsProxy_length, JSObjectProxy_length, Kinds
  <2> QED BY <2>1, NewIterator
<1>4. CASE JSObjectIterProxy_nextkey
  BY <1>4, NextKey
<1>5. CASE ReadBeyondCopy
  <2>1. objIt.state = "live" /\ ~AtObjectEnd /\ ~InCopy /\ obj' = obj /\ objIt' = [objIt EXCEPT !.state = "crashed"]
    BY <1>5 DEF ReadBeyondCopy
  <2>2. /\ objIt'.state = "crashed" /\ objIt'.grown = objIt.grown /\ objIt'.reversed = objIt.reversed
        /\ objIt'.given = objIt.given /\ objIt'.props = objIt.props
    BY <1>0, <2>1
  <2>3. ObjectIterType'
    BY <1>0, <1>1, <2>1 DEF ObjectIterType
  <2>4. ~objIt.reversed
    BY <1>0, <1>1, <2>1 DEF ObjectInv, ObjectPlaceCounts, AtObjectEnd, InCopy
  <2>5. objIt.grown
    BY <1>0, <1>1, <2>1, <2>4 DEF ObjectInv, ObjectPlaceCounts, AtObjectEnd, InCopy,
                                  JSObjectProxy_length
  <2> QED BY <2>2, <2>3, <2>4, <2>5 DEF ObjectInv, ObjectPlaceCounts, IterationIsSafe,
                                        IterationIsComplete
<1>6. CASE objNextEnds
  <2>1. objIt.state = "live" /\ AtObjectEnd /\ obj' = obj /\ objIt' = [objIt EXCEPT !.state = "spent", !.out = <<>>]
    BY <1>6 DEF objNextEnds
  <2>2. /\ objIt'.state = "spent" /\ objIt'.reversed = objIt.reversed /\ objIt'.lessened = objIt.lessened
        /\ objIt'.given = objIt.given /\ objIt'.props = objIt.props
    BY <1>0, <2>1
  <2>3. ObjectIterType'
    BY <1>0, <1>1, <2>1 DEF ObjectIterType
  <2>4. objIt.reversed => objIt.given = Len(objIt.props)
    BY <1>0, <1>1, <2>1 DEF ObjectInv, ObjectPlaceCounts, AtObjectEnd
  <2>5. ~objIt.reversed /\ ~objIt.lessened => objIt.given = Len(objIt.props)
    BY <1>0, <1>1, <2>1 DEF ObjectInv, ObjectPlaceCounts, AtObjectEnd, JSObjectProxy_length,
                            IterationIsComplete
  <2> QED BY <2>2, <2>3, <2>4, <2>5 DEF ObjectInv, ObjectPlaceCounts, IterationIsSafe,
                                        IterationIsComplete
<1>7. CASE objNextAgain \/ UNCHANGED objIterVars
  BY <1>7 DEF objNextAgain, objIterVars, ObjectInv, ObjectIterType, ObjectPlaceCounts,
              IterationIsSafe, IterationIsComplete
<1>8. CASE JSObjectIterProxy_dealloc
  <2>1. objIt' = NoObjectIter /\ obj' = obj
    BY <1>8 DEF JSObjectIterProxy_dealloc
  <2>2. ObjectIterType'
    BY <1>1, <2>1 DEF ObjectIterType, NoObjectIter, Kinds
  <2> QED BY <2>1, <2>2 DEF ObjectInv, ObjectPlaceCounts, IterationIsSafe,
                            IterationIsComplete, NoObjectIter
<1>9. CASE ChangeObject
  BY <1>9, ChangeKeeps
<1> QED
  BY <1>2, <1>3, <1>4, <1>5, <1>6, <1>7, <1>8, <1>9 DEF ObjectIterNext

\* Only properties that were added under a forward iterator take it out of its copy.
THEOREM Safe == ObjectIterSpec => []IterationIsSafe
<1>1. ObjectInv => IterationIsSafe
  BY DEF ObjectInv
<1> QED BY ObjectInitInv, ObjectNextInv, <1>1, PTL DEF ObjectIterSpec

\* An iterator that ends has been to every key of its copy, unless properties were
\* removed under a forward iterator.
THEOREM Complete == ObjectIterSpec => []IterationIsComplete
<1>1. ObjectInv => IterationIsComplete
  BY DEF ObjectInv
<1> QED BY ObjectInitInv, ObjectNextInv, <1>1, PTL DEF ObjectIterSpec

-----------------------------------------------------------------------------
(* Induction, for facts about loops and sequences.                         *)

\* A set of natural numbers that is not empty has a least element.
LEMMA LeastNat ==
    ASSUME NEW T, T \subseteq Nat, T # {}
    PROVE  \E x \in T : \A y \in T : x <= y
<1> DEFINE R == OpToRel(<, Nat)
<1>0. IsWellFoundedOn(R, Nat)
  BY NatLessThanWellFounded
<1> HIDE DEF R
<1>1. \E x \in T : \A y \in T : ~(<<y, x>> \in R)
  BY <1>0, WFMin
<1>2. \A x, y \in Nat : x < y => <<x, y>> \in R
  BY DEF R, OpToRel
<1>3. PICK x \in T : \A y \in T : ~(<<y, x>> \in R)
  BY <1>1
<1>4. ASSUME NEW y \in T PROVE x <= y
  <2>1. x \in Nat /\ y \in Nat
    OBVIOUS
  <2>2. ~(y < x)
    BY <1>2, <1>3, <2>1
  <2> QED BY <2>1, <2>2
<1> QED BY <1>4

\* A set that holds 0 and the successor of each of its numbers holds them all.
LEMMA NatInd ==
    ASSUME NEW T, 0 \in T, \A n \in Nat : n \in T => n + 1 \in T
    PROVE  Nat \subseteq T
<1> SUFFICES ASSUME Nat \ T # {}
             PROVE  FALSE
  OBVIOUS
<1>1. PICK x \in Nat \ T : \A y \in Nat \ T : x <= y
  BY LeastNat
<1>2. x # 0 /\ x - 1 \in Nat
  BY <1>1
<1>3. x - 1 \in T
  BY <1>1, <1>2
<1>4. x - 1 + 1 \in T
  BY <1>2, <1>3
<1> QED BY <1>1, <1>4, <1>2

\* What every step keeps holds after every step.
LEMMA LoopKeeps ==
    ASSUME NEW n \in Nat, NEW f, NEW D, f[0] \in D[0],
           \A k \in 1..n : f[k - 1] \in D[k - 1] => f[k] \in D[k]
    PROVE  \A k \in 0..n : f[k] \in D[k]
<1> DEFINE T == {m \in Nat : m <= n => f[m] \in D[m]}
<1>1. 0 \in T
  OBVIOUS
<1>2. ASSUME NEW m \in Nat, m \in T PROVE m + 1 \in T
  <2> SUFFICES ASSUME m + 1 <= n PROVE f[m + 1] \in D[m + 1]
    OBVIOUS
  <2>1. m + 1 \in 1..n /\ (m + 1) - 1 = m /\ f[m] \in D[m]
    BY <1>2
  <2> QED BY <2>1
<1>3. Nat \subseteq T
  <2> HIDE DEF T
  <2> QED BY <1>1, <1>2, NatInd
<1> QED BY <1>3

-----------------------------------------------------------------------------
(* Powers of two, and the digits of a number.                              *)

\* The function that TwoTo computes with.
Doubles(f, n) == f = [k \in 0..n |-> IF k = 0 THEN 1 ELSE 2 * f[k - 1]]

LEMMA DoublesExist == \A n \in Nat : \E f : Doubles(f, n)
<1> DEFINE T == {n \in Nat : \E f : Doubles(f, n)}
<1>1. 0 \in T
  <2>1. Doubles([k \in 0..0 |-> 1], 0)
    BY DEF Doubles
  <2> QED BY <2>1
<1>2. ASSUME NEW n \in Nat, n \in T PROVE n + 1 \in T
  <2>1. PICK f : Doubles(f, n)
    BY <1>2
  <2> DEFINE g == [k \in 0..(n + 1) |-> IF k <= n THEN f[k] ELSE 2 * f[n]]
  <2>2. Doubles(g, n + 1)
    BY <2>1 DEF Doubles
  <2> HIDE DEF g
  <2> QED BY <2>2
<1> HIDE DEF T
<1>3. Nat \subseteq T
  BY <1>1, <1>2, NatInd
<1> QED BY <1>3 DEF T

LEMMA TwoToIs ==
    ASSUME NEW n \in Nat, NEW f, Doubles(f, n)
    PROVE  TwoTo(n) = f[n] /\ f[n] \in Nat
<1> DEFINE g == CHOOSE h : Doubles(h, n)
<1>1. Doubles(g, n)
  OBVIOUS
<1>2. TwoTo(n) = g[n]
  BY DEF TwoTo, Doubles
<1> HIDE DEF g
<1>3. f[0] = 1 /\ g[0] = 1
  BY <1>1 DEF Doubles
<1>4. ASSUME NEW k \in 1..n PROVE f[k] = 2 * f[k - 1] /\ g[k] = 2 * g[k - 1]
  BY <1>1 DEF Doubles
<1>5. \A k \in 0..n : f[k] \in {x \in Nat : x = g[k]}
  <2> DEFINE D == [k \in 0..n |-> {x \in Nat : x = g[k]}]
  <2>1. f[0] \in D[0]
    BY <1>3
  <2>2. ASSUME NEW k \in 1..n, f[k - 1] \in D[k - 1] PROVE f[k] \in D[k]
    BY <1>4, <2>2
  <2>3. \A k \in 0..n : D[k] = {x \in Nat : x = g[k]}
    OBVIOUS
  <2> HIDE DEF D
  <2>4. \A k \in 0..n : f[k] \in D[k]
    BY <2>1, <2>2, LoopKeeps
  <2> QED BY <2>3, <2>4
<1> QED BY <1>2, <1>5

LEMMA TwoToNext == TwoTo(0) = 1 /\ \A n \in Nat : TwoTo(n) \in Nat /\ TwoTo(n + 1) = 2 * TwoTo(n)
<1>1. TwoTo(0) = 1
  <2>1. PICK f : Doubles(f, 0)
    BY DoublesExist
  <2>2. f[0] = 1
    BY <2>1 DEF Doubles
  <2> QED BY <2>1, <2>2, TwoToIs
<1>2. ASSUME NEW n \in Nat PROVE TwoTo(n) \in Nat /\ TwoTo(n + 1) = 2 * TwoTo(n)
  <2>1. PICK f : Doubles(f, n + 1)
    BY DoublesExist
  <2> DEFINE g == [k \in 0..n |-> f[k]]
  <2>2. Doubles(g, n)
    BY <2>1 DEF Doubles
  <2>3. g[n] = f[n] /\ f[n + 1] = 2 * f[n]
    BY <2>1 DEF Doubles
  <2> HIDE DEF g
  <2> QED BY <2>1, <2>2, <2>3, TwoToIs
<1> QED BY <1>1, <1>2

\* The laws of powers.
LEMMA TwoToLaws ==
    /\ \A n \in Nat : TwoTo(n) \in Nat \ {0} /\ n < TwoTo(n)
    /\ \A m, n \in Nat : TwoTo(m + n) = TwoTo(m) * TwoTo(n)
    /\ \A m, n \in Nat : m <= n => TwoTo(m) <= TwoTo(n)
<1>1. \A n \in Nat : TwoTo(n) \in Nat \ {0} /\ n < TwoTo(n)
  <2> DEFINE T == {n \in Nat : TwoTo(n) \in Nat \ {0} /\ n < TwoTo(n)}
  <2>1. 0 \in T
    BY TwoToNext
  <2>2. ASSUME NEW n \in Nat, n \in T PROVE n + 1 \in T
    BY <2>2, TwoToNext
  <2>3. Nat \subseteq T
    <3> HIDE DEF T
    <3> QED BY <2>1, <2>2, NatInd
  <2> QED BY <2>3
<1>2. ASSUME NEW m \in Nat PROVE \A n \in Nat : TwoTo(m + n) = TwoTo(m) * TwoTo(n)
  <2> DEFINE T == {n \in Nat : TwoTo(m + n) = TwoTo(m) * TwoTo(n)}
  <2>1. 0 \in T
    BY <1>1, TwoToNext
  <2>2. ASSUME NEW n \in Nat, n \in T PROVE n + 1 \in T
    <3>1. m + (n + 1) = (m + n) + 1 /\ m + n \in Nat
      OBVIOUS
    <3>2. TwoTo(m + (n + 1)) = 2 * (TwoTo(m) * TwoTo(n)) /\ TwoTo(n + 1) = 2 * TwoTo(n)
      BY <2>2, <3>1, TwoToNext
    <3>3. \A a, b \in Nat : 2 * (a * b) = a * (2 * b)
      OBVIOUS
    <3>4. TwoTo(m) \in Nat /\ TwoTo(n) \in Nat
      BY TwoToNext
    <3> QED BY <3>2, <3>3, <3>4
  <2>3. Nat \subseteq T
    <3> HIDE DEF T
    <3> QED BY <2>1, <2>2, NatInd
  <2> QED BY <2>3
<1>3. ASSUME NEW m \in Nat, NEW n \in Nat, m <= n PROVE TwoTo(m) <= TwoTo(n)
  <2>1. n - m \in Nat /\ m + (n - m) = n
    BY <1>3
  <2>2. TwoTo(n) = TwoTo(m) * TwoTo(n - m)
    BY <1>2, <2>1
  <2>3. \A a, b \in Nat \ {0} : a <= a * b
    OBVIOUS
  <2> QED BY <1>1, <2>1, <2>2, <2>3
<1> QED BY <1>1, <1>2, <1>3

\* A number takes NumBits(n) bits and no fewer.
LEMMA BitsOf ==
    ASSUME NEW n \in Int
    PROVE  /\ NumBits(n) \in Nat /\ Abs(n) \in Nat
           /\ Abs(n) < TwoTo(NumBits(n))
           /\ NumBits(n) > 0 => Abs(n) >= TwoTo(NumBits(n) - 1)
<1> DEFINE x     == Abs(n)
           T     == {b \in Nat : x < TwoTo(b)}
           Is(b) == x < TwoTo(b) /\ (b > 0 => x >= TwoTo(b - 1))
<1>1. x \in Nat
  BY DEF Abs
<1> HIDE DEF x
<1>2. x \in T
  BY <1>1, TwoToLaws
<1>3. PICK b \in T : \A c \in T : b <= c
  BY <1>2, LeastNat
<1>4. b \in 0..x /\ x < TwoTo(b)
  BY <1>1, <1>2, <1>3
<1>5. b > 0 => x >= TwoTo(b - 1)
  <2> SUFFICES ASSUME b > 0, x < TwoTo(b - 1) PROVE FALSE
    BY <1>1, <1>4, TwoToLaws
  <2>1. b - 1 \in T
    BY <1>4
  <2> QED BY <1>3, <1>4, <2>1
<1>6. NumBits(n) = CHOOSE c \in 0..x : Is(c)
  BY DEF NumBits, x
<1>7. b \in 0..x /\ Is(b)
  BY <1>4, <1>5
<1>8. NumBits(n) \in 0..x /\ Is(NumBits(n))
  <2> HIDE DEF Is
  <2> QED BY <1>6, <1>7
<1> QED BY <1>1, <1>8 DEF x

\* The value of digits, and the function that FromDigits computes with.
Place(i) == TwoTo(WordBits * i)
Sums(f, n, d) == f = [k \in 0..n |-> IF k = 0 THEN 0 ELSE f[k - 1] + d[k] * Place(k - 1)]

LEMMA Places ==
    /\ WordBits \in Nat \ {0}
    /\ Place(0) = 1
    /\ \A i \in Nat : Place(i) \in Nat \ {0} /\ Place(i + 1) = Place(i) * TwoTo(WordBits)
<1>1. WordBits \in Nat \ {0}
  BY ConversionsAssumption
<1>2. Place(0) = 1
  BY <1>1, TwoToNext DEF Place
<1>3. ASSUME NEW i \in Nat
      PROVE  Place(i) \in Nat \ {0} /\ Place(i + 1) = Place(i) * TwoTo(WordBits)
  <2>1. WordBits * i \in Nat /\ WordBits * (i + 1) = WordBits * i + WordBits
    BY <1>1
  <2> QED BY <1>1, <2>1, TwoToLaws DEF Place
<1> QED BY <1>1, <1>2, <1>3

LEMMA SumsExist == \A d : \A n \in Nat : \E f : Sums(f, n, d)
<1> SUFFICES ASSUME NEW d PROVE \A n \in Nat : \E f : Sums(f, n, d)
  OBVIOUS
<1> DEFINE T == {n \in Nat : \E f : Sums(f, n, d)}
<1>1. 0 \in T
  <2>1. Sums([k \in 0..0 |-> 0], 0, d)
    BY DEF Sums
  <2> QED BY <2>1
<1>2. ASSUME NEW n \in Nat, n \in T PROVE n + 1 \in T
  <2>1. PICK f : Sums(f, n, d)
    BY <1>2
  <2> DEFINE g == [k \in 0..(n + 1) |-> IF k <= n THEN f[k] ELSE f[n] + d[n + 1] * Place(n)]
  <2>2. Sums(g, n + 1, d)
    BY <2>1 DEF Sums
  <2> HIDE DEF g
  <2> QED BY <2>2
<1> HIDE DEF T
<1>3. Nat \subseteq T
  BY <1>1, <1>2, NatInd
<1> QED BY <1>3 DEF T

LEMMA FromDigitsIs ==
    ASSUME NEW d \in Seq(Nat), NEW f, Sums(f, Len(d), d)
    PROVE  FromDigits(d) = f[Len(d)] /\ f[Len(d)] \in Nat
<1> DEFINE g == CHOOSE h : Sums(h, Len(d), d)
           n == Len(d)
<1>1. Sums(g, n, d)
  OBVIOUS
<1>2. FromDigits(d) = g[n]
  BY DEF FromDigits, Sums, Place
<1> HIDE DEF g
<1>3. f[0] = 0 /\ g[0] = 0 /\ n \in Nat
  BY <1>1 DEF Sums
<1>4. ASSUME NEW k \in 1..n
      PROVE  /\ f[k] = f[k - 1] + d[k] * Place(k - 1)
             /\ g[k] = g[k - 1] + d[k] * Place(k - 1)
             /\ d[k] * Place(k - 1) \in Nat
  <2>1. f[k] = f[k - 1] + d[k] * Place(k - 1) /\ g[k] = g[k - 1] + d[k] * Place(k - 1)
    <3>1. k \in 0..n /\ k # 0
      BY <1>3
    <3>2. f = [j \in 0..n |-> IF j = 0 THEN 0 ELSE f[j - 1] + d[j] * Place(j - 1)]
      BY DEF Sums
    <3>3. g = [j \in 0..n |-> IF j = 0 THEN 0 ELSE g[j - 1] + d[j] * Place(j - 1)]
      BY <1>1 DEF Sums
    <3> HIDE DEF n
    <3>4. f[k] = f[k - 1] + d[k] * Place(k - 1)
      BY <3>1, <3>2
    <3>5. g[k] = g[k - 1] + d[k] * Place(k - 1)
      BY <3>1, <3>3
    <3> QED BY <3>4, <3>5
  <2>2. d[k] \in Nat /\ k - 1 \in Nat
    OBVIOUS
  <2>3. Place(k - 1) \in Nat
    BY <2>2, Places
  <2> QED BY <2>1, <2>2, <2>3
<1>5. \A k \in 0..n : f[k] \in {x \in Nat : x = g[k]}
  <2> DEFINE D == [k \in 0..n |-> {x \in Nat : x = g[k]}]
  <2>1. f[0] \in D[0]
    BY <1>3
  <2>2. ASSUME NEW k \in 1..n, f[k - 1] \in D[k - 1] PROVE f[k] \in D[k]
    BY <1>4, <2>2
  <2>3. \A k \in 0..n : D[k] = {x \in Nat : x = g[k]}
    OBVIOUS
  <2> HIDE DEF D
  <2>4. \A k \in 0..n : f[k] \in D[k]
    BY <1>3, <2>1, <2>2, LoopKeeps
  <2> QED BY <2>3, <2>4
<1> QED BY <1>2, <1>3, <1>5

\* One digit more is worth its place.
LEMMA FromDigitsAppend ==
    /\ FromDigits(<<>>) = 0
    /\ \A d \in Seq(Nat), v \in Nat :
         /\ FromDigits(d) \in Nat
         /\ FromDigits(Append(d, v)) = FromDigits(d) + v * Place(Len(d))
<1>1. FromDigits(<<>>) = 0
  <2> DEFINE d == <<>>
  <2>1. d \in Seq(Nat) /\ Len(d) = 0
    OBVIOUS
  <2> HIDE DEF d
  <2>2. PICK f : Sums(f, 0, d)
    BY SumsExist
  <2>3. f[0] = 0
    BY <2>2 DEF Sums
  <2>4. FromDigits(d) = 0
    BY <2>1, <2>2, <2>3, FromDigitsIs
  <2> QED BY <2>4 DEF d
<1>2. ASSUME NEW d \in Seq(Nat), NEW v \in Nat
      PROVE  /\ FromDigits(d) \in Nat
             /\ FromDigits(Append(d, v)) = FromDigits(d) + v * Place(Len(d))
  <2> DEFINE n == Len(d)
             t == Append(d, v)
  <2>1. /\ n \in Nat /\ t \in Seq(Nat) /\ Len(t) = n + 1 /\ t[n + 1] = v
        /\ \A k \in 1..n : t[k] = d[k]
    OBVIOUS
  <2> HIDE DEF t, n
  <2>a. n + 1 \in Nat
    BY <2>1
  <2>2. PICK f : Sums(f, n + 1, t)
    BY <2>a, SumsExist
  <2> DEFINE g == [k \in 0..n |-> f[k]]
  <2>3. Sums(g, n, d)
    BY <2>1, <2>2 DEF Sums
  <2>4. g[n] = f[n] /\ f[n + 1] = f[n] + v * Place(n)
    BY <2>1, <2>2 DEF Sums
  <2> HIDE DEF g
  <2>5. FromDigits(d) = f[n] /\ f[n] \in Nat
    BY <2>3, <2>4, FromDigitsIs DEF n
  <2>6. FromDigits(t) = f[n + 1]
    BY <2>1, <2>2, FromDigitsIs
  <2> QED BY <2>4, <2>5, <2>6 DEF t, n
<1> QED BY <1>1, <1>2

\* Division with a remainder.
LEMMA Divided ==
    ASSUME NEW x \in Nat, NEW m \in Nat \ {0}
    PROVE  /\ x \div m \in Nat /\ x % m \in 0..(m - 1)
           /\ x = (x \div m) * m + (x % m)
OBVIOUS

\* Digits gives as much of a number as its places hold.
LEMMA DigitsHold ==
    ASSUME NEW x \in Nat
    PROVE  \A c \in Nat : /\ Digits(x, c) \in Seq(Nat) /\ Len(Digits(x, c)) = c
                          /\ FromDigits(Digits(x, c)) = x % Place(c)
<1> DEFINE B == TwoTo(WordBits)
           T == {c \in Nat : FromDigits(Digits(x, c)) = x % Place(c)}
<1>1. B \in Nat \ {0}
  BY Places, TwoToLaws
<1>2. ASSUME NEW c \in Nat
      PROVE  /\ Digits(x, c) \in Seq(Nat) /\ Len(Digits(x, c)) = c
             /\ \A i \in 1..c : Digits(x, c)[i] = (x \div Place(i - 1)) % B
  <2>1. Digits(x, c) = [i \in 1..c |-> (x \div Place(i - 1)) % B]
    BY DEF Digits, Place
  <2>2. ASSUME NEW i \in 1..c PROVE (x \div Place(i - 1)) % B \in Nat
    <3>1. Place(i - 1) \in Nat \ {0}
      BY Places
    <3>2. x \div Place(i - 1) \in Nat
      BY <3>1
    <3> HIDE DEF B
    <3> QED BY <1>1, <3>2
  <2> HIDE DEF B
  <2> QED BY <2>1, <2>2
<1>3. 0 \in T
  <2>1. Digits(x, 0) = <<>>
    BY <1>2
  <2> QED BY <2>1, FromDigitsAppend, Places
<1>4. ASSUME NEW c \in Nat, c \in T PROVE c + 1 \in T
  <2> DEFINE v == (x \div Place(c)) % B
  <2>1. Place(c) \in Nat \ {0} /\ Place(c + 1) = Place(c) * B
    BY Places
  <2>2. x \div Place(c) \in Nat /\ x = (x \div Place(c)) * Place(c) + (x % Place(c))
        /\ x % Place(c) \in 0..(Place(c) - 1)
    BY <2>1, Divided
  <2>3. v \in 0..(B - 1) /\ (x \div Place(c)) \div B \in Nat
        /\ x \div Place(c) = ((x \div Place(c)) \div B) * B + v
    <3> DEFINE y == x \div Place(c)
    <3>1. y \in Nat
      BY <2>2
    <3> HIDE DEF B, y
    <3>2. y % B \in 0..(B - 1) /\ y \div B \in Nat /\ y = (y \div B) * B + (y % B)
      BY <1>1, <3>1, Divided
    <3> QED BY <3>2 DEF y
  <2>4. Digits(x, c + 1) = Append(Digits(x, c), v)
    <3>1. /\ Digits(x, c) \in Seq(Nat) /\ Len(Digits(x, c)) = c
          /\ Digits(x, c + 1) \in Seq(Nat) /\ Len(Digits(x, c + 1)) = c + 1
      BY <1>2
    <3>2. Digits(x, c + 1)[c + 1] = v /\ \A i \in 1..c : Digits(x, c + 1)[i] = Digits(x, c)[i]
      BY <1>2
    <3> HIDE DEF v
    <3>3. v \in Nat
      BY <1>1, <2>3
    <3>4. /\ Append(Digits(x, c), v) \in Seq(Nat) /\ Len(Append(Digits(x, c), v)) = c + 1
          /\ Append(Digits(x, c), v)[c + 1] = v
          /\ \A i \in 1..c : Append(Digits(x, c), v)[i] = Digits(x, c)[i]
      BY <3>1, <3>3
    <3>5. \A i \in 1..(c + 1) : Append(Digits(x, c), v)[i] = Digits(x, c + 1)[i]
      BY <3>2, <3>4
    <3> QED BY <3>1, <3>4, <3>5, SeqEqual
  <2>5. FromDigits(Digits(x, c + 1)) = (x % Place(c)) + v * Place(c)
    <3>1. v \in Nat
      BY <1>1, <2>3
    <3> HIDE DEF v
    <3>2. FromDigits(Append(Digits(x, c), v)) = FromDigits(Digits(x, c)) + v * Place(c)
      BY <1>2, <3>1, FromDigitsAppend
    <3> QED BY <1>4, <2>4, <3>2
  <2>6. x % (Place(c) * B) = (x % Place(c)) + v * Place(c)
    <3> DEFINE P == Place(c)
               q == (x \div P) \div B
               r == x % P
    <3> HIDE DEF B, P, q, r, v
    <3>1. P \in Nat \ {0} /\ B \in Nat \ {0} /\ q \in Nat /\ r \in 0..(P - 1) /\ v \in 0..(B - 1)
      BY <1>1, <2>1, <2>2, <2>3 DEF P, q, r
    <3>2. x = (q * B + v) * P + r
      BY <2>2, <2>3 DEF P, q, r
    <3>3. (q * B + v) * P + r = q * (P * B) + (r + v * P)
      BY <3>1
    <3>4. r + v * P \in 0..(P * B - 1)
      <4>1. v * P <= (B - 1) * P
        BY <3>1
      <4>2. (B - 1) * P = P * B - P
        BY <3>1
      <4>3. v * P \in Nat /\ P * B \in Nat
        BY <3>1
      <4> QED BY <3>1, <4>1, <4>2, <4>3
    <3>5. \A M \in Nat : \A s \in 0..(M - 1) : (q * M + s) % M = s
      BY <3>1
    <3>6. P * B \in Nat
      BY <3>1
    <3>7. (q * (P * B) + (r + v * P)) % (P * B) = r + v * P
      BY <3>4, <3>5, <3>6
    <3> QED BY <3>2, <3>3, <3>7 DEF P, r
  <2> QED BY <2>1, <2>5, <2>6
<1>5. Nat \subseteq T
  <2> HIDE DEF T
  <2> QED BY <1>3, <1>4, NatInd
<1> QED BY <1>2, <1>5

\* What SpiderMonkey keeps has the same value and no leading zeros.
LEMMA TrimmedHold ==
    ASSUME NEW d \in Seq(Nat)
    PROVE  /\ Trimmed(d) \in Seq(Nat) /\ FromDigits(Trimmed(d)) = FromDigits(d)
           /\ Trimmed(d) # <<>> => Last(Trimmed(d)) # 0
<1> DEFINE n     == Len(d)
           Cut(k) == SubSeq(d, 1, k)
           Is(t) == (t = <<>> \/ Last(t) # 0) /\ FromDigits(t) = FromDigits(d)
           T     == {k \in 0..n : FromDigits(Cut(k)) = FromDigits(d)}
<1>1. n \in Nat /\ Cut(n) = d
  BY SubSeqFull
<1>2. ASSUME NEW k \in 0..n
      PROVE  /\ Cut(k) \in Seq(Nat) /\ Len(Cut(k)) = k
             /\ \A i \in 1..k : Cut(k)[i] = d[i]
  BY <1>1
<1>3. n \in T /\ T \subseteq Nat
  <2> HIDE DEF Cut, n
  <2> QED BY <1>1
<1>4. PICK k \in T : \A j \in T : k <= j
  <2> HIDE DEF T
  <2> QED BY <1>3, LeastNat
<1>5. Cut(k) = <<>> \/ Last(Cut(k)) # 0
  <2> SUFFICES ASSUME k # 0, Last(Cut(k)) = 0 PROVE FALSE
    BY <1>2, <1>4
  <2>1. k \in 1..n /\ k - 1 \in 0..n
    BY <1>4
  <2>2. d[k] = 0
    <3>1. Last(Cut(k)) = Cut(k)[k]
      BY <1>2, <1>4 DEF Last
    <3>2. Cut(k)[k] = d[k]
      BY <1>2, <2>1
    <3> QED BY <3>1, <3>2
  <2>3. Cut(k) = Append(Cut(k - 1), d[k])
    <3> DEFINE s == Cut(k)
               u == Cut(k - 1)
    <3>1. s \in Seq(Nat) /\ Len(s) = k /\ \A i \in 1..k : s[i] = d[i]
      BY <1>2, <1>4
    <3>2. u \in Seq(Nat) /\ Len(u) = k - 1 /\ \A i \in 1..(k - 1) : u[i] = d[i]
      BY <1>2, <2>1
    <3>3. d[k] \in Nat
      BY <2>1
    <3> HIDE DEF s, u
    <3>4. /\ Append(u, d[k]) \in Seq(Nat) /\ Len(Append(u, d[k])) = k
          /\ \A i \in 1..k : Append(u, d[k])[i] = s[i]
      <4> DEFINE m == k - 1
                 v == d[k]
      <4>1. m \in Nat /\ k = m + 1 /\ Len(u) = m /\ v \in Nat
        BY <2>1, <3>2, <3>3
      <4> HIDE DEF m, v
      <4>2. /\ Append(u, v) \in Seq(Nat) /\ Len(Append(u, v)) = m + 1
            /\ Append(u, v)[m + 1] = v /\ \A i \in 1..m : Append(u, v)[i] = u[i]
        BY <3>2, <4>1
      <4>3. s[k] = v /\ \A i \in 1..m : s[i] = u[i]
        <5>1. m = k - 1 /\ k \in 1..k
          BY <2>1 DEF m
        <5>2. s[k] = v
          BY <3>1, <5>1 DEF v
        <5>3. \A i \in 1..m : i \in 1..k /\ i \in 1..(k - 1)
          BY <4>1, <5>1
        <5> QED BY <3>1, <3>2, <5>2, <5>3
      <4>4. \A i \in 1..k : Append(u, v)[i] = s[i]
        BY <4>1, <4>2, <4>3
      <4> QED BY <4>1, <4>2, <4>4 DEF v
    <3>5. s = Append(u, d[k])
      BY <3>1, <3>4, SeqEqual
    <3> QED BY <3>5 DEF s, u
  <2>4. FromDigits(Cut(k)) = FromDigits(Cut(k - 1))
    <3>1. /\ FromDigits(Cut(k - 1)) \in Nat
          /\ FromDigits(Append(Cut(k - 1), d[k])) = FromDigits(Cut(k - 1)) + d[k] * Place(Len(Cut(k - 1)))
      <4>1. Cut(k - 1) \in Seq(Nat) /\ d[k] \in Nat
        BY <1>2, <2>1
      <4> HIDE DEF Cut
      <4> QED BY <4>1, FromDigitsAppend
    <3>2. Len(Cut(k - 1)) = k - 1 /\ k - 1 \in Nat
      BY <1>2, <2>1
    <3>3. Place(k - 1) \in Nat
      BY <3>2, Places
    <3>4. d[k] * Place(k - 1) = 0
      BY <2>2, <3>3
    <3> HIDE DEF Cut
    <3> QED BY <2>3, <3>1, <3>2, <3>4
  <2>5. k - 1 \in T
    BY <1>4, <2>1, <2>4
  <2> QED BY <1>4, <2>1, <2>5
<1> DEFINE S == {Cut(j) : j \in 0..n}
<1>6. Cut(k) \in S /\ Is(Cut(k))
  BY <1>4, <1>5
<1>7. Trimmed(d) = CHOOSE t \in S : Is(t)
  BY DEF Trimmed
<1>8. Trimmed(d) \in S /\ Is(Trimmed(d))
  <2> HIDE DEF S, Is
  <2> QED BY <1>6, <1>7
<1>9. PICK j \in 0..n : Trimmed(d) = Cut(j)
  BY <1>8
<1>10. Trimmed(d) \in Seq(Nat)
  <2> HIDE DEF Cut
  <2> QED BY <1>2, <1>9
<1> QED BY <1>8, <1>10

\* As many digits as a number needs, and their value.
LEMMA BigIntHolds ==
    ASSUME NEW n \in Int
    PROVE  /\ toJsBigInt(n).type = "bigint" /\ toJsBigInt(n).negative = (n < 0)
           /\ toJsBigInt(n).digits \in Seq(Nat)
           /\ FromDigits(toJsBigInt(n).digits) = Abs(n)
           /\ toJsBigInt(n).digits # <<>> => Last(toJsBigInt(n).digits) # 0
           /\ n < 0 => toJsBigInt(n).digits # <<>>
<1> DEFINE c == jsDigitCount(n)
           b == NumBits(n)
           W == WordBits
           x == Abs(n)
           d == Digits(x, c)
           t == Trimmed(d)
<1>1. W \in Nat \ {0} /\ b \in Nat /\ x \in Nat /\ x < TwoTo(b) /\ (n < 0 => x > 0)
  <2>1. n < 0 => x > 0
    BY DEF Abs
  <2> QED BY <2>1, Places, BitsOf
<1>2. c \in Nat /\ b <= W * c
  <2>1. CASE b = 0
    <3>1. c = 1
      BY <2>1 DEF jsDigitCount
    <3> QED BY <1>1, <2>1, <3>1
  <2>2. CASE b # 0
    <3> DEFINE y == b - 1
    <3>1. c = y \div W + 1
      BY <2>2 DEF jsDigitCount
    <3>2. y \in Nat
      BY <1>1, <2>2
    <3> HIDE DEF y, c, b, W
    <3>3. y \div W \in Nat /\ y % W \in 0..(W - 1) /\ y = (y \div W) * W + (y % W)
      BY <1>1, <3>2, Divided
    <3>4. (y \div W + 1) * W = (y \div W) * W + W /\ (y \div W) * W \in Nat /\ W * c = c * W
      BY <1>1, <3>1, <3>3
    <3>5. b = y + 1
      BY <1>1 DEF y
    <3> DEFINE q == y \div W
               r == y % W
               m == q * W
    <3>6. c = q + 1 /\ q \in Nat /\ r \in 0..(W - 1) /\ y = m + r /\ m \in Nat /\ W * c = m + W
      BY <3>1, <3>3, <3>4
    <3>7. W \in Nat
      BY <1>1
    <3> HIDE DEF m, q, r
    <3> DEFINE v == W * c
    <3>8. v = m + W
      BY <3>6
    <3> HIDE DEF v
    <3>9. b <= v
      BY <3>5, <3>6, <3>7, <3>8
    <3> QED BY <3>6, <3>9 DEF v
  <2> QED BY <2>1, <2>2
<1>3. x < Place(c)
  <2>1. W * c \in Nat
    BY <1>1, <1>2
  <2>2. TwoTo(b) <= TwoTo(W * c) /\ TwoTo(b) \in Nat /\ TwoTo(W * c) \in Nat
    <3> HIDE DEF b, W, c
    <3> QED BY <1>1, <1>2, <2>1, TwoToLaws
  <2> HIDE DEF b, x
  <2> QED BY <1>1, <2>2 DEF Place
<1>4. d \in Seq(Nat) /\ FromDigits(d) = x
  <2> HIDE DEF c, x
  <2>1. Place(c) \in Nat \ {0}
    BY <1>2, Places
  <2>2. x % Place(c) = x
    BY <1>1, <1>3, <2>1
  <2> QED BY <1>1, <1>2, <2>2, DigitsHold
<1>5. t \in Seq(Nat) /\ FromDigits(t) = x /\ (t # <<>> => Last(t) # 0)
  <2> HIDE DEF d
  <2> QED BY <1>4, TrimmedHold
<1>6. toJsBigInt(n) = [type |-> "bigint", negative |-> n < 0, digits |-> t]
  BY DEF toJsBigInt, BigInt
<1>7. x > 0 => t # <<>>
  BY <1>5, FromDigitsAppend
<1> HIDE DEF t, x
<1>8. toJsBigInt(n).type = "bigint" /\ toJsBigInt(n).negative = (n < 0) /\ toJsBigInt(n).digits = t
  BY <1>6
<1> QED BY <1>1, <1>5, <1>7, <1>8 DEF x

-----------------------------------------------------------------------------
(* The arguments of a call, by callPyFunc in src/src/jsTypeFactory.cc.     *)

\* The arguments that a Python function is given: its self, and a tuple.
WithSelf(s, tuple) == IF s.kind = "method" THEN <<Self>> \o tuple ELSE tuple
Offset(s) == IF s.kind = "method" THEN 1 ELSE 0
Parameters(s) == IF s.kind = "METH_O" THEN 1 ELSE s.argcount
TakesRest(s) == s.var \/ s.kind = "METH_VARARGS"

\* What a JavaScript function with these parameters would get.
Promised(s, argc) ==
    LET given == WithSelf(s, [i \in 1..argc |-> i])
    IN  [params |-> [i \in 1..Parameters(s) |-> IF i <= Len(given) THEN given[i]
                       ELSE IF i > Parameters(s) - s.defaults THEN Default ELSE PyNone],
         rest |-> IF TakesRest(s) THEN SubSeq(given, Parameters(s) + 1, Len(given)) ELSE <<>>]

\* The length of the given arguments, and each of them.
LEMMA GivenFacts ==
    ASSUME NEW s, NEW tuple \in Seq(Int)
    PROVE  /\ WithSelf(s, tuple) \in Seq(Int)
           /\ Len(WithSelf(s, tuple)) = Len(tuple) + Offset(s)
           /\ \A i \in 1..Len(WithSelf(s, tuple)) :
                WithSelf(s, tuple)[i] = IF i <= Offset(s) THEN Self ELSE tuple[i - Offset(s)]
<1>1. CASE s.kind = "method"
  <2>1. <<Self>> \in Seq(Int) /\ Len(<<Self>>) = 1 /\ <<Self>>[1] = Self
    BY DEF Self
  <2>2. WithSelf(s, tuple) = <<Self>> \o tuple /\ Offset(s) = 1
    BY <1>1 DEF WithSelf, Offset
  <2>3. <<Self>> \o tuple \in Seq(Int) /\ Len(<<Self>> \o tuple) = 1 + Len(tuple)
    BY <2>1, ConcatProperties
  <2>4. ASSUME NEW i \in 1..(1 + Len(tuple))
        PROVE  (<<Self>> \o tuple)[i] = IF i <= 1 THEN Self ELSE tuple[i - 1]
    BY <2>1, <2>4, LenProperties, ConcatProperties
  <2> QED BY <2>2, <2>3, <2>4, LenProperties
<1>2. CASE s.kind # "method"
  BY <1>2, LenProperties DEF WithSelf, Offset
<1> QED BY <1>1, <1>2

\* How many arguments the tuple has.
TupleLength(s, argc) ==
    IF nNormalArgs(s) + s.defaults <= 0 /\ ~TakesRest(s) THEN 0 ELSE argTupleLength(s, argc)

\* The tuple covers the parameters without a default, and is longer than the
\* parameters only when it has the arguments themselves and the rest is taken.
Fits(s, argc, n) ==
    LET count == Parameters(s)
    IN  /\ n \in Nat /\ count \in Nat /\ s.defaults \in 0..count
        /\ count - s.defaults <= n + Offset(s)
        /\ n > argc => n + Offset(s) = count - s.defaults
        /\ ~TakesRest(s) => n + Offset(s) <= count
        /\ n < argc => ~TakesRest(s) /\ n + Offset(s) = count

LEMMA TupleFits ==
    ASSUME NEW s \in Signatures, NEW argc \in Nat
    PROVE  Fits(s, argc, TupleLength(s, argc))
<1> DEFINE n == TupleLength(s, argc)
<1>0. /\ s.kind \in Natives \cup {"function", "method"}
      /\ s.argcount \in Nat /\ s.defaults \in 0..s.argcount /\ s.var \in BOOLEAN
      /\ s.kind \in Natives => s.argcount = 0 /\ s.defaults = 0 /\ ~s.var
      /\ s.kind = "method" => s.argcount > 0 \/ s.var
  <2> DEFINE bare == {[kind |-> k, argcount |-> 0, defaults |-> 0, var |-> FALSE] : k \in Natives}
             full == [kind : {"function", "method"}, argcount : 0..MaxArgs, defaults : 0..MaxArgs,
                      var : BOOLEAN]
             fits == s.defaults <= s.argcount /\ (s.kind = "method" => s.argcount > 0 \/ s.var)
  <2>1. s \in bare \/ (s \in full /\ fits)
    BY DEF Signatures
  <2>2. MaxArgs \in Nat
    BY ConversionsAssumption
  <2>3. CASE s \in bare
    <3>1. PICK k \in Natives : s = [kind |-> k, argcount |-> 0, defaults |-> 0, var |-> FALSE]
      BY <2>3
    <3>2. s.kind \in Natives /\ s.argcount = 0 /\ s.defaults = 0 /\ s.var = FALSE
      BY <3>1
    <3>3. s.kind # "method"
      BY <3>2 DEF Natives
    <3>4. s.argcount \in Nat /\ s.defaults \in 0..s.argcount
      BY <3>2
    <3>5. s.var \in BOOLEAN /\ ~s.var
      BY <3>2
    <3> HIDE DEF bare
    <3> QED BY <3>2, <3>3, <3>4, <3>5, Zenon
  <2>4. CASE s \in full /\ fits
    <3> HIDE DEF bare, full
    <3>1. s \in full /\ s.defaults <= s.argcount /\ (s.kind = "method" => s.argcount > 0 \/ s.var)
      BY <2>4
    <3>2. /\ s.kind \in {"function", "method"}
          /\ s.argcount \in 0..MaxArgs /\ s.defaults \in 0..MaxArgs /\ s.var \in BOOLEAN
      BY <3>1 DEF full
    <3>3. s.kind \notin Natives
      BY <3>2 DEF Natives
    <3>4. s.argcount \in Nat /\ s.defaults \in 0..s.argcount
      BY <2>2, <3>1, <3>2
    <3> QED BY <3>1, <3>2, <3>3, <3>4, Zenon
  <2> QED BY <2>1, <2>3, <2>4
<1>1. CASE s.kind \in {"METH_NOARGS", "METH_O", "METH_VARARGS"}
  <2>0. s.argcount = 0 /\ s.defaults = 0 /\ ~s.var /\ Offset(s) = 0
    BY <1>0, <1>1 DEF Natives, Offset
  <2>1. CASE s.kind = "METH_VARARGS"
    BY <2>0, <2>1 DEF TupleLength, argTupleLength, Parameters, TakesRest, Fits
  <2>2. CASE s.kind = "METH_O"
    <3>1. nNormalArgs(s) = 1 /\ Parameters(s) = 1 /\ ~TakesRest(s)
      BY <2>0, <2>2 DEF nNormalArgs, Parameters, TakesRest
    <3>2. n = 1
      BY <2>0, <2>2, <3>1 DEF TupleLength, argTupleLength, Smaller
    <3> QED BY <2>0, <3>1, <3>2 DEF Fits
  <2>3. CASE s.kind = "METH_NOARGS"
    <3>1. nNormalArgs(s) = 0 /\ Parameters(s) = 0 /\ ~TakesRest(s)
      BY <2>0, <2>3 DEF nNormalArgs, Parameters, TakesRest
    <3>2. n = 0
      BY <2>0, <3>1 DEF TupleLength
    <3> QED BY <2>0, <3>1, <3>2 DEF Fits
  <2> QED BY <1>1, <2>1, <2>2, <2>3
<1>2. CASE s.kind \in {"function", "method"}
  <2> DEFINE normal == s.argcount - s.defaults - Offset(s)
  <2>1. nNormalArgs(s) = normal /\ Parameters(s) = s.argcount /\ Offset(s) \in {0, 1}
    BY <1>0, <1>2 DEF nNormalArgs, Parameters, Offset
  <2>2. TakesRest(s) <=> s.var
    BY <1>2 DEF TakesRest
  <2>3. s.var => n = Larger(argc, normal)
    BY <1>2, <2>1, <2>2 DEF TupleLength, argTupleLength
  <2>4. ~s.var => n = IF normal + s.defaults <= 0 THEN 0
                      ELSE IF normal > argc THEN normal ELSE Smaller(argc, normal + s.defaults)
    BY <1>2, <2>1, <2>2 DEF TupleLength, argTupleLength
  <2>5. ~s.var /\ Offset(s) = 1 => s.argcount > 0
    BY <1>0 DEF Offset
  <2> SUFFICES Fits(s, argc, n)
    OBVIOUS
  <2> HIDE DEF n
  <2> QED BY <1>0, <2>1, <2>2, <2>3, <2>4, <2>5 DEF Larger, Smaller, Fits
<1>3. s.kind \in {"METH_NOARGS", "METH_O", "METH_VARARGS"} \/ s.kind \in {"function", "method"}
  BY <1>0 DEF Natives
<1> QED BY <1>1, <1>2, <1>3

\* A Python function called from JavaScript gets what a JavaScript function would.
LEMMA CallAsPromised ==
    ASSUME NEW s \in Signatures, NEW argc \in Nat
    PROVE  PyObject_Call(s, callPyFunc(s, argc)) = Promised(s, argc)
<1> DEFINE n     == TupleLength(s, argc)
           count == Parameters(s)
           tuple == [i \in 1..n |-> IF i <= argc THEN i ELSE PyNone]
           all   == [i \in 1..argc |-> i]
           had   == WithSelf(s, tuple)
           given == WithSelf(s, all)
<1>1. /\ n \in Nat /\ count \in Nat /\ s.defaults \in 0..count
      /\ count - s.defaults <= n + Offset(s)
      /\ n > argc => n + Offset(s) = count - s.defaults
      /\ ~TakesRest(s) => n + Offset(s) <= count
      /\ n < argc => ~TakesRest(s) /\ n + Offset(s) = count
  BY TupleFits DEF Fits
<1>2. Offset(s) \in {0, 1} /\ s.defaults \in Nat
  BY <1>1 DEF Offset
<1>3. callPyFunc(s, argc) = tuple
  <2>1. CASE nNormalArgs(s) + s.defaults <= 0 /\ ~TakesRest(s)
    <3>1. callPyFunc(s, argc) = <<>> /\ n = 0
      BY <2>1 DEF callPyFunc, TupleLength, TakesRest
    <3> QED BY <3>1
  <2>2. CASE ~(nNormalArgs(s) + s.defaults <= 0 /\ ~TakesRest(s))
    BY <2>2 DEF callPyFunc, TupleLength, TakesRest
  <2> QED BY <2>1, <2>2
<1> HIDE DEF n, count
<1>4. /\ tuple \in Seq(Int) /\ Len(tuple) = n
      /\ \A i \in 1..n : tuple[i] = IF i <= argc THEN i ELSE PyNone
  BY <1>1 DEF PyNone
<1>5. /\ all \in Seq(Int) /\ Len(all) = argc
      /\ \A i \in 1..argc : all[i] = i
  OBVIOUS
<1>a. n = argc => tuple = all
  OBVIOUS
<1> HIDE DEF tuple, all
<1>6. /\ had \in Seq(Int) /\ Len(had) = n + Offset(s)
      /\ \A i \in 1..Len(had) : had[i] = IF i <= Offset(s) THEN Self ELSE tuple[i - Offset(s)]
  BY <1>4, GivenFacts
<1>7. /\ given \in Seq(Int) /\ Len(given) = argc + Offset(s)
      /\ \A i \in 1..Len(given) : given[i] = IF i <= Offset(s) THEN Self ELSE all[i - Offset(s)]
  BY <1>5, GivenFacts
<1> HIDE DEF had, given
<1>8. PyObject_Call(s, tuple) =
        [params |-> [i \in 1..count |-> IF i <= Len(had) THEN had[i] ELSE Default],
         rest   |-> SubSeq(had, count + 1, Len(had))]
  <2> DEFINE fails == Len(had) < count - s.defaults \/ (Len(had) > count /\ ~TakesRest(s))
  <2>1. PyObject_Call(s, tuple) =
          IF fails THEN TypeError
          ELSE [params |-> [i \in 1..count |-> IF i <= Len(had) THEN had[i] ELSE Default],
                rest   |-> SubSeq(had, count + 1, Len(had))]
    BY DEF PyObject_Call, WithSelf, TakesRest, Parameters, count, had
  <2>2. ~fails
    BY <1>1, <1>2, <1>6
  <2> QED BY <2>1, <2>2
<1>9. ASSUME NEW i \in 1..count
      PROVE  (IF i <= Len(had) THEN had[i] ELSE Default)
               = (IF i <= Len(given) THEN given[i]
                  ELSE IF i > count - s.defaults THEN Default ELSE PyNone)
  <2>1. i <= Len(had) => had[i] = IF i <= Offset(s) THEN Self
                                  ELSE IF i - Offset(s) <= argc THEN i - Offset(s) ELSE PyNone
    <3> SUFFICES ASSUME i <= Len(had), i > Offset(s)
                 PROVE  had[i] = IF i - Offset(s) <= argc THEN i - Offset(s) ELSE PyNone
      BY <1>1, <1>2, <1>6
    <3>1. i - Offset(s) \in 1..n
      BY <1>1, <1>2, <1>6
    <3>2. had[i] = tuple[i - Offset(s)]
      BY <1>1, <1>2, <1>6
    <3> QED BY <1>4, <3>1, <3>2
  <2>2. i <= Len(given) => given[i] = IF i <= Offset(s) THEN Self ELSE i - Offset(s)
    <3> SUFFICES ASSUME i <= Len(given), i > Offset(s)
                 PROVE  given[i] = i - Offset(s)
      BY <1>1, <1>2, <1>7
    <3>1. i - Offset(s) \in 1..argc
      BY <1>1, <1>2, <1>7
    <3>2. given[i] = all[i - Offset(s)]
      BY <1>1, <1>2, <1>7
    <3> QED BY <1>5, <3>1, <3>2
  <2>3. Len(had) = n + Offset(s) /\ Len(given) = argc + Offset(s)
    BY <1>6, <1>7
  <2> QED BY <1>1, <1>2, <2>1, <2>2, <2>3
<1>10. SubSeq(had, count + 1, Len(had))
         = IF TakesRest(s) THEN SubSeq(given, count + 1, Len(given)) ELSE <<>>
  <2>1. CASE Len(had) <= count
    <3>1. SubSeq(had, count + 1, Len(had)) = <<>>
      BY <1>1, <1>2, <1>6, <2>1, SubSeqEmpty
    <3>2. TakesRest(s) => SubSeq(given, count + 1, Len(given)) = <<>>
      BY <1>1, <1>2, <1>6, <1>7, <2>1, SubSeqEmpty
    <3> QED BY <3>1, <3>2
  <2>2. CASE Len(had) > count
    <3>1. TakesRest(s) /\ n = argc
      BY <1>1, <1>2, <1>6, <2>2
    <3>2. had = given
      BY <1>a, <3>1 DEF had, given
    <3> QED BY <3>1, <3>2
  <2> QED BY <1>1, <1>2, <1>6, <2>1, <2>2
<1>11. Promised(s, argc) =
         [params |-> [i \in 1..count |-> IF i <= Len(given) THEN given[i]
                        ELSE IF i > count - s.defaults THEN Default ELSE PyNone],
          rest |-> IF TakesRest(s) THEN SubSeq(given, count + 1, Len(given)) ELSE <<>>]
  BY DEF Promised, count, given, all
<1>12. [i \in 1..count |-> IF i <= Len(had) THEN had[i] ELSE Default]
         = [i \in 1..count |-> IF i <= Len(given) THEN given[i]
              ELSE IF i > count - s.defaults THEN Default ELSE PyNone]
  BY <1>9
<1> QED BY <1>3, <1>8, <1>10, <1>11, <1>12

\* What a value is on each side.  A string that shows the buffer of the other side
\* goes back as the string that owns it; a function keeps its parameters.
Shown(type, of) == of = Own \/ (of.type = type /\ of.of = Own)
ValueOK ==
    /\ at \in {"python", "javascript"}
    /\ at = "python" => value.type \in {"str", "int", "float", "callable"}
    /\ at = "javascript" => value.type \in {"string", "bigint", "number", "OverflowError", "function"}
    /\ value.type = "str" => Shown("string", value.of)
    /\ value.type = "string" => Shown("str", value.of)
    /\ value.type \in {"callable", "function"} => value.sig \in Signatures
CallOK ==
    called # NotCalled =>
        /\ at = "javascript" /\ value.type = "function"
        /\ \E argc \in Nat : called = [argc |-> argc, got |-> PyObject_Call(value.sig, callPyFunc(value.sig, argc))]

\* In every state a value has a type of the side it is on, and a call that was made
\* has the arguments that callPyFunc gave it.
LEMMA ValuesOK == Spec => [](ValueOK /\ CallOK)
<1>1. Init => ValueOK /\ CallOK
  <2> SUFFICES ASSUME Init PROVE ValueOK
    BY DEF Init, CallOK
  <2>1. CASE at = "python" /\ value \in PyValues
    <3>1. CASE value \in {NewPyStr(c) : c \in BoundedSeq(Characters, MaxLength)}
      <4>1. PICK c : value = NewPyStr(c)
        BY <3>1
      <4>2. value.type = "str" /\ value.of = Own
        BY <4>1 DEF NewPyStr, PyStr
      <4> QED BY <2>1, <4>2 DEF ValueOK, Shown
    <3>2. CASE value \in [type : {"int"}, big : BOOLEAN, n : -MaxInt..MaxInt]
      <4>1. value.type = "int"
        BY <3>2
      <4> QED BY <2>1, <4>1 DEF ValueOK
    <3>3. CASE value \in [type : {"callable"}, sig : Signatures]
      <4>1. value.type = "callable" /\ value.sig \in Signatures
        BY <3>3
      <4> QED BY <2>1, <4>1 DEF ValueOK
    <3> QED BY <2>1, <3>1, <3>2, <3>3 DEF PyValues
  <2>2. CASE at = "javascript" /\ value \in JSValues
    <3>1. CASE value \in JSStrings
      <4>1. PICK w, u : value = JSStr(w, u, Own)
        BY <3>1 DEF JSStrings
      <4>2. value.type = "string" /\ value.of = Own
        BY <4>1 DEF JSStr
      <4> QED BY <2>2, <4>2 DEF ValueOK, Shown
    <3>2. CASE value \notin JSStrings
      <4>1. PICK s, d : value = BigInt(s, d)
        BY <2>2, <3>2 DEF JSValues
      <4>2. value.type = "bigint"
        BY <4>1 DEF BigInt
      <4> QED BY <2>2, <4>2 DEF ValueOK
    <3> QED BY <3>1, <3>2
  <2> QED BY <2>1, <2>2 DEF Init
<1>2. ValueOK /\ CallOK /\ [Next]_vars => (ValueOK /\ CallOK)'
  <2> SUFFICES ASSUME ValueOK, CallOK, [Next]_vars PROVE (ValueOK /\ CallOK)'
    OBVIOUS
  <2>1. CASE jsTypeFactory
    <3>1. at = "python" /\ at' = "javascript" /\ called = NotCalled /\ called' = NotCalled
      BY <2>1 DEF jsTypeFactory, CallOK
    <3>2. ValueOK'
      <4>1. CASE value.type = "str"
        <5>1. value' = StrToJs(value)
          BY <2>1, <4>1 DEF jsTypeFactory
        <5>2. CASE value.of = Own
          <6>1. value'.type = "string" /\ (value'.of = Own \/ value'.of = value)
            BY <5>1, <5>2 DEF StrToJs, JSStr
          <6> QED BY <3>1, <4>1, <5>2, <6>1 DEF ValueOK, Shown
        <5>3. CASE value.of # Own
          <6>1. value' = value.of /\ value.of.type = "string" /\ value.of.of = Own
            BY <4>1, <5>1, <5>3 DEF StrToJs, ValueOK, Shown
          <6> QED BY <3>1, <6>1 DEF ValueOK, Shown
        <5> QED BY <5>2, <5>3
      <4>2. CASE value.type = "int"
        <5>1. value' = IntToJs(value)
          BY <2>1, <4>2 DEF jsTypeFactory
        <5>2. value'.type \in {"bigint", "number", "OverflowError"}
          BY <5>1 DEF IntToJs, toJsBigInt, BigInt
        <5> QED BY <3>1, <5>2 DEF ValueOK
      <4>3. CASE value.type = "float"
        <5>1. value'.type = "number"
          BY <2>1, <4>3 DEF jsTypeFactory
        <5> QED BY <3>1, <5>1 DEF ValueOK
      <4>4. CASE value.type = "callable"
        <5>1. value'.type = "function" /\ value'.sig = value.sig
          BY <2>1, <4>4 DEF jsTypeFactory
        <5> QED BY <3>1, <4>4, <5>1 DEF ValueOK
      <4> QED BY <3>1, <4>1, <4>2, <4>3, <4>4 DEF ValueOK
    <3> QED BY <3>1, <3>2 DEF CallOK
  <2>2. CASE pyTypeFactory
    <3>1. at = "javascript" /\ at' = "python" /\ called' = NotCalled /\ value.type # "OverflowError"
      BY <2>2 DEF pyTypeFactory
    <3>2. ValueOK'
      <4>1. CASE value.type = "string"
        <5>1. value' = StrToPy(value)
          BY <2>2, <4>1 DEF pyTypeFactory
        <5>2. CASE value.of = Own
          <6>1. value'.type = "str" /\ (value'.of = Own \/ value'.of = value)
            BY <5>1, <5>2 DEF StrToPy, proxifyString, NewPyStr, PyStr
          <6> QED BY <3>1, <4>1, <5>2, <6>1 DEF ValueOK, Shown
        <5>3. CASE value.of # Own
          <6>1. value' = value.of /\ value.of.type = "str" /\ value.of.of = Own
            BY <4>1, <5>1, <5>3 DEF StrToPy, ValueOK, Shown
          <6> QED BY <3>1, <6>1 DEF ValueOK, Shown
        <5> QED BY <5>2, <5>3
      <4>2. CASE value.type = "bigint"
        <5>1. value'.type = "int"
          BY <2>2, <4>2 DEF pyTypeFactory, BigIntToPy
        <5> QED BY <3>1, <5>1 DEF ValueOK
      <4>3. CASE value.type = "number"
        <5>1. value'.type = "float"
          BY <2>2, <4>3 DEF pyTypeFactory
        <5> QED BY <3>1, <5>1 DEF ValueOK
      <4>4. CASE value.type = "function"
        <5>1. value'.type = "callable" /\ value'.sig = value.sig
          BY <2>2, <4>4 DEF pyTypeFactory
        <5> QED BY <3>1, <4>4, <5>1 DEF ValueOK
      <4> QED BY <3>1, <4>1, <4>2, <4>3, <4>4 DEF ValueOK
    <3> QED BY <3>1, <3>2 DEF CallOK
  <2>3. CASE Rebuild
    <3>1. at = "javascript" /\ at' = at /\ called' = called /\ value.type = "string"
      BY <2>3 DEF Rebuild
    <3>2. PICK w : value' = JSStr(w, value.units, Own)
      BY <2>3 DEF Rebuild
    <3>3. value'.type = "string" /\ value'.of = Own
      BY <3>2 DEF JSStr
    <3> QED BY <3>1, <3>3 DEF ValueOK, CallOK, Shown
  <2>4. ASSUME NEW argc \in 0..(MaxArgs + 1), Call(argc) PROVE (ValueOK /\ CallOK)'
    <3>1. /\ at = "javascript" /\ value.type = "function" /\ at' = at /\ value' = value
          /\ called' = [argc |-> argc, got |-> PyObject_Call(value.sig, callPyFunc(value.sig, argc))]
      BY <2>4 DEF Call
    <3>2. argc \in Nat
      OBVIOUS
    <3>3. ValueOK'
      BY <3>1 DEF ValueOK
    <3> QED BY <3>1, <3>2, <3>3 DEF CallOK
  <2>5. CASE UNCHANGED vars
    BY <2>5 DEF vars, ValueOK, CallOK
  <2> QED BY <2>1, <2>2, <2>3, <2>4, <2>5 DEF Next
<1> QED BY <1>1, <1>2, PTL DEF Spec

\* Whatever its parameters, their defaults and the number of arguments: a Python
\* function called from JavaScript gets what a JavaScript function would.
THEOREM ArgumentsAsPromised == Spec => []ArgumentsMeetJavaScript
<1>1. ValueOK /\ CallOK => ArgumentsMeetJavaScript
  <2> SUFFICES ASSUME ValueOK, CallOK, called # NotCalled PROVE ArgumentsMeetJavaScript
    BY DEF ArgumentsMeetJavaScript
  <2>1. value.sig \in Signatures
    BY DEF ValueOK, CallOK
  <2>2. PICK argc \in Nat : called = [argc |-> argc, got |-> PyObject_Call(value.sig, callPyFunc(value.sig, argc))]
    BY DEF CallOK
  <2>3. called.argc = argc /\ called.got = Promised(value.sig, argc)
    BY <2>1, <2>2, CallAsPromised
  <2> DEFINE s     == value.sig
             all   == [i \in 1..called.argc |-> i]
             self  == IF s.kind = "method" THEN <<Self>> ELSE <<>>
  <2>4. self \o all = WithSelf(s, all)
    <3>1. all \in Seq(Nat)
      BY <2>3
    <3>2. <<>> \o all = all
      BY <3>1, ConcatEmptySeq
    <3> QED BY <3>2 DEF WithSelf
  <2>5. Promised(s, called.argc) =
          [params |-> [i \in 1..Parameters(s) |-> IF i <= Len(self \o all) THEN (self \o all)[i]
                         ELSE IF i > Parameters(s) - s.defaults THEN Default ELSE PyNone],
           rest |-> IF TakesRest(s) THEN SubSeq(self \o all, Parameters(s) + 1, Len(self \o all))
                    ELSE <<>>]
    BY <2>4 DEF Promised
  <2>6. Parameters(s) = (IF s.kind = "METH_O" THEN 1 ELSE s.argcount)
        /\ (TakesRest(s) <=> s.var \/ s.kind = "METH_VARARGS")
    BY DEF Parameters, TakesRest
  <2> QED BY <2>3, <2>5, <2>6 DEF ArgumentsMeetJavaScript
<1> QED BY <1>1, ValuesOK, PTL

\* What an integer is on each side, and that it is the one that set out.
IntegerIs(v) ==
    /\ v.type = "int" => v.n \in Int /\ (v.big \/ v = origin)
    /\ v.type = "bigint" => /\ v.digits \in Seq(Nat)
                            /\ v.digits # <<>> => Last(v.digits) # 0
                            /\ v.negative => v.digits # <<>>
    /\ v.type \in {"number", "float"} => v.n \in Int /\ Abs(v.n) < TwoTo(SafeBits)
    /\ v.type = "OverflowError" => /\ origin.type = "int" /\ ~origin.big
                                   /\ Abs(origin.n) >= TwoTo(SafeBits)
IntegerOK == IsNumber(value) => Number(value) = Number(origin) /\ IntegerIs(value)

LEMMA BigIntCrosses ==
    ASSUME NEW n \in Int
    PROVE  Number(toJsBigInt(n)) = n
<1> DEFINE b == toJsBigInt(n)
<1>1. b.type = "bigint" /\ b.negative = (n < 0) /\ FromDigits(b.digits) = Abs(n)
  BY BigIntHolds
<1> HIDE DEF b
<1>2. BigIntToPy(b).n = IF b.negative THEN -FromDigits(b.digits) ELSE FromDigits(b.digits)
  BY DEF BigIntToPy
<1>3. Number(b) = IF b.negative THEN -FromDigits(b.digits) ELSE FromDigits(b.digits)
  BY <1>1, <1>2 DEF Number
<1>4. Number(b) = IF n < 0 THEN -Abs(n) ELSE Abs(n)
  BY <1>1, <1>3
<1>5. (IF n < 0 THEN -Abs(n) ELSE Abs(n)) = n
  BY DEF Abs
<1> QED BY <1>4, <1>5 DEF b

LEMMA BoundedIsSeq ==
    ASSUME NEW S, NEW n \in Nat, NEW s \in BoundedSeq(S, n), NEW T, S \subseteq T
    PROVE  s \in Seq(T)
<1>1. PICK m \in 0..n : s \in [1..m -> S]
  BY DEF BoundedSeq, SeqOf
<1>2. s \in [1..m -> T] /\ m \in Nat
  BY <1>1
<1> QED BY <1>2

LEMMA IntegersStart == Init => IntegerOK
<1> SUFFICES ASSUME Init, IsNumber(value) PROVE Number(value) = Number(origin) /\ IntegerIs(value)
  BY DEF IntegerOK
<1>1. value = origin
  BY DEF Init
<1>2. CASE value \in {NewPyStr(c) : c \in BoundedSeq(Characters, MaxLength)} \cup JSStrings
  <2>1. value.type \in {"str", "string"}
    BY <1>2 DEF NewPyStr, PyStr, JSStrings, JSStr
  <2> QED BY <2>1 DEF IsNumber
<1>3. CASE value \in [type : {"int"}, big : BOOLEAN, n : -MaxInt..MaxInt]
  <2>1. value.type = "int" /\ value.n \in Int
    BY <1>3, ConversionsAssumption
  <2> QED BY <1>1, <2>1 DEF IntegerIs
<1>4. CASE value \in [type : {"callable"}, sig : Signatures]
  BY <1>4 DEF IsNumber
<1>5. ASSUME value \in {b \in {BigInt(s, d) : s \in BOOLEAN, d \in BoundedSeq(0..(TwoTo(WordBits) - 1), MaxDigits)} :
                          IF b.digits = <<>> THEN ~b.negative ELSE Last(b.digits) # 0}
      PROVE  IntegerIs(value)
  <2>1. /\ value \in {BigInt(s, d) : s \in BOOLEAN, d \in BoundedSeq(0..(TwoTo(WordBits) - 1), MaxDigits)}
        /\ IF value.digits = <<>> THEN ~value.negative ELSE Last(value.digits) # 0
    BY <1>5
  <2>2. PICK s \in BOOLEAN, d \in BoundedSeq(0..(TwoTo(WordBits) - 1), MaxDigits) : value = BigInt(s, d)
    BY <2>1
  <2>3. value.type = "bigint" /\ value.digits = d
    BY <2>2 DEF BigInt
  <2>4. d \in Seq(Nat)
    <3>1. 0..(TwoTo(WordBits) - 1) \subseteq Nat /\ MaxDigits \in Nat
      BY Places, TwoToLaws, ConversionsAssumption
    <3> QED BY <3>1, BoundedIsSeq
  <2> QED BY <2>1, <2>3, <2>4 DEF IntegerIs
<1> QED BY <1>1, <1>2, <1>3, <1>4, <1>5 DEF Init, PyValues, JSValues

\* Each conversion keeps the number.
LEMMA IntegersCross == ValueOK /\ CallOK /\ IntegerOK /\ [Next]_vars => IntegerOK'
<1> SUFFICES ASSUME ValueOK, CallOK, IntegerOK, [Next]_vars, IsNumber(value)'
             PROVE  (Number(value) = Number(origin) /\ IntegerIs(value))'
  BY DEF IntegerOK
<1>1. origin' = origin
  BY DEF Next, vars, jsTypeFactory, pyTypeFactory, Rebuild, Call
<1>2. CASE jsTypeFactory /\ value.type = "int"
  <2>1. value' = IntToJs(value)
    BY <1>2 DEF jsTypeFactory
  <2>2. value.n \in Int /\ (value.big \/ value = origin) /\ Number(origin) = value.n
    BY <1>2 DEF IntegerOK, IntegerIs, IsNumber, Number
  <2>3. CASE value.big
    <3>1. value' = toJsBigInt(value.n)
      BY <2>1, <2>3 DEF IntToJs
    <3>2. /\ value'.type = "bigint" /\ value'.negative = (value.n < 0) /\ value'.digits \in Seq(Nat)
          /\ value'.digits # <<>> => Last(value'.digits) # 0
          /\ value.n < 0 => value'.digits # <<>>
      BY <2>2, <3>1, BigIntHolds
    <3>3. Number(value') = value.n
      BY <2>2, <3>1, BigIntCrosses
    <3>4. IntegerIs(value)'
      BY <3>2 DEF IntegerIs
    <3> QED BY <1>1, <2>2, <3>3, <3>4 DEF Number, BigIntToPy
  <2>4. CASE ~value.big /\ NumBits(value.n) <= SafeBits
    <3>1. value'.type = "number" /\ value'.n = value.n
      BY <2>1, <2>4 DEF IntToJs
    <3>2. Abs(value.n) < TwoTo(SafeBits)
      <4>1. SafeBits \in Nat
        BY ConversionsAssumption
      <4>2. /\ NumBits(value.n) \in Nat /\ Abs(value.n) \in Nat
            /\ Abs(value.n) < TwoTo(NumBits(value.n))
        BY <2>2, BitsOf
      <4>3. /\ TwoTo(NumBits(value.n)) <= TwoTo(SafeBits)
            /\ TwoTo(NumBits(value.n)) \in Nat /\ TwoTo(SafeBits) \in Nat
        BY <2>4, <4>1, <4>2, TwoToLaws
      <4> QED BY <4>2, <4>3
    <3> QED BY <1>1, <2>2, <3>1, <3>2 DEF IntegerIs, Number
  <2>5. CASE ~value.big /\ ~(NumBits(value.n) <= SafeBits)
    <3>1. value'.type = "OverflowError" /\ value'.n = value.n
      BY <2>1, <2>5 DEF IntToJs
    <3>2. Abs(value.n) >= TwoTo(SafeBits)
      <4> DEFINE b == NumBits(value.n)
      <4>1. SafeBits \in Nat
        BY ConversionsAssumption
      <4>2. b \in Nat /\ Abs(value.n) \in Nat /\ (b > 0 => Abs(value.n) >= TwoTo(b - 1))
        BY <2>2, BitsOf
      <4> HIDE DEF b
      <4>3. b > 0 /\ b - 1 \in Nat /\ SafeBits <= b - 1
        BY <2>5, <4>1, <4>2 DEF b
      <4>4. /\ TwoTo(SafeBits) <= TwoTo(b - 1)
            /\ TwoTo(b - 1) \in Nat /\ TwoTo(SafeBits) \in Nat
        BY <4>1, <4>3, TwoToLaws
      <4> QED BY <4>2, <4>3, <4>4
    <3>3. value = origin /\ origin.type = "int" /\ ~origin.big
      BY <1>2, <2>2, <2>5
    <3> QED BY <1>1, <2>2, <3>1, <3>2, <3>3 DEF IntegerIs, Number
  <2> QED BY <2>3, <2>4, <2>5
<1>3. CASE jsTypeFactory /\ value.type = "float"
  <2>1. value'.type = "number" /\ value'.n = value.n
    BY <1>3 DEF jsTypeFactory
  <2>2. value.n \in Int /\ Abs(value.n) < TwoTo(SafeBits) /\ Number(origin) = value.n
    BY <1>3 DEF IntegerOK, IntegerIs, IsNumber, Number
  <2> QED BY <1>1, <2>1, <2>2 DEF IntegerIs, Number
<1>4. CASE jsTypeFactory /\ value.type \in {"str", "callable"}
  <2>1. CASE value.type = "str"
    <3>1. value' = StrToJs(value)
      BY <1>4, <2>1 DEF jsTypeFactory
    <3>2. value'.type = "string"
      BY <2>1, <3>1 DEF StrToJs, JSStr, ValueOK, Shown
    <3> QED BY <3>2 DEF IsNumber
  <2>2. CASE value.type = "callable"
    <3>1. value'.type = "function"
      BY <1>4, <2>2 DEF jsTypeFactory
    <3> QED BY <3>1 DEF IsNumber
  <2> QED BY <1>4, <2>1, <2>2
<1>5. CASE pyTypeFactory /\ value.type = "bigint"
  <2>1. value' = BigIntToPy(value)
    BY <1>5 DEF pyTypeFactory
  <2>2. /\ value.digits \in Seq(Nat)
        /\ Number(origin) = BigIntToPy(value).n
    BY <1>5 DEF IntegerOK, IntegerIs, IsNumber, Number
  <2>3. FromDigits(value.digits) \in Nat
    BY <2>2, FromDigitsAppend
  <2>4. value'.type = "int" /\ value'.big /\ value'.n \in Int /\ value'.n = BigIntToPy(value).n
    BY <2>1, <2>3 DEF BigIntToPy
  <2> QED BY <1>1, <2>2, <2>4 DEF IntegerIs, Number
<1>6. CASE pyTypeFactory /\ value.type = "number"
  <2>1. value'.type = "float" /\ value'.n = value.n
    BY <1>6 DEF pyTypeFactory
  <2>2. value.n \in Int /\ Abs(value.n) < TwoTo(SafeBits) /\ Number(origin) = value.n
    BY <1>6 DEF IntegerOK, IntegerIs, IsNumber, Number
  <2> QED BY <1>1, <2>1, <2>2 DEF IntegerIs, Number
<1>7. CASE pyTypeFactory /\ value.type \in {"string", "function"}
  <2>1. CASE value.type = "string"
    <3>1. value' = StrToPy(value)
      BY <1>7, <2>1 DEF pyTypeFactory
    <3>2. value'.type = "str"
      BY <2>1, <3>1 DEF StrToPy, proxifyString, NewPyStr, PyStr, ValueOK, Shown
    <3> QED BY <3>2 DEF IsNumber
  <2>2. CASE value.type = "function"
    <3>1. value'.type = "callable"
      BY <1>7, <2>2 DEF pyTypeFactory
    <3> QED BY <3>1 DEF IsNumber
  <2> QED BY <1>7, <2>1, <2>2
<1>8. CASE Rebuild
  <2>1. PICK w : value' = JSStr(w, value.units, Own)
    BY <1>8 DEF Rebuild
  <2>2. value'.type = "string"
    BY <2>1 DEF JSStr
  <2> QED BY <2>2 DEF IsNumber
<1>9. CASE UNCHANGED value
  <2>1. IsNumber(value)
    BY <1>9 DEF IsNumber
  <2> QED BY <1>1, <1>9, <2>1 DEF IntegerOK, IntegerIs, Number, BigIntToPy
<1>10. jsTypeFactory => value.type \in {"str", "int", "float", "callable"}
  BY DEF jsTypeFactory, ValueOK
<1>11. pyTypeFactory => value.type \in {"string", "bigint", "number", "function"}
  BY DEF pyTypeFactory, ValueOK
<1>12. jsTypeFactory \/ pyTypeFactory \/ Rebuild \/ UNCHANGED value
  BY DEF Next, vars, Call
<1> QED BY <1>2, <1>3, <1>4, <1>5, <1>6, <1>7, <1>8, <1>9, <1>10, <1>11, <1>12

\* An integer of any size keeps its value however often it crosses, or is refused if
\* it is neither safe nor a bigint.
THEOREM IntegersCrossExactly == Spec => []IntegersKeepTheirValue
<1>1. IntegerOK => IntegersKeepTheirValue
  BY DEF IntegerOK, IntegerIs, IntegersKeepTheirValue
<1> QED BY <1>1, IntegersStart, IntegersCross, ValuesOK, PTL DEF Spec

-----------------------------------------------------------------------------
(* Strings, as code units.                                                 *)

Units == 0..(BMP_END - 1)
Quarter == TwoTo(Half)    \* how many high, and how many low, surrogates there are

\* The widths that ConversionsAssumption leaves open, without TwoTo.
LEMMA Widths ==
    /\ Quarter \in Nat \ {0} /\ TwoTo(2 * Half) = Quarter * Quarter
    /\ HIGH_SURROGATE_START \in Nat /\ BMP_END \in Nat /\ Latin1End \in Nat
    /\ LOW_SURROGATE_START = HIGH_SURROGATE_START + Quarter
    /\ LOW_SURROGATE_START + Quarter <= BMP_END
    /\ Latin1End <= HIGH_SURROGATE_START
    /\ LOW_SURROGATE_END = LOW_SURROGATE_START + Quarter - 1
    /\ Characters = 0..(BMP_END + Quarter * Quarter - 1)
    /\ Units \subseteq Characters /\ Units \subseteq Nat /\ Characters \subseteq Nat
    /\ Surrogates \subseteq Units
<1>1. Half \in Nat /\ 2 * Half = Half + Half
  BY ConversionsAssumption
<1>2. Quarter \in Nat \ {0} /\ TwoTo(2 * Half) = Quarter * Quarter
  BY <1>1, TwoToLaws DEF Quarter
<1>3. /\ HIGH_SURROGATE_START \in Nat /\ BMP_END \in Nat /\ Latin1End \in Nat
      /\ LOW_SURROGATE_START = HIGH_SURROGATE_START + Quarter
      /\ LOW_SURROGATE_START + Quarter <= BMP_END
      /\ Latin1End <= HIGH_SURROGATE_START
  BY ConversionsAssumption DEF Quarter
<1>4. LOW_SURROGATE_END = LOW_SURROGATE_START + Quarter - 1
  BY DEF LOW_SURROGATE_END, Quarter
<1>5. Characters = 0..(BMP_END + Quarter * Quarter - 1) /\ Quarter * Quarter \in Nat
  BY <1>2 DEF Characters
<1> HIDE DEF Quarter
<1>6. Units \subseteq Characters /\ Units \subseteq Nat /\ Characters \subseteq Nat
  BY <1>3, <1>5 DEF Units
<1>7. Surrogates \subseteq Units
  BY <1>2, <1>3, <1>4 DEF Surrogates, Units
<1> QED BY <1>2, <1>3, <1>4, <1>5, <1>6, <1>7

\* The two halves of a number below m * m.
LEMMA Halves ==
    ASSUME NEW m \in Nat \ {0}
    PROVE  /\ \A q \in 0..(m - 1), r \in 0..(m - 1) :
                /\ q * m + r \in 0..(m * m - 1)
                /\ (q * m + r) \div m = q /\ (q * m + r) % m = r
           /\ \A x \in 0..(m * m - 1) :
                /\ x % (m * m) = x
                /\ x \div m \in 0..(m - 1) /\ x % m \in 0..(m - 1)
                /\ x = (x \div m) * m + (x % m)
<1>1. ASSUME NEW q \in 0..(m - 1), NEW r \in 0..(m - 1)
      PROVE  /\ q * m + r \in 0..(m * m - 1)
             /\ (q * m + r) \div m = q /\ (q * m + r) % m = r
  <2>1. q * m <= (m - 1) * m /\ (m - 1) * m = m * m - m /\ q * m \in Nat /\ m * m \in Nat
    OBVIOUS
  <2>2. q * m + r \in 0..(m * m - 1)
    BY <2>1
  <2>3. (q * m + r) \div m = q
    OBVIOUS
  <2>4. (q * m + r) % m = r
    OBVIOUS
  <2> QED BY <2>2, <2>3, <2>4
<1>2. ASSUME NEW x \in 0..(m * m - 1)
      PROVE  /\ x % (m * m) = x
             /\ x \div m \in 0..(m - 1) /\ x % m \in 0..(m - 1)
             /\ x = (x \div m) * m + (x % m)
  <2>1. m * m \in Nat /\ x \in Nat
    OBVIOUS
  <2>2. x % (m * m) = x
    <3> DEFINE M == m * m
    <3>1. M \in Nat /\ x < M
      BY <2>1
    <3> HIDE DEF M
    <3>2. x % M = x
      BY <2>1, <3>1
    <3> QED BY <3>2 DEF M
  <2>3. x \div m \in Nat /\ x % m \in 0..(m - 1) /\ x = (x \div m) * m + (x % m)
    BY <2>1, Divided
  <2>4. x \div m < m
    <3> DEFINE q == x \div m
    <3> SUFFICES ASSUME q >= m PROVE FALSE
      BY <2>3
    <3>1. q \in Nat /\ q * m <= x
      BY <2>3
    <3> HIDE DEF q
    <3>2. m * m <= q * m
      BY <3>1
    <3> QED BY <2>1, <3>1, <3>2
  <2> QED BY <2>2, <2>3, <2>4
<1> QED BY <1>1, <1>2

\* A pair of surrogates is the encoding of the character they join to, and of no
\* other; every character beyond the BMP is that of a pair.
LEMMA Joined ==
    ASSUME NEW h, NEW l, IsHigh(h), IsLow(l)
    PROVE  /\ JoinSurrogates(h, l) \in Characters /\ JoinSurrogates(h, l) >= BMP_END
           /\ Encoded(JoinSurrogates(h, l)) = <<h, l>>
<1> DEFINE P == Quarter
           H == HIGH_SURROGATE_START
           L == LOW_SURROGATE_START
           Of(a, b) == (a - H) * P + (b - L)
           c == JoinSurrogates(h, l)
<1> HIDE DEF P
<1>1. /\ P \in Nat \ {0} /\ H \in Nat /\ L = H + P /\ BMP_END \in Nat
      /\ Characters = 0..(BMP_END + P * P - 1)
  BY Widths DEF P
<1>2. ASSUME NEW a, NEW b, IsHigh(a), IsLow(b)
      PROVE  /\ a \in Int /\ b \in Int
             /\ a - H \in 0..(P - 1) /\ b - L \in 0..(P - 1)
             /\ JoinSurrogates(a, b) = BMP_END + Of(a, b)
             /\ a \in Surrogates /\ b \in Surrogates
  <2>1. a \in H..(L - 1) /\ b \in L..(L + P - 1)
    BY <1>2, Widths DEF IsHigh, IsLow, P
  <2>2. a \in Surrogates /\ b \in Surrogates
    BY <1>1, <2>1, Widths DEF Surrogates, P
  <2>3. JoinSurrogates(a, b) = BMP_END + (a - H) * P + (b - L)
    BY DEF JoinSurrogates, P, Quarter
  <2>4. (a - H) * P \in Int /\ b - L \in Int
    BY <1>1, <2>1
  <2> QED BY <1>1, <2>1, <2>2, <2>3, <2>4
<1>3. ASSUME NEW a, NEW b, IsHigh(a), IsLow(b)
      PROVE  /\ Of(a, b) \in 0..(P * P - 1)
             /\ Of(a, b) \div P = a - H /\ Of(a, b) % P = b - L
  <2> DEFINE q == a - H
             r == b - L
  <2>1. q \in 0..(P - 1) /\ r \in 0..(P - 1)
    BY <1>2, <1>3
  <2> HIDE DEF q, r
  <2>2. /\ q * P + r \in 0..(P * P - 1)
        /\ (q * P + r) \div P = q /\ (q * P + r) % P = r
    BY <1>1, <2>1, Halves
  <2> QED BY <2>2 DEF q, r
<1>4. c \in Characters /\ c >= BMP_END
  <2>1. c = BMP_END + Of(h, l) /\ Of(h, l) \in 0..(P * P - 1) /\ P * P \in Nat
    BY <1>1, <1>2, <1>3
  <2> HIDE DEF Of, c
  <2> QED BY <1>1, <2>1
<1>5. ASSUME NEW a, NEW b, IsHigh(a), IsLow(b), JoinSurrogates(a, b) = c
      PROVE  a = h /\ b = l
  <2>1. Of(a, b) = Of(h, l)
    <3>1. BMP_END + Of(a, b) = BMP_END + Of(h, l)
      BY <1>2, <1>5
    <3>2. Of(a, b) \in Int /\ Of(h, l) \in Int
      BY <1>3, <1>5
    <3> HIDE DEF Of
    <3> QED BY <1>1, <3>1, <3>2
  <2>2. Of(a, b) \div P = a - H /\ Of(a, b) % P = b - L
    BY <1>3, <1>5
  <2>3. Of(h, l) \div P = h - H /\ Of(h, l) % P = l - L
    BY <1>3
  <2> HIDE DEF Of
  <2>4. a - H = h - H /\ b - L = l - L
    BY <2>1, <2>2, <2>3
  <2> QED BY <1>1, <1>2, <1>5, <2>4
<1> DEFINE Is(u) == PairAt(u, 1) /\ JoinSurrogates(u[1], u[2]) = c
           S     == Surrogates \X Surrogates
<1>6. <<h, l>> \in S /\ Is(<<h, l>>)
  <2>1. h \in Surrogates /\ l \in Surrogates
    BY <1>2
  <2> HIDE DEF c
  <2>2. PairAt(<<h, l>>, 1)
    BY DEF PairAt
  <2> QED BY <2>1, <2>2 DEF c
<1>7. \A u \in S : Is(u) => u = <<h, l>>
  BY <1>5 DEF PairAt
<1>8. Encoded(c) = CHOOSE u \in S : Is(u)
  <2>1. ~(c < BMP_END)
    BY <1>1, <1>4
  <2> QED BY <2>1 DEF Encoded
<1>9. (CHOOSE u \in S : Is(u)) = <<h, l>>
  <2> HIDE DEF S, Is
  <2> QED BY <1>6, <1>7
<1> QED BY <1>4, <1>8, <1>9

\* UCS4ToUTF16 splits a character beyond the BMP into the pair that encodes it.
LEMMA Beyond ==
    ASSUME NEW c \in Characters, c >= BMP_END
    PROVE  LET h == HalfOf(c - BMP_END, "high") + HIGH_SURROGATE_START
               l == HalfOf(c - BMP_END, "low") + LOW_SURROGATE_START
           IN  IsHigh(h) /\ IsLow(l) /\ Encoded(c) = <<h, l>>
<1> DEFINE P == Quarter
           x == c - BMP_END
           q == x \div P
           r == x % P
           h == q + HIGH_SURROGATE_START
           l == r + LOW_SURROGATE_START
<1>1. x \in 0..(P * P - 1) /\ P \in Nat \ {0} /\ c = BMP_END + x
  BY Widths
<1>2. x % (P * P) = x /\ q \in 0..(P - 1) /\ r \in 0..(P - 1) /\ x = q * P + r
  <2> HIDE DEF x, P
  <2> QED BY <1>1, Halves
<1>3. HalfOf(x, "high") = q /\ HalfOf(x, "low") = r
  BY <1>2, Widths DEF HalfOf, Quarter
<1> HIDE DEF x, q, r, P
<1>4. IsHigh(h) /\ IsLow(l)
  BY <1>1, <1>2, Widths DEF IsHigh, IsLow, P
<1>5. JoinSurrogates(h, l) = c
  <2>1. h - HIGH_SURROGATE_START = q /\ l - LOW_SURROGATE_START = r
    BY <1>1, <1>2, Widths DEF P
  <2>2. JoinSurrogates(h, l) = BMP_END + q * P + r
    BY <2>1 DEF JoinSurrogates, P, Quarter
  <2>3. q * P \in Int /\ r \in Int /\ BMP_END \in Int
    BY <1>1, <1>2, Widths
  <2> QED BY <1>1, <1>2, <2>2, <2>3
<1>6. Encoded(c) = <<h, l>>
  <2> HIDE DEF h, l
  <2> QED BY <1>4, <1>5, Joined
<1> QED BY <1>3, <1>4, <1>6 DEF x

Chained(s, t) == s \o t   \* kept folded where only its name matters

\* The function that FlattenSeq computes with.
Flattens(f, n, ss) == f = [i \in 1..n |-> IF i = 1 THEN ss[i] ELSE f[i - 1] \o ss[i]]

LEMMA FlattensBy ==
    ASSUME NEW n \in Nat, NEW f, NEW ss
    PROVE  Flattens(f, n, ss) <=> /\ f = [i \in 1..n |-> f[i]]
                                  /\ n >= 1 => f[1] = ss[1]
                                  /\ \A i \in 2..n : f[i] = Chained(f[i - 1], ss[i])
<1> DEFINE E(i) == IF i = 1 THEN ss[i] ELSE Chained(f[i - 1], ss[i])
<1>1. Flattens(f, n, ss) <=> f = [i \in 1..n |-> E(i)]
  BY DEF Flattens, Chained
<1>2. (f = [i \in 1..n |-> E(i)]) <=> (f = [i \in 1..n |-> f[i]] /\ \A i \in 1..n : f[i] = E(i))
  <2> HIDE DEF E
  <2> QED OBVIOUS
<1>3. ASSUME NEW i \in 1..n PROVE (i = 1 /\ E(i) = ss[1]) \/ (i \in 2..n /\ E(i) = Chained(f[i - 1], ss[i]))
  <2>1. CASE i = 1
    BY <2>1
  <2>2. CASE i # 1
    BY <2>2
  <2> QED BY <2>1, <2>2
<1>4. n >= 1 => E(1) = ss[1] /\ 1 \in 1..n
  OBVIOUS
<1>5. ASSUME NEW i \in 2..n PROVE i \in 1..n /\ E(i) = Chained(f[i - 1], ss[i])
  OBVIOUS
<1> HIDE DEF E
<1>6. (\A i \in 1..n : f[i] = E(i)) => (n >= 1 => f[1] = ss[1])
  BY <1>4
<1>7. (\A i \in 1..n : f[i] = E(i)) => \A i \in 2..n : f[i] = Chained(f[i - 1], ss[i])
  BY <1>5
<1>8. ASSUME n >= 1 => f[1] = ss[1], \A i \in 2..n : f[i] = Chained(f[i - 1], ss[i]), NEW i \in 1..n
      PROVE  f[i] = E(i)
  BY <1>3, <1>8
<1> QED BY <1>1, <1>2, <1>6, <1>7, <1>8

LEMMA FlattensExist == \A ss : \A n \in Nat : \E f : Flattens(f, n, ss)
<1> SUFFICES ASSUME NEW ss PROVE \A n \in Nat : \E f : Flattens(f, n, ss)
  OBVIOUS
<1> DEFINE T == {n \in Nat : \E f : Flattens(f, n, ss)}
<1>1. 0 \in T
  <2>1. Flattens([k \in 1..0 |-> 0], 0, ss)
    BY DEF Flattens
  <2> QED BY <2>1
<1>2. ASSUME NEW n \in Nat, n \in T PROVE n + 1 \in T
  <2>1. PICK f : Flattens(f, n, ss)
    BY <1>2
  <2> DEFINE final == IF n = 0 THEN ss[1] ELSE Chained(f[n], ss[n + 1])
             g == [k \in 1..(n + 1) |-> IF k <= n THEN f[k] ELSE final]
  <2>2. (n >= 1 => f[1] = ss[1]) /\ \A i \in 2..n : f[i] = Chained(f[i - 1], ss[i])
    BY <2>1, FlattensBy
  <2>3. (n = 0 => final = ss[1]) /\ (n # 0 => final = Chained(f[n], ss[n + 1]))
    OBVIOUS
  <2> HIDE DEF final
  <2>4. (\A k \in 1..n : g[k] = f[k]) /\ g[n + 1] = final /\ g = [i \in 1..(n + 1) |-> g[i]]
    OBVIOUS
  <2> HIDE DEF g
  <2>5. g[1] = ss[1]
    <3>1. CASE n = 0
      <4>1. g[n + 1] = g[1]
        BY <3>1
      <4> QED BY <2>3, <2>4, <3>1, <4>1
    <3>2. CASE n # 0
      <4>1. n >= 1 /\ 1 \in 1..n
        BY <3>2
      <4> QED BY <2>2, <2>4, <4>1
    <3> QED BY <3>1, <3>2
  <2>6. ASSUME NEW i \in 2..(n + 1) PROVE g[i] = Chained(g[i - 1], ss[i])
    <3>a. i - 1 \in 1..n /\ n # 0
      OBVIOUS
    <3>1. n # 0 /\ g[i - 1] = f[i - 1]
      BY <2>4, <3>a
    <3>2. CASE i = n + 1
      <4>1. i - 1 = n
        BY <3>2
      <4> QED BY <2>3, <2>4, <3>1, <3>2, <4>1
    <3>3. CASE i # n + 1
      <4>a. i \in 2..n /\ i \in 1..n
        BY <3>3
      <4>1. g[i] = f[i]
        BY <2>4, <4>a
      <4> QED BY <2>2, <3>1, <4>a, <4>1
    <3> QED BY <3>2, <3>3
  <2>7. Flattens(g, n + 1, ss)
    <3> DEFINE m == n + 1
    <3>1. m \in Nat
      OBVIOUS
    <3>2. g = [i \in 1..m |-> g[i]] /\ g[1] = ss[1] /\ \A i \in 2..m : g[i] = Chained(g[i - 1], ss[i])
      BY <2>4, <2>5, <2>6
    <3> HIDE DEF m
    <3>3. Flattens(g, m, ss)
      BY <3>1, <3>2, FlattensBy
    <3> QED BY <3>3 DEF m
  <2> QED BY <2>7
<1> HIDE DEF T
<1>3. Nat \subseteq T
  BY <1>1, <1>2, NatInd
<1> QED BY <1>3 DEF T

LEMMA FlattenIs ==
    ASSUME NEW ss \in Seq(Seq(Nat)), Len(ss) > 0, NEW f, Flattens(f, Len(ss), ss)
    PROVE  FlattenSeq(ss) = f[Len(ss)] /\ f[Len(ss)] \in Seq(Nat)
<1> DEFINE n == Len(ss)
           g == CHOOSE h : Flattens(h, n, ss)
<1>0. n \in Nat /\ n >= 1
  OBVIOUS
<1>1. Flattens(g, n, ss)
  OBVIOUS
<1>2. FlattenSeq(ss) = g[n]
  BY DEF FlattenSeq, Flattens
<1> HIDE DEF g
<1> HIDE DEF n
<1>a. Flattens(f, n, ss)
  BY DEF n
<1>3. f[1] = ss[1] /\ g[1] = ss[1]
  BY <1>0, <1>1, <1>a, FlattensBy
<1>4. ASSUME NEW k \in 2..n
      PROVE  f[k] = Chained(f[k - 1], ss[k]) /\ g[k] = Chained(g[k - 1], ss[k]) /\ ss[k] \in Seq(Nat)
  <2>1. f[k] = Chained(f[k - 1], ss[k])
    BY <1>0, <1>a, FlattensBy
  <2>2. g[k] = Chained(g[k - 1], ss[k])
    BY <1>0, <1>1, FlattensBy
  <2>3. ss[k] \in Seq(Nat)
    BY <1>0 DEF n
  <2> QED BY <2>1, <2>2, <2>3
<1>5. \A k \in 0..n : k >= 1 => f[k] \in {x \in Seq(Nat) : x = g[k]}
  <2> DEFINE T == {k \in Nat : (k >= 1 /\ k <= n) => f[k] \in {x \in Seq(Nat) : x = g[k]}}
  <2>1. 0 \in T
    OBVIOUS
  <2>2. ASSUME NEW k \in Nat, k \in T PROVE k + 1 \in T
    <3> SUFFICES ASSUME k + 1 <= n PROVE f[k + 1] \in {x \in Seq(Nat) : x = g[k + 1]}
      OBVIOUS
    <3>1. CASE k = 0
      <4>1. ss[1] \in Seq(Nat)
        BY <1>0 DEF n
      <4> QED BY <1>3, <3>1, <4>1
    <3>2. CASE k # 0
      <4> DEFINE j == k + 1
      <4>1. j \in 2..n /\ j - 1 = k
        BY <1>0, <3>2
      <4>a. k >= 1 /\ k <= n
        BY <1>0, <3>2
      <4>2. f[k] \in Seq(Nat) /\ f[k] = g[k]
        BY <2>2, <4>a
      <4>3. f[j] = Chained(f[k], ss[j]) /\ g[j] = Chained(g[k], ss[j]) /\ ss[j] \in Seq(Nat)
        <5> HIDE DEF j
        <5> QED BY <1>4, <4>1
      <4> HIDE DEF j
      <4>4. f[j] \in Seq(Nat)
        BY <4>2, <4>3, ConcatProperties DEF Chained
      <4> QED BY <4>2, <4>3, <4>4 DEF j
    <3> QED BY <3>1, <3>2
  <2>3. Nat \subseteq T
    <3> HIDE DEF T
    <3> QED BY <2>1, <2>2, NatInd
  <2> QED BY <1>0, <2>3
<1> QED BY <1>0, <1>2, <1>5 DEF n

\* Flattening a longer sequence.
LEMMA FlattenAppend ==
    /\ FlattenSeq(<<>>) = <<>>
    /\ \A ss \in Seq(Seq(Nat)), s \in Seq(Nat) :
         /\ FlattenSeq(ss) \in Seq(Nat)
         /\ FlattenSeq(Append(ss, s)) = FlattenSeq(ss) \o s
<1>1. FlattenSeq(<<>>) = <<>>
  BY DEF FlattenSeq
<1>2. ASSUME NEW ss \in Seq(Seq(Nat)), NEW s \in Seq(Nat)
      PROVE  FlattenSeq(ss) \in Seq(Nat) /\ FlattenSeq(Append(ss, s)) = FlattenSeq(ss) \o s
  <2> DEFINE n == Len(ss)
             t == Append(ss, s)
  <2>1. /\ n \in Nat /\ t \in Seq(Seq(Nat)) /\ Len(t) = n + 1 /\ t[n + 1] = s
        /\ \A k \in 1..n : t[k] = ss[k]
    OBVIOUS
  <2> HIDE DEF t, n
  <2>a. n + 1 \in Nat /\ n + 1 > 0
    BY <2>1
  <2>2. PICK f : Flattens(f, n + 1, t)
    BY <2>a, FlattensExist
  <2>3. FlattenSeq(t) = f[n + 1]
    BY <2>1, <2>2, <2>a, FlattenIs
  <2>4. CASE n = 0
    <3>1. ss = <<>>
      BY <2>4, EmptySeq DEF n
    <3>2. f[1] = s
      BY <2>1, <2>2, <2>4 DEF Flattens
    <3>3. <<>> \o s = s
      BY ConcatEmptySeq
    <3>4. FlattenSeq(ss) = <<>>
      BY <1>1, <3>1
    <3>5. FlattenSeq(t) = s
      BY <2>3, <2>4, <3>2
    <3>6. <<>> \in Seq(Nat)
      OBVIOUS
    <3> QED BY <3>3, <3>4, <3>5, <3>6 DEF t
  <2>5. CASE n # 0
    <3> DEFINE g == [k \in 1..n |-> f[k]]
    <3>1. f[1] = t[1] /\ \A i \in 2..(n + 1) : f[i] = Chained(f[i - 1], t[i])
      <4> DEFINE m == n + 1
      <4>1. m \in Nat /\ m >= 1 /\ Flattens(f, m, t)
        BY <2>1, <2>2
      <4> HIDE DEF m
      <4>2. f[1] = t[1] /\ \A i \in 2..m : f[i] = Chained(f[i - 1], t[i])
        BY <4>1, FlattensBy
      <4> QED BY <4>2 DEF m
    <3>2. n + 1 \in 2..(n + 1) /\ (n + 1) - 1 = n /\ n \in 1..n /\ 1 \in 1..n
      BY <2>1, <2>5
    <3>3. f[n + 1] = Chained(f[n], s)
      BY <2>1, <3>1, <3>2
    <3>4. (\A k \in 1..n : g[k] = f[k]) /\ g = [i \in 1..n |-> g[i]]
      OBVIOUS
    <3> HIDE DEF g
    <3>5. g[1] = ss[1]
      BY <2>1, <3>1, <3>2, <3>4
    <3>6. ASSUME NEW i \in 2..n PROVE g[i] = Chained(g[i - 1], ss[i])
      <4>1. i \in 1..n /\ i - 1 \in 1..n /\ i \in 2..(n + 1)
        BY <2>1
      <4>2. f[i] = Chained(f[i - 1], t[i]) /\ t[i] = ss[i]
        BY <2>1, <3>1, <4>1
      <4> QED BY <3>4, <4>1, <4>2
    <3>7. Flattens(g, n, ss)
      BY <2>1, <3>4, <3>5, <3>6, FlattensBy
    <3>8. FlattenSeq(ss) = g[n] /\ g[n] \in Seq(Nat)
      <4>1. Len(ss) > 0 /\ Flattens(g, Len(ss), ss)
        BY <2>1, <2>5, <3>7 DEF n
      <4>2. FlattenSeq(ss) = g[Len(ss)] /\ g[Len(ss)] \in Seq(Nat)
        BY <4>1, FlattenIs
      <4> QED BY <4>2 DEF n
    <3>9. FlattenSeq(t) = FlattenSeq(ss) \o s
      <4>1. FlattenSeq(t) = Chained(FlattenSeq(ss), s)
        BY <2>3, <3>2, <3>3, <3>4, <3>8
      <4> QED BY <4>1, Zenon DEF Chained
    <3>10. FlattenSeq(ss) \in Seq(Nat)
      BY <3>8
    <3> QED BY <3>9, <3>10 DEF t
  <2> QED BY <2>4, <2>5
<1> QED BY <1>1, <1>2

\* What holds of the empty sequence, and of a longer one if of the shorter, holds of all.
LEMMA SeqInd ==
    ASSUME NEW S, NEW T, <<>> \in T,
           \A s \in Seq(S), v \in S : s \in T => Append(s, v) \in T
    PROVE  Seq(S) \subseteq T
<1> DEFINE L == {n \in Nat : \A s \in Seq(S) : Len(s) = n => s \in T}
<1>1. 0 \in L
  <2>1. \A s \in Seq(S) : Len(s) = 0 => s = <<>>
    BY EmptySeq
  <2> QED BY <2>1
<1>2. ASSUME NEW n \in Nat, n \in L PROVE n + 1 \in L
  <2> SUFFICES ASSUME NEW s \in Seq(S), Len(s) = n + 1 PROVE s \in T
    BY <1>2
  <2>1. s # <<>>
    BY EmptySeq
  <2>2. PICK t \in Seq(S), v \in S : s = Append(t, v)
    BY <2>1, SequenceEmptyOrAppend
  <2>3. Len(t) = n
    BY <2>2, LenProperties
  <2> QED BY <1>2, <2>2, <2>3
<1>3. Nat \subseteq L
  <2> HIDE DEF L
  <2> QED BY <1>1, <1>2, NatInd
<1>4. ASSUME NEW s \in Seq(S) PROVE s \in T
  <2>1. Len(s) \in L
    BY <1>3, LenProperties
  <2> QED BY <2>1
<1> QED BY <1>4

\* The text of characters, as units.
TextOf(chars) == FlattenSeq([i \in DOMAIN chars |-> Encoded(chars[i])])

LEMMA EncodedUnits == \A c \in Characters : Encoded(c) \in Seq(Nat) /\ (c \in Units => Encoded(c) = <<c>>)
<1> TAKE c \in Characters
<1>0. c \in Nat /\ BMP_END \in Nat /\ Units \subseteq Nat
  BY Widths
<1>1. CASE c < BMP_END
  <2>1. Encoded(c) = <<c>>
    BY <1>1 DEF Encoded
  <2> QED BY <1>0, <2>1
<1>2. CASE ~(c < BMP_END)
  <2> DEFINE h == HalfOf(c - BMP_END, "high") + HIGH_SURROGATE_START
             l == HalfOf(c - BMP_END, "low") + LOW_SURROGATE_START
  <2>1. IsHigh(h) /\ IsLow(l) /\ Encoded(c) = <<h, l>>
    BY <1>0, <1>2, Beyond
  <2> HIDE DEF h, l
  <2>2. h \in Nat /\ l \in Nat
    BY <2>1, Widths DEF IsHigh, IsLow
  <2>3. c \notin Units
    BY <1>0, <1>2 DEF Units
  <2> QED BY <2>1, <2>2, <2>3
<1> QED BY <1>1, <1>2

LEMMA WiderSeq ==
    ASSUME NEW S, NEW T, S \subseteq T, NEW s \in Seq(S)
    PROVE  s \in Seq(T)
<1>1. s \in [1..Len(s) -> T] /\ Len(s) \in Nat
  OBVIOUS
<1> QED BY <1>1

LEMMA SeqIsFunction ==
    ASSUME NEW S, NEW s \in Seq(S)
    PROVE  s = [i \in 1..Len(s) |-> s[i]]
OBVIOUS

LEMMA SeqOfParts ==
    ASSUME NEW S, NEW s \in Seq(S)
    PROVE  DOMAIN s = 1..Len(s) /\ Len(s) \in Nat /\ \A i \in 1..Len(s) : s[i] \in S
OBVIOUS

\* The text of a longer string.
LEMMA TextAppend ==
    /\ TextOf(<<>>) = <<>>
    /\ \A chars \in Seq(Characters), c \in Characters :
         /\ TextOf(chars) \in Seq(Nat)
         /\ TextOf(Append(chars, c)) = TextOf(chars) \o Encoded(c)
<1>1. TextOf(<<>>) = <<>>
  <2>1. [i \in DOMAIN <<>> |-> Encoded(<<>>[i])] = <<>>
    OBVIOUS
  <2> QED BY <2>1, FlattenAppend DEF TextOf
<1>2. ASSUME NEW chars \in Seq(Characters), NEW c \in Characters
      PROVE  TextOf(chars) \in Seq(Nat) /\ TextOf(Append(chars, c)) = TextOf(chars) \o Encoded(c)
  <2> DEFINE S == Seq(Nat)
             n == Len(chars)
             longer == Append(chars, c)
             e == [i \in DOMAIN chars |-> Encoded(chars[i])]
             g == [i \in DOMAIN longer |-> Encoded(longer[i])]
             x == Encoded(c)
  <2>1. /\ n \in Nat /\ DOMAIN chars = 1..n /\ \A i \in 1..n : chars[i] \in Characters
        /\ DOMAIN longer = 1..(n + 1) /\ longer[n + 1] = c /\ \A i \in 1..n : longer[i] = chars[i]
    BY AppendProperties, SeqOfParts
  <2> HIDE DEF n, longer
  <2>2. x \in S /\ \A i \in 1..n : Encoded(chars[i]) \in S
    BY <2>1, EncodedUnits
  <2> HIDE DEF S, x
  <2>3. e \in Seq(S) /\ Len(e) = n /\ \A i \in 1..n : e[i] = Encoded(chars[i])
    BY <2>1, <2>2
  <2>4. g = [i \in 1..(n + 1) |-> g[i]] /\ g[n + 1] = x /\ \A i \in 1..n : g[i] = e[i]
    <3>1. \A i \in 1..(n + 1) : g[i] = Encoded(longer[i])
      BY <2>1
    <3>2. n + 1 \in 1..(n + 1) /\ \A i \in 1..n : i \in 1..(n + 1)
      BY <2>1
    <3>3. g = [i \in 1..(n + 1) |-> g[i]]
      BY <2>1
    <3> HIDE DEF e, g
    <3> QED BY <2>1, <2>3, <3>1, <3>2, <3>3 DEF x
  <2> HIDE DEF e, g
  <2>5. g = Append(e, x)
    <3>1. /\ Append(e, x) \in Seq(S) /\ Len(Append(e, x)) = n + 1 /\ Append(e, x)[n + 1] = x
          /\ \A i \in 1..n : Append(e, x)[i] = e[i]
      BY <2>1, <2>2, <2>3, AppendProperties
    <3>2. \A i \in 1..(n + 1) : g[i] = Append(e, x)[i]
      <4> TAKE i \in 1..(n + 1)
      <4>1. CASE i = n + 1
        BY <2>4, <3>1, <4>1
      <4>2. CASE i # n + 1
        <5>1. i \in 1..n
          BY <2>1, <4>2
        <5> QED BY <2>4, <3>1, <5>1
      <4> QED BY <4>1, <4>2
    <3> DEFINE a == Append(e, x)
    <3> HIDE DEF a
    <3>3. a = [i \in 1..(n + 1) |-> a[i]]
      <4>1. a \in Seq(S) /\ Len(a) = n + 1
        BY <3>1 DEF a
      <4> QED BY <4>1, SeqIsFunction
    <3> QED BY <2>4, <3>2, <3>3 DEF a
  <2>6. FlattenSeq(e) \in Seq(Nat) /\ FlattenSeq(Append(e, x)) = FlattenSeq(e) \o x
    BY <2>2, <2>3, FlattenAppend DEF S
  <2>7. TextOf(chars) = FlattenSeq(e) /\ TextOf(longer) = FlattenSeq(g)
    BY DEF TextOf, e, g
  <2>8. TextOf(longer) = TextOf(chars) \o x
    BY <2>5, <2>6, <2>7
  <2>9. TextOf(chars) \in Seq(Nat)
    BY <2>6, <2>7
  <2> QED BY <2>8, <2>9 DEF longer, x
<1> QED BY <1>1, <1>2

\* Units that are characters of their own.
LEMMA UnitsAreText ==
    ASSUME NEW units \in Seq(Units)
    PROVE  TextOf(units) = units /\ units \in Seq(Characters)
<1> DEFINE T == {s \in Seq(Units) : TextOf(s) = s}
<1>0. Units \subseteq Characters /\ Units \subseteq Nat
  BY Widths
<1>1. <<>> \in T
  BY TextAppend
<1>2. ASSUME NEW s \in Seq(Units), NEW v \in Units, s \in T PROVE Append(s, v) \in T
  <2>1. s \in Seq(Characters) /\ v \in Characters /\ TextOf(s) = s
    BY <1>0, <1>2, WiderSeq
  <2>2. Encoded(v) = <<v>>
    BY <2>1, EncodedUnits
  <2>3. TextOf(Append(s, v)) = TextOf(s) \o Encoded(v)
    BY <2>1, TextAppend
  <2>4. TextOf(Append(s, v)) = s \o <<v>>
    BY <2>1, <2>2, <2>3
  <2>5. s \o <<v>> = Append(s, v)
    BY AppendIsConcat
  <2>6. Append(s, v) \in Seq(Units)
    BY AppendProperties
  <2> QED BY <2>4, <2>5, <2>6
<1>3. Seq(Units) \subseteq T
  <2> HIDE DEF T
  <2> QED BY <1>1, <1>2, SeqInd
<1>4. units \in Seq(Characters)
  BY <1>0, WiderSeq
<1> QED BY <1>3, <1>4

HasSurrogates(chars) == \E i \in DOMAIN chars : IsSurrogate(chars[i])

\* The text of a JSString for characters without surrogates.
LEMMA UTF16IsText ==
    ASSUME NEW chars \in Seq(Characters), ~HasSurrogates(chars)
    PROVE  UCS4ToUTF16(chars) = TextOf(chars)
<1> DEFINE Unit(c) ==
             IF c < HIGH_SURROGATE_START \/ (c > LOW_SURROGATE_END /\ c < BMP_END) THEN <<c>>
             ELSE <<HalfOf(c - BMP_END, "high") + HIGH_SURROGATE_START,
                    HalfOf(c - BMP_END, "low") + LOW_SURROGATE_START>>
<1>1. UCS4ToUTF16(chars) = FlattenSeq([i \in DOMAIN chars |-> Unit(chars[i])])
  BY DEF UCS4ToUTF16
<1>2. ASSUME NEW i \in DOMAIN chars PROVE Unit(chars[i]) = Encoded(chars[i])
  <2> DEFINE c == chars[i]
  <2>1. c \in Characters
    BY SeqOfParts
  <2>2. c \notin Surrogates
    BY DEF HasSurrogates, IsSurrogate
  <2> HIDE DEF c
  <2>3. /\ c \in Nat /\ HIGH_SURROGATE_START \in Nat /\ LOW_SURROGATE_END \in Int /\ BMP_END \in Nat
        /\ HIGH_SURROGATE_START < BMP_END /\ LOW_SURROGATE_END < BMP_END
    BY <2>1, Widths
  <2>4. c < HIGH_SURROGATE_START \/ c > LOW_SURROGATE_END
    BY <2>2, <2>3 DEF Surrogates
  <2>5. CASE c < BMP_END
    <3>1. Unit(c) = <<c>>
      BY <2>4, <2>5
    <3>2. Encoded(c) = <<c>>
      BY <2>5 DEF Encoded
    <3> QED BY <3>1, <3>2 DEF c
  <2>6. CASE ~(c < BMP_END)
    <3>1. ~(c < HIGH_SURROGATE_START \/ (c > LOW_SURROGATE_END /\ c < BMP_END))
      BY <2>3, <2>6
    <3>2. Unit(c) = <<HalfOf(c - BMP_END, "high") + HIGH_SURROGATE_START,
                      HalfOf(c - BMP_END, "low") + LOW_SURROGATE_START>>
      BY <3>1
    <3>3. Encoded(c) = <<HalfOf(c - BMP_END, "high") + HIGH_SURROGATE_START,
                         HalfOf(c - BMP_END, "low") + LOW_SURROGATE_START>>
      <4>1. c >= BMP_END
        BY <2>3, <2>6
      <4> QED BY <2>1, <4>1, Beyond
    <3> QED BY <3>2, <3>3 DEF c
  <2> QED BY <2>5, <2>6
<1> HIDE DEF Unit
<1> QED BY <1>1, <1>2 DEF TextOf

\* A step of asUCS4, and the function that it computes with.
Join(done, units, k) ==
    IF PairAt(units, k) THEN done
    ELSE IF k > 1 /\ PairAt(units, k - 1)
         THEN Append(done, JoinSurrogates(units[k - 1], units[k]))
    ELSE Append(done, units[k])
Joins(f, n, units) == f = [k \in 0..n |-> IF k = 0 THEN <<>> ELSE Join(f[k - 1], units, k)]

LEMMA JoinsExist == \A units : \A n \in Nat : \E f : Joins(f, n, units)
<1> SUFFICES ASSUME NEW units PROVE \A n \in Nat : \E f : Joins(f, n, units)
  OBVIOUS
<1> DEFINE T == {n \in Nat : \E f : Joins(f, n, units)}
<1>1. 0 \in T
  <2>1. Joins([k \in 0..0 |-> <<>>], 0, units)
    BY DEF Joins
  <2> QED BY <2>1
<1>2. ASSUME NEW n \in Nat, n \in T PROVE n + 1 \in T
  <2>1. PICK f : Joins(f, n, units)
    BY <1>2
  <2> DEFINE g == [k \in 0..(n + 1) |-> IF k <= n THEN f[k] ELSE Join(f[n], units, n + 1)]
  <2>2. Joins(g, n + 1, units)
    BY <2>1 DEF Joins
  <2> HIDE DEF g
  <2> QED BY <2>2
<1> HIDE DEF T
<1>3. Nat \subseteq T
  BY <1>1, <1>2, NatInd
<1> QED BY <1>3 DEF T

\* How many of the first k units are characters already.
Told(units, k) == IF k > 0 /\ PairAt(units, k) THEN k - 1 ELSE k

\* The prefixes of a sequence.
LEMMA PrefixOf ==
    ASSUME NEW S, NEW s \in Seq(S)
    PROVE  /\ SubSeq(s, 1, 0) = <<>> /\ SubSeq(s, 1, Len(s)) = s
           /\ \A k \in 1..Len(s) : /\ SubSeq(s, 1, k - 1) \in Seq(S)
                                   /\ SubSeq(s, 1, k) = SubSeq(s, 1, k - 1) \o <<s[k]>>
<1>1. SubSeq(s, 1, 0) = <<>> /\ SubSeq(s, 1, Len(s)) = s
  OBVIOUS
<1>2. ASSUME NEW k \in 1..Len(s)
      PROVE  SubSeq(s, 1, k - 1) \in Seq(S) /\ SubSeq(s, 1, k) = SubSeq(s, 1, k - 1) \o <<s[k]>>
  <2> DEFINE a == SubSeq(s, 1, k - 1)
             b == SubSeq(s, 1, k)
             c == Append(a, s[k])
  <2>0. k \in Nat /\ k >= 1 /\ k - 1 \in Nat /\ k <= Len(s) /\ Len(s) \in Nat
    OBVIOUS
  <2>1. a = [i \in 1..(k - 1) |-> s[i]] /\ b = [i \in 1..k |-> s[i]]
    OBVIOUS
  <2>2. \A i \in 1..k : s[i] \in S
    BY <2>0
  <2>3. a \in Seq(S) /\ Len(a) = k - 1
    <3> DEFINE m == k - 1
    <3>1. \A i \in 1..m : s[i] \in S
      BY <2>0, <2>2
    <3>2. a = [i \in 1..m |-> s[i]] /\ m \in Nat
      BY <2>0, <2>1
    <3> HIDE DEF a, m
    <3>3. a \in Seq(S) /\ Len(a) = m
      BY <3>1, <3>2
    <3> QED BY <3>3 DEF m
  <2> HIDE DEF a, b
  <2>4. c \in Seq(S) /\ Len(c) = k /\ c[k] = s[k] /\ \A i \in 1..(k - 1) : c[i] = a[i]
    BY <2>0, <2>2, <2>3, AppendProperties
  <2> HIDE DEF c
  <2>5. \A i \in 1..k : c[i] = b[i]
    <3> TAKE i \in 1..k
    <3>1. CASE i = k
      BY <2>0, <2>1, <2>4, <3>1
    <3>2. CASE i # k
      <4>1. i \in 1..(k - 1)
        BY <2>0, <3>2
      <4>2. c[i] = a[i] /\ a[i] = s[i] /\ b[i] = s[i]
        BY <2>1, <2>4, <4>1
      <4> QED BY <4>2
    <3> QED BY <3>1, <3>2
  <2>6. c = [i \in 1..k |-> c[i]] /\ b = [i \in 1..k |-> b[i]]
    BY <2>1, <2>4, SeqIsFunction
  <2>7. c = b
    BY <2>5, <2>6
  <2>8. c = a \o <<s[k]>>
    BY AppendIsConcat DEF c
  <2> QED BY <2>3, <2>7, <2>8 DEF a, b
<1> QED BY <1>1, <1>2

LEMMA TwoUnits == \A x, y : <<x>> \o <<y>> = <<x, y>>
<1> TAKE x, y
<1> DEFINE S == {x, y}
           a == Append(<<x>>, y)
           b == <<x, y>>
<1>1. <<x>> \in Seq(S) /\ y \in S /\ Len(<<x>>) = 1 /\ <<x>>[1] = x
  OBVIOUS
<1>2. b \in Seq(S) /\ Len(b) = 2 /\ b[1] = x /\ b[2] = y
  OBVIOUS
<1>3. a \in Seq(S) /\ Len(a) = 2 /\ a[1] = x /\ a[2] = y
  <2> HIDE DEF S
  <2> QED BY <1>1, AppendProperties
<1>4. a = <<x>> \o <<y>>
  <2> HIDE DEF S
  <2> QED BY <1>1, AppendIsConcat
<1> HIDE DEF a, b, S
<1>5. a = [i \in 1..2 |-> a[i]] /\ b = [i \in 1..2 |-> b[i]]
  BY <1>2, <1>3, SeqIsFunction
<1>6. \A i \in 1..2 : a[i] = b[i]
  BY <1>2, <1>3
<1>7. a = b
  BY <1>5, <1>6
<1> QED BY <1>4, <1>7 DEF b

\* A step of asUCS4 takes the text one unit further, or waits for the low surrogate.
LEMMA JoinTells ==
    ASSUME NEW units \in Seq(Units), WellFormed(units), NEW k \in 1..Len(units),
           NEW done \in Seq(Characters), ~HasSurrogates(done),
           TextOf(done) = SubSeq(units, 1, Told(units, k - 1))
    PROVE  /\ Join(done, units, k) \in Seq(Characters) /\ ~HasSurrogates(Join(done, units, k))
           /\ TextOf(Join(done, units, k)) = SubSeq(units, 1, Told(units, k))
<1>0. k \in Nat /\ k >= 1 /\ k - 1 \in Nat /\ Len(units) \in Nat /\ k <= Len(units)
  OBVIOUS
<1>1. ASSUME NEW c \in Characters, c \notin Surrogates
      PROVE  Append(done, c) \in Seq(Characters) /\ ~HasSurrogates(Append(done, c))
             /\ TextOf(Append(done, c)) = TextOf(done) \o Encoded(c)
  <2> DEFINE a == Append(done, c)
  <2>1. /\ a \in Seq(Characters) /\ Len(a) = Len(done) + 1 /\ a[Len(done) + 1] = c
        /\ \A i \in 1..Len(done) : a[i] = done[i]
    BY AppendProperties
  <2>2. DOMAIN a = 1..(Len(done) + 1) /\ DOMAIN done = 1..Len(done) /\ Len(done) \in Nat
    BY <2>1, SeqOfParts
  <2> HIDE DEF a
  <2>3. ASSUME NEW i \in DOMAIN a PROVE ~IsSurrogate(a[i])
    <3>1. CASE i = Len(done) + 1
      BY <1>1, <2>1, <3>1 DEF IsSurrogate
    <3>2. CASE i # Len(done) + 1
      <4>1. i \in 1..Len(done)
        BY <2>2, <3>2
      <4> QED BY <2>1, <2>2, <4>1 DEF HasSurrogates
    <3> QED BY <3>1, <3>2
  <2>4. ~HasSurrogates(a)
    BY <2>3 DEF HasSurrogates
  <2>5. TextOf(a) = TextOf(done) \o Encoded(c)
    BY <1>1, TextAppend DEF a
  <2> QED BY <2>1, <2>4, <2>5 DEF a
<1>a. Surrogates = HIGH_SURROGATE_START..LOW_SURROGATE_END /\ Units \subseteq Characters
      /\ HIGH_SURROGATE_START \in Nat /\ LOW_SURROGATE_END \in Int /\ BMP_END \in Nat
      /\ LOW_SURROGATE_START \in Nat /\ LOW_SURROGATE_END < BMP_END /\ Characters \subseteq Nat
  BY Widths DEF Surrogates
<1>2. CASE PairAt(units, k)
  <2>1. ~PairAt(units, k - 1)
    <3> SUFFICES ASSUME IsLow(units[k]), IsHigh(units[k]) PROVE FALSE
      <4>1. (k - 1) + 1 = k
        BY <1>0
      <4> QED BY <1>2, <4>1 DEF PairAt
    <3> QED BY <1>a DEF IsHigh, IsLow
  <2>2. Told(units, k - 1) = k - 1 /\ Told(units, k) = k - 1
    BY <1>0, <1>2, <2>1 DEF Told
  <2>3. Join(done, units, k) = done
    BY <1>2 DEF Join
  <2> QED BY <2>2, <2>3
<1>3. CASE ~PairAt(units, k) /\ k > 1 /\ PairAt(units, k - 1)
  <2> DEFINE j == k - 1
             h == units[j]
             l == units[k]
             c == JoinSurrogates(h, l)
  <2>1. j \in 1..Len(units) /\ j + 1 = k /\ j > 0
    BY <1>0, <1>3
  <2>2. IsHigh(h) /\ IsLow(l)
    BY <1>3, <2>1 DEF PairAt
  <2>3. c \in Characters /\ c >= BMP_END /\ Encoded(c) = <<h, l>>
    BY <2>2, Joined
  <2>4. Join(done, units, k) = Append(done, c)
    BY <1>3 DEF Join
  <2>5. Told(units, j) = j - 1 /\ Told(units, k) = k
    BY <1>0, <1>3, <2>1 DEF Told
  <2>6. /\ SubSeq(units, 1, k) = SubSeq(units, 1, j) \o <<l>>
        /\ SubSeq(units, 1, j) = SubSeq(units, 1, j - 1) \o <<h>>
        /\ SubSeq(units, 1, j - 1) \in Seq(Units)
    <3>1. SubSeq(units, 1, k) = SubSeq(units, 1, k - 1) \o <<units[k]>>
      BY PrefixOf
    <3> HIDE DEF j
    <3>2. SubSeq(units, 1, j) = SubSeq(units, 1, j - 1) \o <<units[j]>> /\ SubSeq(units, 1, j - 1) \in Seq(Units)
      BY <2>1, PrefixOf
    <3> QED BY <3>1, <3>2 DEF j
  <2>7. h \in Units /\ l \in Units
    BY <2>1, SeqOfParts
  <2>8. TextOf(done) = SubSeq(units, 1, j - 1)
    BY <2>5
  <2>9. c \notin Surrogates
    <3> HIDE DEF c
    <3> QED BY <1>a, <2>3
  <2> HIDE DEF c, h, l, j
  <2> DEFINE p == SubSeq(units, 1, j - 1)
  <2>10. p \o <<h, l>> = (p \o <<h>>) \o <<l>>
    <3> HIDE DEF p
    <3>1. p \in Seq(Units) /\ <<h>> \in Seq(Units) /\ <<l>> \in Seq(Units)
      BY <2>6, <2>7 DEF p
    <3>2. (p \o <<h>>) \o <<l>> = p \o (<<h>> \o <<l>>)
      BY <3>1, ConcatAssociative
    <3>3. <<h>> \o <<l>> = <<h, l>>
      BY TwoUnits
    <3> QED BY <3>2, <3>3
  <2>11. /\ Append(done, c) \in Seq(Characters) /\ ~HasSurrogates(Append(done, c))
         /\ TextOf(Append(done, c)) = TextOf(done) \o Encoded(c)
    BY <1>1, <2>3, <2>9
  <2>12. TextOf(done) \o Encoded(c) = SubSeq(units, 1, k)
    BY <2>3, <2>6, <2>8, <2>10
  <2> QED BY <2>4, <2>5, <2>11, <2>12
<1>4. CASE ~PairAt(units, k) /\ ~(k > 1 /\ PairAt(units, k - 1))
  <2> DEFINE c == units[k]
  <2>1. k \in DOMAIN units /\ c \in Units
    BY SeqOfParts
  <2>2. c \notin Surrogates
    BY <1>4, <2>1 DEF WellFormed, IsSurrogate, Paired
  <2>3. c \in Characters /\ Encoded(c) = <<c>>
    BY <1>a, <2>1, EncodedUnits
  <2>4. Join(done, units, k) = Append(done, c)
    BY <1>4 DEF Join
  <2>5. Told(units, k - 1) = k - 1 /\ Told(units, k) = k
    BY <1>0, <1>4 DEF Told
  <2>6. SubSeq(units, 1, k) = SubSeq(units, 1, k - 1) \o <<c>>
    BY PrefixOf
  <2> HIDE DEF c
  <2>7. /\ Append(done, c) \in Seq(Characters) /\ ~HasSurrogates(Append(done, c))
        /\ TextOf(Append(done, c)) = TextOf(done) \o Encoded(c)
    BY <1>1, <2>2, <2>3
  <2>8. TextOf(done) \o Encoded(c) = SubSeq(units, 1, k)
    BY <2>3, <2>5, <2>6
  <2> QED BY <2>4, <2>5, <2>7, <2>8
<1> QED BY <1>2, <1>3, <1>4

\* Characters for well-formed units: no surrogate is left, and the text is the same.
LEMMA UCS4Tells ==
    ASSUME NEW units \in Seq(Units), WellFormed(units)
    PROVE  /\ asUCS4(units) \in Seq(Characters) /\ ~HasSurrogates(asUCS4(units))
           /\ TextOf(asUCS4(units)) = units
<1> DEFINE n == Len(units)
           f == CHOOSE h : Joins(h, n, units)
           D == [k \in 0..n |-> {s \in Seq(Characters) :
                                   ~HasSurrogates(s) /\ TextOf(s) = SubSeq(units, 1, Told(units, k))}]
<1>1. n \in Nat
  OBVIOUS
<1>2. Joins(f, n, units)
  <2>1. \E h : Joins(h, n, units)
    BY <1>1, JoinsExist
  <2> QED BY <2>1
<1>3. asUCS4(units) = f[n]
  BY DEF asUCS4, Joins, Join
<1> HIDE DEF f
<1>4. f[0] = <<>> /\ \A k \in 1..n : f[k] = Join(f[k - 1], units, k)
  <2> HIDE DEF n
  <2> QED BY <1>1, <1>2 DEF Joins
<1>5. f[0] \in D[0]
  <2>1. Told(units, 0) = 0 /\ SubSeq(units, 1, 0) = <<>>
    BY PrefixOf DEF Told
  <2>2. <<>> \in Seq(Characters) /\ ~HasSurrogates(<<>>) /\ TextOf(<<>>) = <<>>
    BY TextAppend DEF HasSurrogates
  <2>3. 0 \in 0..n
    BY <1>1
  <2> QED BY <1>4, <2>1, <2>2, <2>3
<1>6. ASSUME NEW k \in 1..n, f[k - 1] \in D[k - 1] PROVE f[k] \in D[k]
  <2>1. k - 1 \in 0..n /\ k \in 0..n
    BY <1>1
  <2> DEFINE done == f[k - 1]
  <2>2. done \in Seq(Characters) /\ ~HasSurrogates(done) /\ TextOf(done) = SubSeq(units, 1, Told(units, k - 1))
    BY <1>6, <2>1
  <2> HIDE DEF done
  <2>3. /\ Join(done, units, k) \in Seq(Characters) /\ ~HasSurrogates(Join(done, units, k))
        /\ TextOf(Join(done, units, k)) = SubSeq(units, 1, Told(units, k))
    BY <2>2, JoinTells
  <2>4. f[k] = Join(done, units, k)
    BY <1>4 DEF done
  <2> QED BY <2>1, <2>3, <2>4
<1> HIDE DEF D
<1>7. \A k \in 0..n : f[k] \in D[k]
  BY <1>1, <1>5, <1>6, LoopKeeps
<1>8. n \in 0..n
  BY <1>1
<1>9. Told(units, n) = n /\ SubSeq(units, 1, n) = units
  <2>1. ~PairAt(units, n)
    BY <1>1 DEF PairAt
  <2> QED BY <2>1, PrefixOf DEF Told
<1>10. D[n] = {s \in Seq(Characters) :
                 ~HasSurrogates(s) /\ TextOf(s) = SubSeq(units, 1, Told(units, n))}
  BY <1>8 DEF D
<1> QED BY <1>3, <1>7, <1>8, <1>9, <1>10
-----------------------------------------------------------------------------
(* Strings: what a string is on each side.                                  *)

\* A Python string with characters of its own, and one that shows a JS string.
OwnPy(v) == /\ v = NewPyStr(v.chars) /\ v.chars \in Seq(Characters)
            /\ HasSurrogates(v.chars) => v = origin
OwnJs(s) == /\ s = JSStr(s.wide, s.units, Own) /\ s.units \in Seq(Units)
            /\ s.wide \/ SmallestKind(s.units) = 1
ShowsJs(v) == /\ OwnJs(v.of)
              /\ v = PyStr(IF v.of.wide THEN 2 ELSE 1, v.of.units, v.of)
              /\ IF HasSurrogates(v.of.units) THEN ~WellFormed(v.of.units)
                 ELSE version < (IF v.of.wide THEN 13 ELSE 12)
ShowsPy(s) == /\ OwnPy(s.of) /\ s.of.kind # 4
              /\ s = JSStr(s.of.kind = 2, s.of.chars, s.of)
StringIs(v) == /\ v.type = "str" => OwnPy(v) \/ ShowsJs(v)
               /\ v.type = "string" => OwnJs(v) \/ ShowsPy(v)
StringOK == /\ version \in PyVersions
            /\ value.type \in {"str", "string"} /\ ~Mangled =>
                 Text(value) = Text(origin) /\ StringIs(value)

\* A text is one of units.
LEMMA TextUnits == \A chars \in Seq(Characters) : TextOf(chars) \in Seq(Units)
<1> DEFINE T == {s \in Seq(Characters) : TextOf(s) \in Seq(Units)}
<1>1. <<>> \in T
  <2>1. TextOf(<<>>) = <<>>
    BY TextAppend
  <2>2. <<>> \in Seq(Characters) /\ <<>> \in Seq(Units)
    OBVIOUS
  <2> QED BY <2>1, <2>2
<1>2. ASSUME NEW c \in Characters PROVE Encoded(c) \in Seq(Units)
  <2>1. CASE c \in Units
    <3>1. Encoded(c) = <<c>>
      BY <2>1, EncodedUnits
    <3> QED BY <2>1, <3>1
  <2>2. CASE c \notin Units
    <3> DEFINE h == HalfOf(c - BMP_END, "high") + HIGH_SURROGATE_START
               l == HalfOf(c - BMP_END, "low") + LOW_SURROGATE_START
    <3>1. c \in Nat /\ BMP_END \in Nat
      BY Widths
    <3>2. c >= BMP_END
      BY <2>2, <3>1 DEF Units
    <3>3. IsHigh(h) /\ IsLow(l) /\ Encoded(c) = <<h, l>>
      BY <3>2, Beyond
    <3> HIDE DEF h, l
    <3>4. h \in Surrogates /\ l \in Surrogates
      BY <3>3, Widths DEF IsHigh, IsLow, Surrogates
    <3>5. h \in Units /\ l \in Units
      BY <3>4, Widths
    <3> QED BY <3>3, <3>5
  <2> QED BY <2>1, <2>2
<1>3. ASSUME NEW s \in Seq(Characters), NEW c \in Characters, s \in T PROVE Append(s, c) \in T
  <2>1. TextOf(s) \in Seq(Units) /\ Encoded(c) \in Seq(Units)
    BY <1>2, <1>3
  <2> DEFINE a == TextOf(s)
             b == Encoded(c)
  <2>2. TextOf(Append(s, c)) = a \o b
    BY TextAppend
  <2> HIDE DEF a, b
  <2>3. a \o b \in Seq(Units)
    BY <2>1, ConcatProperties DEF a, b
  <2>4. Append(s, c) \in Seq(Characters)
    BY AppendProperties
  <2> QED BY <2>2, <2>3, <2>4
<1>4. Seq(Characters) \subseteq T
  <2> HIDE DEF T
  <2> QED BY <1>1, <1>3, SeqInd
<1> QED BY <1>4

\* What the smallest kind of characters says of them.
LEMMA KindsOf ==
    ASSUME NEW chars \in Seq(Characters)
    PROVE  /\ SmallestKind(chars) \in {1, 2, 4}
           /\ SmallestKind(chars) # 4 <=> chars \in Seq(Units)
           /\ SmallestKind(chars) = 1 => ~HasSurrogates(chars)
<1>1. /\ DOMAIN chars = 1..Len(chars) /\ Len(chars) \in Nat
      /\ \A i \in DOMAIN chars : chars[i] \in Characters /\ chars[i] \in Nat
  BY Widths, SeqOfParts
<1>2. SmallestKind(chars) \in {1, 2, 4}
  BY DEF SmallestKind
<1>3. BMP_END \in Nat /\ Latin1End \in Nat /\ Latin1End <= HIGH_SURROGATE_START
      /\ HIGH_SURROGATE_START \in Nat /\ LOW_SURROGATE_END \in Int
  BY Widths
<1>4. ASSUME SmallestKind(chars) # 4 PROVE chars \in Seq(Units)
  <2>1. \A i \in DOMAIN chars : chars[i] \in Units
    BY <1>1, <1>3, <1>4 DEF SmallestKind, Units
  <2>2. chars = [i \in 1..Len(chars) |-> chars[i]]
    BY SeqIsFunction
  <2> DEFINE n == Len(chars)
  <2> HIDE DEF n
  <2>3. n \in Nat /\ chars = [i \in 1..n |-> chars[i]] /\ \A i \in 1..n : chars[i] \in Units
    BY <1>1, <2>1, <2>2 DEF n
  <2>4. chars \in [1..n -> Units]
    BY <2>3
  <2> QED BY <2>3, <2>4
<1>5. ASSUME chars \in Seq(Units) PROVE SmallestKind(chars) # 4
  <2>1. \A i \in DOMAIN chars : chars[i] \in Units
    BY <1>1, <1>5, SeqOfParts
  <2>2. \A i \in DOMAIN chars : ~(chars[i] >= BMP_END)
    BY <1>1, <1>3, <2>1 DEF Units
  <2> QED BY <2>2 DEF SmallestKind
<1>6. ASSUME SmallestKind(chars) = 1 PROVE ~HasSurrogates(chars)
  <2>1. \A i \in DOMAIN chars : ~(chars[i] >= Latin1End)
    BY <1>6 DEF SmallestKind
  <2>2. \A i \in DOMAIN chars : ~IsSurrogate(chars[i])
    BY <1>1, <1>3, <2>1 DEF IsSurrogate, Surrogates
  <2> QED BY <2>2 DEF HasSurrogates
<1> QED BY <1>2, <1>4, <1>5, <1>6

\* A string from JavaScript, copied or shown, keeps its text.
LEMMA CrossToPython ==
    ASSUME NEW s, OwnJs(s), version \in PyVersions
    PROVE  /\ proxifyString(s).type = "str" /\ Text(proxifyString(s)) = s.units
           /\ OwnPy(proxifyString(s)) \/ ShowsJs(proxifyString(s))
<1> DEFINE u == s.units
           p == proxifyString(s)
<1>1. u \in Seq(Units) /\ u \in Seq(Characters) /\ TextOf(u) = u
  BY UnitsAreText DEF OwnJs
<1>2. HasSurrogates(u) = \E i \in DOMAIN u : IsSurrogate(u[i])
  BY DEF HasSurrogates
<1>3. CASE s.wide /\ HasSurrogates(u) /\ WellFormed(u)
  <2> DEFINE c == asUCS4(u)
  <2>1. p = NewPyStr(c)
    BY <1>2, <1>3 DEF proxifyString
  <2>2. c \in Seq(Characters) /\ ~HasSurrogates(c) /\ TextOf(c) = u
    BY <1>1, <1>3, UCS4Tells
  <2> HIDE DEF c, u, p
  <2>3. p.type = "str" /\ p.chars = c
    BY <2>1 DEF NewPyStr, PyStr
  <2>4. Text(p) = u
    BY <2>2, <2>3 DEF Text, TextOf
  <2>5. OwnPy(p)
    BY <2>1, <2>2, <2>3 DEF OwnPy
  <2> QED BY <2>3, <2>4, <2>5 DEF p, u
<1>4. CASE /\ ~(s.wide /\ HasSurrogates(u) /\ WellFormed(u))
           /\ ~HasSurrogates(u) /\ version >= (IF s.wide THEN 13 ELSE 12)
  <2>1. p = NewPyStr(u)
    BY <1>2, <1>4 DEF proxifyString
  <2>2. p.type = "str" /\ p.chars = u
    BY <2>1 DEF NewPyStr, PyStr
  <2>3. Text(p) = u
    BY <1>1, <2>2 DEF Text, TextOf
  <2>4. OwnPy(p)
    BY <1>1, <1>4, <2>1, <2>2 DEF OwnPy
  <2> QED BY <2>2, <2>3, <2>4
<1>5. CASE /\ ~(s.wide /\ HasSurrogates(u) /\ WellFormed(u))
           /\ ~(~HasSurrogates(u) /\ version >= (IF s.wide THEN 13 ELSE 12))
  <2>1. p = PyStr(IF s.wide THEN 2 ELSE 1, u, s)
    BY <1>2, <1>5 DEF proxifyString
  <2>2. p.type = "str" /\ p.chars = u /\ p.of = s
    BY <2>1 DEF PyStr
  <2>3. Text(p) = u
    BY <1>1, <2>2 DEF Text, TextOf
  <2>4. IF HasSurrogates(u) THEN ~WellFormed(u) ELSE version < (IF s.wide THEN 13 ELSE 12)
    <3>1. CASE HasSurrogates(u)
      <4>1. SmallestKind(u) # 1
        BY <1>1, <3>1, KindsOf
      <4>2. s.wide
        BY <4>1 DEF OwnJs
      <4> QED BY <1>5, <3>1, <4>2
    <3>2. CASE ~HasSurrogates(u)
      <4>1. ~(version >= (IF s.wide THEN 13 ELSE 12))
        BY <1>5, <3>2
      <4>2. version \in Nat
        BY ConversionsAssumption
      <4> QED BY <3>2, <4>1, <4>2
    <3> QED BY <3>1, <3>2
  <2>5. ShowsJs(p)
    BY <2>1, <2>2, <2>4 DEF ShowsJs
  <2> QED BY <2>2, <2>3, <2>5
<1> QED BY <1>3, <1>4, <1>5

\* A string from Python, shown or encoded, keeps its text.
LEMMA CrossToJavaScript ==
    ASSUME NEW p, OwnPy(p), p.kind = 4 => ~HasSurrogates(p.chars)
    PROVE  /\ StrToJs(p).type = "string" /\ StrToJs(p).units = Text(p)
           /\ OwnJs(StrToJs(p)) \/ ShowsPy(StrToJs(p))
<1> DEFINE s == StrToJs(p)
           c == p.chars
<1>1. p.type = "str" /\ p.of = Own /\ p.kind = SmallestKind(c) /\ c \in Seq(Characters)
  <2>1. p = PyStr(SmallestKind(c), c, Own)
    BY DEF OwnPy, NewPyStr
  <2> HIDE DEF c
  <2>2. p.type = "str" /\ p.of = Own /\ p.kind = SmallestKind(c)
    BY <2>1 DEF PyStr
  <2> QED BY <2>2 DEF OwnPy, c
<1>2. Text(p) = TextOf(c)
  BY <1>1 DEF Text, TextOf
<1>3. CASE p.kind = 4
  <2>1. s = JSStr(TRUE, UCS4ToUTF16(c), Own)
    BY <1>1, <1>3 DEF StrToJs
  <2>2. UCS4ToUTF16(c) = TextOf(c)
    BY <1>1, <1>3, UTF16IsText
  <2>3. TextOf(c) \in Seq(Units)
    BY <1>1, TextUnits
  <2> DEFINE t == TextOf(c)
  <2>4. s = JSStr(TRUE, t, Own)
    BY <2>1, <2>2
  <2> HIDE DEF s, c, t
  <2>5. s.type = "string" /\ s.units = t /\ s.wide = TRUE
    BY <2>4 DEF JSStr
  <2>6. OwnJs(s)
    BY <2>3, <2>4, <2>5 DEF OwnJs, t
  <2> QED BY <1>2, <2>5, <2>6 DEF t, s
<1>4. CASE p.kind # 4
  <2>1. s = JSStr(p.kind = 2, c, p)
    BY <1>1, <1>4 DEF StrToJs
  <2>2. c \in Seq(Units)
    BY <1>1, <1>4, KindsOf
  <2>3. TextOf(c) = c
    BY <2>2, UnitsAreText
  <2> HIDE DEF s
  <2>4. s.type = "string" /\ s.units = c /\ s.of = p
    BY <2>1 DEF JSStr
  <2>5. ShowsPy(s)
    BY <1>4, <2>1, <2>4 DEF ShowsPy
  <2> QED BY <1>2, <2>3, <2>4, <2>5 DEF s
<1> QED BY <1>3, <1>4

LEMMA StringsStart == Init => StringOK
<1> SUFFICES ASSUME Init PROVE version \in PyVersions /\ Text(value) = Text(origin) /\
                                 (value.type \in {"str", "string"} => StringIs(value))
  BY DEF StringOK
<1>1. value = origin /\ version \in PyVersions /\ MaxLength \in Nat
  BY ConversionsAssumption DEF Init
<1>2. CASE value \in {NewPyStr(c) : c \in BoundedSeq(Characters, MaxLength)}
  <2>1. PICK c \in BoundedSeq(Characters, MaxLength) : value = NewPyStr(c)
    BY <1>2
  <2>2. c \in Seq(Characters)
    BY <1>1, BoundedIsSeq
  <2>3. value.type = "str" /\ value.chars = c
    BY <2>1 DEF NewPyStr, PyStr
  <2>4. OwnPy(value)
    BY <1>1, <2>1, <2>2, <2>3 DEF OwnPy
  <2> QED BY <1>1, <2>3, <2>4 DEF StringIs
<1>3. CASE value \in {s \in JSStrings : s.wide \/ SmallestKind(s.units) = 1}
  <2>1. PICK w \in BOOLEAN, u \in BoundedSeq(0..(BMP_END - 1), MaxLength) : value = JSStr(w, u, Own)
    BY <1>3 DEF JSStrings
  <2>2. u \in Seq(Units)
    BY <1>1, BoundedIsSeq DEF Units
  <2>3. value.type = "string" /\ value.units = u /\ value.wide = w
    BY <2>1 DEF JSStr
  <2>4. OwnJs(value)
    BY <1>3, <2>1, <2>2, <2>3 DEF OwnJs
  <2> QED BY <1>1, <2>3, <2>4 DEF StringIs
<1>4. CASE value \in [type : {"int"}, big : BOOLEAN, n : -MaxInt..MaxInt]
               \cup [type : {"callable"}, sig : Signatures]
  <2>1. value.type \in {"int", "callable"}
    BY <1>4
  <2> QED BY <1>1, <2>1
<1>5. CASE \E s, d : value = BigInt(s, d)
  <2>1. value.type = "bigint"
    BY <1>5 DEF BigInt
  <2> QED BY <1>1, <2>1
<1> QED BY <1>2, <1>3, <1>4, <1>5 DEF Init, PyValues, JSValues

\* A string that has crossed, or that the program has rebuilt, has the text it had.
LEMMA StringsCross == ValueOK /\ CallOK /\ StringOK /\ [Next]_vars => StringOK'
<1> SUFFICES ASSUME ValueOK, CallOK, StringOK, [Next]_vars PROVE StringOK'
  OBVIOUS
<1>1. origin' = origin /\ version' = version /\ version' \in PyVersions
  BY DEF Next, vars, jsTypeFactory, pyTypeFactory, Rebuild, Call, StringOK
<1>2. Mangled' <=> Mangled
  BY <1>1 DEF Mangled
<1> SUFFICES ASSUME ~Mangled, value'.type \in {"str", "string"}
             PROVE  Text(value') = Text(origin) /\ StringIs(value')
  <2>1. StringIs(value)' <=> StringIs(value')
    BY <1>1 DEF StringIs, OwnPy, OwnJs, ShowsJs, ShowsPy
  <2>2. Text(value)' = Text(value') /\ Text(origin)' = Text(origin)
    BY <1>1 DEF Text
  <2> QED BY <1>1, <1>2, <2>1, <2>2 DEF StringOK
<1>3. CASE jsTypeFactory /\ value.type = "str"
  <2>1. value' = StrToJs(value) /\ Text(value) = Text(origin) /\ (OwnPy(value) \/ ShowsJs(value))
    BY <1>3 DEF jsTypeFactory, StringOK, StringIs
  <2>2. CASE OwnPy(value)
    <3>1. value.kind = 4 => ~HasSurrogates(value.chars)
      BY <1>3, <2>2 DEF OwnPy, Mangled, HasSurrogates
    <3>2. /\ value'.type = "string" /\ value'.units = Text(value)
          /\ OwnJs(value') \/ ShowsPy(value')
      BY <2>1, <2>2, <3>1, CrossToJavaScript
    <3>3. Text(value') = value'.units
      BY <3>2 DEF Text
    <3> QED BY <2>1, <3>2, <3>3 DEF StringIs
  <2>3. CASE ShowsJs(value)
    <3>1. OwnJs(value.of) /\ value.chars = value.of.units
      BY <2>3 DEF ShowsJs, PyStr
    <3>2. value.of.type = "string" /\ value.of.units \in Seq(Units)
      BY <3>1 DEF OwnJs, JSStr
    <3>3. value' = value.of
      <4>1. Own.type = "own"
        BY DEF Own
      <4>2. value.of # Own
        BY <3>2, <4>1
      <4> QED BY <2>1, <4>2 DEF StrToJs
    <3>4. Text(value) = value.of.units
      BY <1>3, <3>1, <3>2, UnitsAreText DEF Text, TextOf
    <3>5. Text(value') = value'.units
      BY <3>2, <3>3 DEF Text
    <3> QED BY <2>1, <3>1, <3>2, <3>3, <3>4, <3>5 DEF StringIs
  <2> QED BY <2>1, <2>2, <2>3
<1>4. CASE pyTypeFactory /\ value.type = "string"
  <2>1. value' = StrToPy(value) /\ Text(value) = Text(origin) /\ (OwnJs(value) \/ ShowsPy(value))
    BY <1>4 DEF pyTypeFactory, StringOK, StringIs
  <2>2. Text(value) = value.units
    BY <1>4 DEF Text
  <2>3. CASE OwnJs(value)
    <3>1. value.of = Own
      BY <2>3 DEF OwnJs, JSStr
    <3>2. value' = proxifyString(value)
      BY <2>1, <3>1 DEF StrToPy
    <3>3. /\ value'.type = "str" /\ Text(value') = value.units
          /\ OwnPy(value') \/ ShowsJs(value')
      BY <1>1, <2>3, <3>2, CrossToPython
    <3> QED BY <2>1, <2>2, <3>3 DEF StringIs
  <2>4. CASE ShowsPy(value)
    <3>1. OwnPy(value.of) /\ value.units = value.of.chars
      BY <2>4 DEF ShowsPy, JSStr
    <3>2. /\ value.of.type = "str" /\ value.of.kind = SmallestKind(value.of.chars)
          /\ value.of.chars \in Seq(Characters)
      BY <3>1 DEF OwnPy, NewPyStr, PyStr
    <3>3. value' = value.of
      <4>1. Own.type = "own"
        BY DEF Own
      <4>2. value.of # Own
        BY <3>2, <4>1
      <4> QED BY <2>1, <4>2 DEF StrToPy
    <3>4. value.of.chars \in Seq(Units)
      BY <2>4, <3>2, KindsOf DEF ShowsPy
    <3>5. Text(value') = value.of.chars
      BY <3>2, <3>3, <3>4, UnitsAreText DEF Text, TextOf
    <3> QED BY <2>1, <2>2, <3>1, <3>2, <3>3, <3>5 DEF StringIs
  <2> QED BY <2>1, <2>3, <2>4
<1>5. CASE Rebuild
  <2>1. PICK w \in BOOLEAN : (w \/ SmallestKind(value.units) = 1) /\ value' = JSStr(w, value.units, Own)
    BY <1>5 DEF Rebuild
  <2>2. value.type = "string" /\ Text(value) = Text(origin) /\ (OwnJs(value) \/ ShowsPy(value))
    BY <1>5 DEF Rebuild, StringOK, StringIs
  <2>3. value'.type = "string" /\ value'.units = value.units /\ value'.wide = w
    BY <2>1 DEF JSStr
  <2>4. Text(value) = value.units /\ Text(value') = value'.units
    BY <2>2, <2>3 DEF Text
  <2>5. value.units \in Seq(Units)
    <3>1. CASE OwnJs(value)
      BY <3>1 DEF OwnJs
    <3>2. CASE ShowsPy(value)
      <4>1. OwnPy(value.of) /\ value.units = value.of.chars /\ value.of.kind # 4
        BY <3>2 DEF ShowsPy, JSStr
      <4>2. value.of.kind = SmallestKind(value.of.chars) /\ value.of.chars \in Seq(Characters)
        BY <4>1 DEF OwnPy, NewPyStr, PyStr
      <4> QED BY <4>1, <4>2, KindsOf
    <3> QED BY <2>2, <3>1, <3>2
  <2>6. OwnJs(value')
    BY <2>1, <2>3, <2>5 DEF OwnJs
  <2> QED BY <2>2, <2>3, <2>4, <2>6 DEF StringIs
<1>6. CASE UNCHANGED value
  BY <1>6 DEF StringOK
<1>7. ASSUME jsTypeFactory, value.type # "str" PROVE FALSE
  <2>1. value.type \in {"int", "float", "callable"}
    BY <1>7 DEF jsTypeFactory, ValueOK
  <2>2. value'.type \in {"bigint", "number", "OverflowError", "function"}
    BY <1>7, <2>1 DEF jsTypeFactory, IntToJs, toJsBigInt, BigInt
  <2> QED BY <2>2
<1>8. ASSUME pyTypeFactory, value.type # "string" PROVE FALSE
  <2>1. value.type \in {"bigint", "number", "function"}
    BY <1>8 DEF pyTypeFactory, ValueOK
  <2>2. value'.type \in {"int", "float", "callable"}
    BY <1>8, <2>1 DEF pyTypeFactory, BigIntToPy
  <2> QED BY <2>2
<1>9. jsTypeFactory \/ pyTypeFactory \/ Rebuild \/ UNCHANGED value
  BY DEF Next, vars, Call
<1> QED BY <1>3, <1>4, <1>5, <1>6, <1>7, <1>8, <1>9

\* However often a string crosses and is rebuilt, and whichever side shows the buffer of
\* the other, its text stays, and Python gets the smallest kind and no surrogate pairs.
THEOREM StringsCrossExactly == Spec => []StringsKeepTheirText
<1>1. StringOK => StringsKeepTheirText
  <2> SUFFICES ASSUME StringOK, value.type \in {"str", "string"}, ~Mangled, value.type = "str"
               PROVE  /\ value.kind = SmallestKind(value.chars) \/ Uneven
                      /\ HasSurrogates(value.chars) => ~WellFormed(Text(value)) \/ value = origin
    BY DEF StringOK, StringsKeepTheirText, HasSurrogates
  <2>1. version \in PyVersions /\ (OwnPy(value) \/ ShowsJs(value))
    BY DEF StringOK, StringIs
  <2>2. CASE OwnPy(value)
    <3>1. value.kind = SmallestKind(value.chars)
      BY <2>2 DEF OwnPy, NewPyStr, PyStr
    <3>2. HasSurrogates(value.chars) => value = origin
      BY <2>2 DEF OwnPy
    <3> QED BY <3>1, <3>2
  <2>3. CASE ShowsJs(value)
    <3> DEFINE u == value.of.units
               wide == value.of.wide
    <3>1. value.kind = (IF wide THEN 2 ELSE 1) /\ value.chars = u
      BY <2>3 DEF ShowsJs, PyStr
    <3>2. u \in Seq(Units) /\ (wide \/ SmallestKind(u) = 1)
      BY <2>3 DEF ShowsJs, OwnJs
    <3>3. IF HasSurrogates(u) THEN ~WellFormed(u) ELSE version < (IF wide THEN 13 ELSE 12)
      BY <2>3 DEF ShowsJs
    <3>4. TextOf(u) = u /\ u \in Seq(Characters)
      BY <3>2, UnitsAreText
    <3> HIDE DEF u, wide
    <3>5. Text(value) = u
      BY <3>1, <3>4 DEF Text, TextOf
    <3>6. SmallestKind(u) \in {1, 2} /\ (SmallestKind(u) = 1 => ~HasSurrogates(u))
      BY <3>2, <3>4, KindsOf
    <3>7. value.kind = SmallestKind(u) \/ (wide /\ value.kind = 2 /\ SmallestKind(u) = 1)
      BY <3>1, <3>2, <3>6
    <3>8. wide /\ SmallestKind(u) = 1 => version < 13
      BY <3>3, <3>6
    <3> QED BY <3>1, <3>3, <3>5, <3>7, <3>8 DEF Uneven
  <2> QED BY <2>1, <2>2, <2>3
<1> QED BY <1>1, StringsStart, StringsCross, ValuesOK, PTL DEF Spec

-----------------------------------------------------------------------------
(* A JavaScript object as a dict (ObjectProxy).  First the body of a loop of *)
(* an operation, done once for each k in 1..n: where it leads, and that a    *)
(* claim about each turn holds at the end if the body keeps it.              *)

\* Step k leads from D[k - 1] into D[k].
Leads(n, D, G) == \A k \in 1..n : \A g \in D[k - 1] : G[k][g] \in D[k]
\* f goes from h by the steps.
Path(f, n, h, G) == f = [k \in 0..n |-> IF k = 0 THEN h ELSE G[k][f[k - 1]]]
Stays(f, n, D) == \A k \in 0..n : f[k] \in D[k]

LEMMA LoopExists ==
    ASSUME NEW n \in Nat, NEW h, NEW D, NEW G, h \in D[0], Leads(n, D, G)
    PROVE  \E f : Path(f, n, h, G) /\ Stays(f, n, D)
<1> DEFINE Course(f, m) == /\ f = [k \in 0..m |-> IF k = 0 THEN h ELSE G[k][f[k - 1]]]
                           /\ \A k \in 0..m : f[k] \in D[k]
           T == {m \in Nat : m <= n => \E f : Course(f, m)}
<1>1. 0 \in T
  <2> DEFINE f == [k \in 0..0 |-> h]
  <2>1. f = [k \in 0..0 |-> IF k = 0 THEN h ELSE G[k][f[k - 1]]]
    OBVIOUS
  <2>2. \A k \in 0..0 : f[k] \in D[k]
    OBVIOUS
  <2> QED BY <2>1, <2>2
<1>2. ASSUME NEW m \in Nat, m \in T PROVE m + 1 \in T
  <2> SUFFICES ASSUME m + 1 <= n
               PROVE  \E f : Course(f, m + 1)
    OBVIOUS
  <2>1. PICK f : Course(f, m)
    BY <1>2
  <2> DEFINE g == [k \in 0..(m + 1) |-> IF k <= m THEN f[k] ELSE G[m + 1][f[m]]]
  <2>2. g = [k \in 0..(m + 1) |-> IF k = 0 THEN h ELSE G[k][g[k - 1]]]
    <3>1. f[0] = h /\ \A k \in 1..m : f[k] = G[k][f[k - 1]]
      BY <2>1
    <3>2. /\ g = [k \in 0..(m + 1) |-> g[k]]
          /\ \A k \in 0..m : g[k] = f[k]
          /\ g[m + 1] = G[m + 1][f[m]]
      OBVIOUS
    <3> HIDE DEF g
    <3>3. ASSUME NEW k \in 0..(m + 1) PROVE g[k] = IF k = 0 THEN h ELSE G[k][g[k - 1]]
      <4>1. CASE k = 0
        <5>1. k \in 0..m /\ f[k] = h
          BY <3>1, <4>1
        <5>2. g[k] = h
          BY <3>2, <5>1
        <5> QED BY <4>1, <5>2
      <4>2. CASE k \in 1..m
        <5>1. k \in 0..m /\ k - 1 \in 0..m /\ k # 0
          BY <4>2
        <5> QED BY <3>1, <3>2, <4>2, <5>1
      <4>3. CASE k = m + 1
        <5>1. k # 0 /\ k - 1 = m /\ m \in 0..m
          BY <4>3
        <5>2. g[m] = f[m]
          BY <3>2, <5>1
        <5> QED BY <3>2, <4>3, <5>1, <5>2
      <4> QED BY <4>1, <4>2, <4>3
    <3> QED BY <3>2, <3>3
  <2>3. \A k \in 0..(m + 1) : g[k] \in D[k]
    <3>1. m + 1 \in 1..n /\ f[m] \in D[(m + 1) - 1]
      BY <2>1
    <3>2. G[m + 1][f[m]] \in D[m + 1]
      BY <3>1 DEF Leads
    <3> QED BY <2>1, <3>2
  <2>4. Course(g, m + 1)
    BY <2>2, <2>3
  <2> HIDE DEF g, Course
  <2> QED BY <2>4
<1>3. n \in T
  <2> HIDE DEF T
  <2> QED BY <1>1, <1>2, NatInd
<1> QED BY <1>3 DEF Path, Stays

\* The least and the greatest of some places.
LEMMA MinFacts ==
    ASSUME NEW T, T \subseteq Nat, T # {}
    PROVE  Min(T) \in T /\ \A y \in T : Min(T) <= y
<1>1. \E x \in T : \A y \in T : x <= y
  BY LeastNat
<1> QED BY <1>1 DEF Min

LEMMA MaxFacts ==
    ASSUME NEW n \in Nat, NEW T, T \subseteq 0..n, T # {}
    PROVE  Max(T) \in T /\ \A y \in T : y <= Max(T)
<1> DEFINE U == {n - x : x \in T}
<1>1. U \subseteq Nat /\ U # {}
  OBVIOUS
<1>2. PICK u \in U : \A y \in U : u <= y
  <2> HIDE DEF U
  <2> QED BY <1>1, LeastNat
<1>3. PICK x \in T : u = n - x
  OBVIOUS
<1>4. ASSUME NEW y \in T PROVE y <= x
  <2>1. n - y \in U
    OBVIOUS
  <2>2. n - x <= n - y /\ x \in Int /\ y \in Int
    BY <1>2, <1>3, <2>1
  <2> QED BY <2>2
<1>5. \E z \in T : \A y \in T : y <= z
  BY <1>4
<1> QED BY <1>5 DEF Max
\* Properties <<name, value>>, in any order and number, and those of an object.
PropPairs == Names \X (Values \cup {None})
PropSeqs == Seq(PropPairs)
OneEach(o) == \A i, j \in 1..Len(o) : o[i][1] = o[j][1] => i = j
IsMap(f) == f = [k \in DOMAIN f |-> f[k]]
OwnProps == {o \in PropSeqs : OneEach(o)}

LEMMA PropFacts ==
    ASSUME NEW ps \in PropSeqs
    PROVE  /\ Len(ps) \in Nat /\ DOMAIN ps = 1..Len(ps) /\ ps = [i \in 1..Len(ps) |-> ps[i]]
           /\ \A i \in 1..Len(ps) : /\ ps[i] \in PropPairs /\ ps[i][1] \in Names
                                    /\ ps[i][2] \in Values \cup {None}
                                    /\ ps[i] = <<ps[i][1], ps[i][2]>>
<1>1. Len(ps) \in Nat /\ DOMAIN ps = 1..Len(ps) /\ ps = [i \in 1..Len(ps) |-> ps[i]]
  BY SeqOfParts, SeqIsFunction DEF PropSeqs
<1>2. ASSUME NEW i \in 1..Len(ps)
      PROVE  /\ ps[i] \in PropPairs /\ ps[i][1] \in Names /\ ps[i][2] \in Values \cup {None}
             /\ ps[i] = <<ps[i][1], ps[i][2]>>
  <2>1. ps[i] \in PropPairs
    BY SeqOfParts DEF PropSeqs
  <2> QED BY <2>1 DEF PropPairs
<1> QED BY <1>1, <1>2

\* The places of a key.
LEMMA PlaceFacts ==
    ASSUME NEW ps \in PropSeqs, NEW k
    PROVE  /\ \A i : i \in PlaceOf(ps, k) <=> i \in 1..Len(ps) /\ ps[i][1] = k
           /\ PlaceOf(ps, k) # {} => /\ Min(PlaceOf(ps, k)) \in PlaceOf(ps, k)
                                     /\ Max(PlaceOf(ps, k)) \in PlaceOf(ps, k)
                                     /\ \A i \in PlaceOf(ps, k) : i <= Max(PlaceOf(ps, k))
<1> DEFINE P == PlaceOf(ps, k)
<1>0. Len(ps) \in Nat /\ DOMAIN ps = 1..Len(ps)
  BY PropFacts
<1>1. \A i : i \in P <=> i \in 1..Len(ps) /\ ps[i][1] = k
  BY <1>0 DEF PlaceOf
<1>2. P \subseteq Nat /\ P \subseteq 0..Len(ps)
  BY <1>0, <1>1
<1> HIDE DEF P
<1>3. P # {} => Min(P) \in P /\ Max(P) \in P /\ \A i \in P : i <= Max(P)
  BY <1>0, <1>2, MinFacts, MaxFacts
<1> QED BY <1>1, <1>3 DEF P

\* What Mapping gives of any sequence of properties: the last of each key.
LEMMA MappingFacts ==
    ASSUME NEW ps \in PropSeqs
    PROVE  /\ \A k : k \in DOMAIN Mapping(ps) <=> PlaceOf(ps, k) # {}
           /\ \A k \in DOMAIN Mapping(ps) : Mapping(ps)[k] = ps[Max(PlaceOf(ps, k))][2]
           /\ IsMap(Mapping(ps))
<1> DEFINE K == {ps[i][1] : i \in DOMAIN ps}
<1>1. Mapping(ps) = [k \in K |-> ps[Max(PlaceOf(ps, k))][2]]
  BY DEF Mapping, PlaceOf
<1>2. \A k : k \in K <=> PlaceOf(ps, k) # {}
  BY DEF PlaceOf
<1> HIDE DEF K
<1> QED BY <1>1, <1>2 DEF IsMap

\* An object: each key has one place.
LEMMA OwnFacts ==
    ASSUME NEW o \in OwnProps
    PROVE  /\ o \in PropSeqs
           /\ \A k : PlaceOf(o, k) # {} => /\ Min(PlaceOf(o, k)) \in 1..Len(o)
                                           /\ PlaceOf(o, k) = {Min(PlaceOf(o, k))}
                                           /\ Max(PlaceOf(o, k)) = Min(PlaceOf(o, k))
                                           /\ o[Min(PlaceOf(o, k))][1] = k
           /\ \A i \in 1..Len(o) : /\ PlaceOf(o, o[i][1]) = {i} /\ Min(PlaceOf(o, o[i][1])) = i
                                   /\ o[i][1] \in DOMAIN Mapping(o)
                                   /\ Mapping(o)[o[i][1]] = o[i][2]
           /\ \A k \in DOMAIN Mapping(o) : /\ OwnProperty(o, k) = Mapping(o)[k] /\ k \in Names
                                           /\ Mapping(o)[k] \in Values \cup {None}
                                           /\ \E i \in 1..Len(o) : o[i][1] = k
           /\ \A k : k \notin DOMAIN Mapping(o) => OwnProperty(o, k) = None
<1>0. o \in PropSeqs /\ \A i, j \in 1..Len(o) : o[i][1] = o[j][1] => i = j
  BY DEF OwnProps, OneEach
<1>1. ASSUME NEW k, NEW i \in PlaceOf(o, k)
      PROVE  /\ i \in 1..Len(o) /\ o[i][1] = k
             /\ PlaceOf(o, k) = {i} /\ Min(PlaceOf(o, k)) = i /\ Max(PlaceOf(o, k)) = i
  <2>1. \A j : j \in PlaceOf(o, k) <=> j \in 1..Len(o) /\ o[j][1] = k
    BY <1>0, PlaceFacts
  <2>2. PlaceOf(o, k) = {i}
    BY <1>0, <2>1
  <2>3. Min(PlaceOf(o, k)) \in PlaceOf(o, k) /\ Max(PlaceOf(o, k)) \in PlaceOf(o, k)
    BY <1>0, <2>2, PlaceFacts
  <2> QED BY <2>1, <2>2, <2>3
<1>2. ASSUME NEW k, PlaceOf(o, k) # {}
      PROVE  /\ Min(PlaceOf(o, k)) \in 1..Len(o) /\ PlaceOf(o, k) = {Min(PlaceOf(o, k))}
             /\ Max(PlaceOf(o, k)) = Min(PlaceOf(o, k)) /\ o[Min(PlaceOf(o, k))][1] = k
  BY <1>1, <1>2
<1>3. ASSUME NEW i \in 1..Len(o)
      PROVE  /\ PlaceOf(o, o[i][1]) = {i} /\ Min(PlaceOf(o, o[i][1])) = i
             /\ o[i][1] \in DOMAIN Mapping(o) /\ Mapping(o)[o[i][1]] = o[i][2]
  <2> DEFINE k == o[i][1]
  <2>1. i \in PlaceOf(o, k)
    BY <1>0, PlaceFacts
  <2> HIDE DEF k
  <2>2. PlaceOf(o, k) = {i} /\ Min(PlaceOf(o, k)) = i /\ Max(PlaceOf(o, k)) = i
    BY <1>1, <2>1
  <2>3. k \in DOMAIN Mapping(o) /\ Mapping(o)[k] = o[Max(PlaceOf(o, k))][2]
    BY <1>0, <2>1, MappingFacts
  <2> QED BY <2>2, <2>3 DEF k
<1>4. ASSUME NEW k \in DOMAIN Mapping(o)
      PROVE  /\ OwnProperty(o, k) = Mapping(o)[k] /\ k \in Names
             /\ Mapping(o)[k] \in Values \cup {None} /\ \E i \in 1..Len(o) : o[i][1] = k
  <2>1. PlaceOf(o, k) # {} /\ Mapping(o)[k] = o[Max(PlaceOf(o, k))][2]
    BY <1>0, MappingFacts
  <2>2. OwnProperty(o, k) = o[Min(PlaceOf(o, k))][2]
    BY <2>1 DEF OwnProperty
  <2>3. Min(PlaceOf(o, k)) \in 1..Len(o) /\ o[Min(PlaceOf(o, k))][1] = k
        /\ Max(PlaceOf(o, k)) = Min(PlaceOf(o, k))
    BY <1>2, <2>1
  <2> QED BY <1>0, <2>1, <2>2, <2>3, PropFacts
<1>5. ASSUME NEW k, k \notin DOMAIN Mapping(o) PROVE OwnProperty(o, k) = None
  BY <1>0, <1>5, MappingFacts DEF OwnProperty
<1> QED BY <1>0, <1>2, <1>3, <1>4, <1>5

\* Two functions of one domain that agree everywhere.
LEMMA SameFunction ==
    ASSUME NEW d, NEW e, IsMap(d), IsMap(e),
           DOMAIN d = DOMAIN e, \A k \in DOMAIN d : d[k] = e[k]
    PROVE  d = e
  BY DEF IsMap

LEMMA OverlayFacts ==
    ASSUME NEW d, NEW e
    PROVE  /\ DOMAIN Overlay(d, e) = DOMAIN d \cup DOMAIN e
           /\ \A k \in DOMAIN e : Overlay(d, e)[k] = e[k]
           /\ \A k \in DOMAIN d : k \notin DOMAIN e => Overlay(d, e)[k] = d[k]
           /\ IsMap(Overlay(d, e))
  BY DEF Overlay, IsMap

LEMMA WithFacts ==
    ASSUME NEW d, NEW k, NEW v
    PROVE  /\ \A x : x \in DOMAIN With(d, k, v) <=> x \in DOMAIN d \/ x = k
           /\ With(d, k, v)[k] = v
           /\ \A x \in DOMAIN d : x # k => With(d, k, v)[x] = d[x]
           /\ IsMap(With(d, k, v))
  BY DEF With, Overlay, IsMap

LEMMA WithoutFacts ==
    ASSUME NEW d, NEW k
    PROVE  /\ \A x : x \in DOMAIN Without(d, k) <=> x \in DOMAIN d /\ x # k
           /\ \A x \in DOMAIN d : x # k => Without(d, k)[x] = d[x]
           /\ IsMap(Without(d, k))
  BY DEF Without, IsMap

\* One more pair over a mapping.
LEMMA OverlayWith ==
    ASSUME NEW d, NEW e, NEW k, NEW v
    PROVE  Overlay(d, With(e, k, v)) = With(Overlay(d, e), k, v)
<1> DEFINE a == Overlay(d, With(e, k, v))
           b == With(Overlay(d, e), k, v)
           w == With(e, k, v)
           o == Overlay(d, e)
<1>1. /\ (\A x : x \in DOMAIN w <=> x \in DOMAIN e \/ x = k) /\ w[k] = v /\ \A x \in DOMAIN e : x # k => w[x] = e[x]
  BY WithFacts
<1>2. /\ DOMAIN o = DOMAIN d \cup DOMAIN e /\ \A x \in DOMAIN e : o[x] = e[x]
      /\ \A x \in DOMAIN d : x \notin DOMAIN e => o[x] = d[x]
  BY OverlayFacts
<1> HIDE DEF w, o
<1>3. /\ DOMAIN a = DOMAIN d \cup DOMAIN w /\ (\A x \in DOMAIN w : a[x] = w[x])
      /\ (\A x \in DOMAIN d : x \notin DOMAIN w => a[x] = d[x]) /\ IsMap(a)
  BY OverlayFacts DEF w
<1>4. /\ (\A x : x \in DOMAIN b <=> x \in DOMAIN o \/ x = k) /\ b[k] = v /\ (\A x \in DOMAIN o : x # k => b[x] = o[x])
      /\ IsMap(b)
  BY WithFacts DEF o
<1> HIDE DEF a, b
<1>5. DOMAIN a = DOMAIN b
  BY <1>1, <1>2, <1>3, <1>4
<1>6. \A x \in DOMAIN a : a[x] = b[x]
  BY <1>1, <1>2, <1>3, <1>4, <1>5
<1>7. a = b
  BY <1>3, <1>4, <1>5, <1>6, SameFunction
<1> QED BY <1>7 DEF a, b

LEMMA EmptyMapping ==
    /\ <<>> \in PropSeqs /\ <<>> \in OwnProps /\ DOMAIN Mapping(<<>>) = {}
    /\ \A d : IsMap(d) => Overlay(d, Mapping(<<>>)) = d
    /\ \A d : IsMap(d) => Overlay(Mapping(<<>>), d) = d
<1>1. <<>> \in PropSeqs /\ Len(<<>>) = 0
  BY EmptySeq DEF PropSeqs
<1>2. \A k : PlaceOf(<<>>, k) = {}
  BY <1>1, PlaceFacts
<1>3. DOMAIN Mapping(<<>>) = {}
  BY <1>1, <1>2, MappingFacts
<1>4. <<>> \in OwnProps
  BY <1>1 DEF OwnProps, OneEach
<1>5. ASSUME NEW d, IsMap(d)
      PROVE  Overlay(d, Mapping(<<>>)) = d /\ Overlay(Mapping(<<>>), d) = d
  <2> DEFINE e == Mapping(<<>>)
             a == Overlay(d, e)
             b == Overlay(e, d)
  <2>1. DOMAIN e = {}
    BY <1>3
  <2> HIDE DEF e
  <2>a. /\ DOMAIN a = DOMAIN d \cup DOMAIN e
        /\ \A x \in DOMAIN d : x \notin DOMAIN e => a[x] = d[x]
        /\ IsMap(a)
    BY OverlayFacts, Zenon
  <2>b. /\ DOMAIN b = DOMAIN e \cup DOMAIN d
        /\ \A x \in DOMAIN d : b[x] = d[x]
        /\ IsMap(b)
    BY OverlayFacts, Zenon
  <2> HIDE DEF a, b
  <2>2. DOMAIN a = DOMAIN d /\ (\A x \in DOMAIN d : a[x] = d[x]) /\ IsMap(a)
    BY <2>1, <2>a
  <2>3. DOMAIN b = DOMAIN d /\ (\A x \in DOMAIN d : b[x] = d[x]) /\ IsMap(b)
    BY <2>1, <2>b
  <2>4. a = d /\ b = d
    BY <1>5, <2>2, <2>3, SameFunction
  <2> QED BY <2>4 DEF a, b, e
<1> QED BY <1>1, <1>3, <1>4, <1>5

LEMMA MappingAppend ==
    ASSUME NEW ps \in PropSeqs, NEW p \in PropPairs
    PROVE  /\ Append(ps, p) \in PropSeqs
           /\ Mapping(Append(ps, p)) = With(Mapping(ps), p[1], p[2])
<1> DEFINE t == Append(ps, p)
           n == Len(ps)
           d == Mapping(ps)
           w == With(d, p[1], p[2])
           m == Mapping(t)
<1>1. /\ t \in PropSeqs /\ Len(t) = n + 1 /\ t[n + 1] = p /\ \A i \in 1..n : t[i] = ps[i]
  BY AppendProperties DEF PropSeqs
<1>2. n \in Nat
  BY PropFacts
<1>3. \A k, i : i \in PlaceOf(ps, k) <=> i \in 1..n /\ ps[i][1] = k
  BY PlaceFacts
<1>4. \A k, i : i \in PlaceOf(t, k) <=> i \in 1..(n + 1) /\ t[i][1] = k
  BY <1>1, PlaceFacts
<1>5. /\ (\A k : k \in DOMAIN d <=> PlaceOf(ps, k) # {})
      /\ \A k \in DOMAIN d : d[k] = ps[Max(PlaceOf(ps, k))][2]
  BY MappingFacts
<1>6. /\ (\A k : k \in DOMAIN m <=> PlaceOf(t, k) # {})
      /\ (\A k \in DOMAIN m : m[k] = t[Max(PlaceOf(t, k))][2])
      /\ IsMap(m)
  BY <1>1, MappingFacts
<1>7. /\ (\A x : x \in DOMAIN w <=> x \in DOMAIN d \/ x = p[1]) /\ w[p[1]] = p[2]
      /\ (\A x \in DOMAIN d : x # p[1] => w[x] = d[x])
      /\ IsMap(w)
  BY WithFacts
<1>8. \A k : PlaceOf(ps, k) # {} => Max(PlaceOf(ps, k)) \in PlaceOf(ps, k)
  BY PlaceFacts
<1>9. \A k : PlaceOf(t, k) # {} => /\ Max(PlaceOf(t, k)) \in PlaceOf(t, k)
                                  /\ \A i \in PlaceOf(t, k) : i <= Max(PlaceOf(t, k))
  BY <1>1, PlaceFacts
<1> HIDE DEF t, n, d, w, m
<1>10. n + 1 \in PlaceOf(t, p[1])
  BY <1>1, <1>2, <1>4
<1>11. ASSUME NEW k, k # p[1] PROVE PlaceOf(t, k) = PlaceOf(ps, k)
  <2>1. ASSUME NEW i PROVE i \in PlaceOf(t, k) <=> i \in PlaceOf(ps, k)
    <3>1. CASE i = n + 1
      <4>1. t[i][1] = p[1] /\ i \notin 1..n
        BY <1>1, <1>2, <3>1
      <4> QED BY <1>3, <1>4, <1>11, <4>1
    <3>2. CASE i # n + 1
      <4>1. i \in 1..(n + 1) <=> i \in 1..n
        BY <1>2, <3>2
      <4> QED BY <1>1, <1>3, <1>4, <4>1
    <3> QED BY <3>1, <3>2
  <2> QED BY <2>1
<1>12. DOMAIN m = DOMAIN w
  BY <1>5, <1>6, <1>7, <1>10, <1>11
<1>13. ASSUME NEW k \in DOMAIN m PROVE m[k] = w[k]
  <2>1. CASE k = p[1]
    <3>1. Max(PlaceOf(t, k)) \in 1..(n + 1) /\ n + 1 <= Max(PlaceOf(t, k))
      BY <1>4, <1>9, <1>10, <2>1
    <3>2. Max(PlaceOf(t, k)) = n + 1
      BY <1>2, <3>1
    <3> QED BY <1>1, <1>6, <1>7, <2>1, <3>2
  <2>2. CASE k # p[1]
    <3>1. k \in DOMAIN d /\ w[k] = d[k] /\ PlaceOf(t, k) = PlaceOf(ps, k)
      BY <1>7, <1>11, <1>12, <2>2
    <3>2. Max(PlaceOf(ps, k)) \in 1..n
      BY <1>3, <1>5, <1>8, <3>1
    <3> QED BY <1>1, <1>5, <1>6, <3>1, <3>2
  <2> QED BY <2>1, <2>2
<1>14. m = w
  BY <1>6, <1>7, <1>12, <1>13, SameFunction
<1> QED BY <1>1, <1>14 DEF t, m, w, d

LEMMA OwnMapping ==
    ASSUME NEW o \in OwnProps, NEW w, IsMap(w),
           \A x : x \in DOMAIN w <=> \E i \in 1..Len(o) : o[i][1] = x,
           \A i \in 1..Len(o) : w[o[i][1]] = o[i][2]
    PROVE  Mapping(o) = w
<1> DEFINE m == Mapping(o)
<1>1. /\ o \in PropSeqs /\ \A i \in 1..Len(o) : o[i][1] \in DOMAIN m /\ m[o[i][1]] = o[i][2]
      /\ \A x \in DOMAIN m : \E i \in 1..Len(o) : o[i][1] = x
  BY OwnFacts
<1>2. IsMap(m)
  BY <1>1, MappingFacts
<1> HIDE DEF m
<1>3. DOMAIN m = DOMAIN w
  BY <1>1
<1>4. \A x \in DOMAIN m : m[x] = w[x]
  BY <1>1
<1>5. m = w
  BY <1>2, <1>3, <1>4, SameFunction
<1> QED BY <1>5 DEF m

\* The keys of o begin those of q.
Grew(o, q) == Len(o) <= Len(q) /\ \A i \in 1..Len(o) : q[i][1] = o[i][1]
\* The keys of q that are in o are in the order of o, and before the others.
InOrder(o, q) ==
    \A i, j \in 1..Len(q) :
        i < j /\ PlaceOf(o, q[j][1]) # {} =>
            \E p \in PlaceOf(o, q[i][1]), r \in PlaceOf(o, q[j][1]) : p < r

LEMMA GrewInOrder ==
    ASSUME NEW o \in OwnProps, NEW q \in OwnProps, Grew(o, q)
    PROVE  InOrder(o, q)
<1> SUFFICES ASSUME NEW i \in 1..Len(q), NEW j \in 1..Len(q), i < j, PlaceOf(o, q[j][1]) # {}
             PROVE  \E p \in PlaceOf(o, q[i][1]), r \in PlaceOf(o, q[j][1]) : p < r
  BY DEF InOrder
<1>1. Len(o) \in Nat /\ Len(q) \in Nat /\ o \in PropSeqs
  BY PropFacts, OwnFacts
<1>2. PICK r \in 1..Len(o) : r \in PlaceOf(o, q[j][1]) /\ o[r][1] = q[j][1]
  BY <1>1, PlaceFacts
<1>3. r \in 1..Len(q) /\ q[r][1] = q[j][1]
  BY <1>1, <1>2 DEF Grew
<1>4. r = j
  BY <1>3 DEF OwnProps, OneEach
<1>5. i \in 1..Len(o) /\ o[i][1] = q[i][1]
  BY <1>1, <1>2, <1>4 DEF Grew
<1>6. i \in PlaceOf(o, q[i][1])
  BY <1>1, <1>5, PlaceFacts
<1> QED BY <1>2, <1>4, <1>6

LEMMA GrewOn ==
    ASSUME NEW o \in OwnProps, NEW q \in OwnProps, NEW r \in OwnProps
    PROVE  Grew(o, o) /\ (Grew(o, q) /\ Grew(q, r) => Grew(o, r))
<1>1. Len(o) \in Nat /\ Len(q) \in Nat /\ Len(r) \in Nat
  BY PropFacts, OwnFacts
<1> QED BY <1>1 DEF Grew

LEMMA SetFacts ==
    ASSUME NEW o \in OwnProps, NEW k \in Names, NEW v \in Values \cup {None}
    PROVE  /\ SetProperty(o, k, v) \in OwnProps
           /\ Mapping(SetProperty(o, k, v)) = With(Mapping(o), k, v)
           /\ Grew(o, SetProperty(o, k, v))
<1> DEFINE q == SetProperty(o, k, v)
           n == Len(o)
           p == <<k, v>>
           w == With(Mapping(o), k, v)
<1>1. o \in PropSeqs /\ n \in Nat /\ DOMAIN o = 1..n
  BY PropFacts, OwnFacts
<1>2. \A i, j \in 1..n : o[i][1] = o[j][1] => i = j
  BY DEF OwnProps, OneEach
<1>3. p \in PropPairs /\ p[1] = k /\ p[2] = v
  BY DEF PropPairs
<1>4. \A i : i \in PlaceOf(o, k) <=> i \in 1..n /\ o[i][1] = k
  BY <1>1, PlaceFacts
<1>5. CASE PlaceOf(o, k) = {}
  <2>1. q = Append(o, p)
    BY <1>5 DEF SetProperty
  <2> HIDE DEF p, q, w
  <2>2. q \in PropSeqs /\ Mapping(q) = With(Mapping(o), p[1], p[2])
    BY <1>1, <1>3, <2>1, MappingAppend
  <2>3. Len(q) = n + 1 /\ q[n + 1] = p /\ \A i \in 1..n : q[i] = o[i]
    BY <1>1, <1>3, <2>1, AppendProperties DEF PropSeqs
  <2> HIDE DEF n
  <2>4. ASSUME NEW i \in 1..(n + 1), NEW j \in 1..(n + 1), q[i][1] = q[j][1] PROVE i = j
    <3>1. \A m \in 1..n : o[m][1] # k
      BY <1>4, <1>5
    <3>2. CASE i \in 1..n /\ j \in 1..n
      BY <1>2, <2>3, <2>4, <3>2
    <3>3. CASE i = n + 1 /\ j \in 1..n
      BY <1>3, <2>3, <2>4, <3>1, <3>3
    <3>4. CASE i \in 1..n /\ j = n + 1
      BY <1>3, <2>3, <2>4, <3>1, <3>4
    <3> QED BY <1>1, <3>2, <3>3, <3>4
  <2>5. q \in OwnProps
    BY <2>2, <2>3, <2>4 DEF OwnProps, OneEach
  <2>6. Grew(o, q)
    BY <1>1, <2>3 DEF Grew, n
  <2> QED BY <1>3, <2>2, <2>5, <2>6 DEF q
<1>6. CASE PlaceOf(o, k) # {}
  <2> DEFINE m == Min(PlaceOf(o, k))
  <2>1. m \in 1..n /\ o[m][1] = k
    BY <1>6, OwnFacts
  <2>2. q = [o EXCEPT ![m] = p]
    BY <1>6 DEF SetProperty
  <2> HIDE DEF p, q, m, n
  <2>3. q = [i \in 1..n |-> IF i = m THEN p ELSE o[i]]
    BY <1>1, <2>2
  <2>4. q[m] = p /\ \A i \in 1..n : i # m => q[i] = o[i]
    BY <2>1, <2>3
  <2>5. \A i \in 1..n : o[i] \in PropPairs
    BY <1>1, PropFacts DEF n
  <2>6. q \in PropSeqs /\ Len(q) = n
    <3>1. \A i \in 1..n : q[i] \in PropPairs
      BY <1>3, <2>4, <2>5
    <3>2. q = [i \in 1..n |-> q[i]]
      BY <2>3
    <3> HIDE DEF q
    <3> QED BY <1>1, <3>1, <3>2 DEF PropSeqs
  <2>7. \A i \in 1..n : q[i][1] = o[i][1]
    BY <1>3, <2>1, <2>4
  <2>8. q \in OwnProps
    BY <1>2, <2>6, <2>7 DEF OwnProps, OneEach
  <2>9. Grew(o, q)
    BY <1>1, <2>6, <2>7 DEF Grew, n
  <2>10. /\ IsMap(w) /\ (\A x : x \in DOMAIN w <=> x \in DOMAIN Mapping(o) \/ x = k) /\ w[k] = v
         /\ \A x \in DOMAIN Mapping(o) : x # k => w[x] = Mapping(o)[x]
    BY WithFacts
  <2> HIDE DEF w
  <2>11. /\ \A i \in 1..n : o[i][1] \in DOMAIN Mapping(o) /\ Mapping(o)[o[i][1]] = o[i][2]
         /\ \A x \in DOMAIN Mapping(o) : \E i \in 1..n : o[i][1] = x
    BY OwnFacts DEF n
  <2>12. ASSUME NEW x PROVE x \in DOMAIN w <=> \E i \in 1..Len(q) : q[i][1] = x
    <3>1. x \in DOMAIN w <=> \E i \in 1..n : o[i][1] = x
      BY <2>1, <2>10, <2>11
    <3> QED BY <2>6, <2>7, <3>1
  <2>13. \A i \in 1..Len(q) : w[q[i][1]] = q[i][2]
    <3> SUFFICES ASSUME NEW i \in 1..n PROVE w[q[i][1]] = q[i][2]
      BY <2>6
    <3>1. CASE i = m
      BY <1>3, <2>4, <2>10, <3>1
    <3>2. CASE i # m
      <4>1. o[i][1] # k
        BY <1>2, <2>1, <3>2
      <4> QED BY <2>4, <2>10, <2>11, <3>2, <4>1
    <3> QED BY <3>1, <3>2
  <2>14. Mapping(q) = w
    BY <2>8, <2>10, <2>12, <2>13, OwnMapping
  <2> QED BY <2>8, <2>9, <2>14 DEF q, w
<1> QED BY <1>5, <1>6

\* The object without its property at m.
LEMMA CutFacts ==
    ASSUME NEW o \in OwnProps, NEW m \in 1..Len(o)
    PROVE  /\ RemoveAt(o, m) \in OwnProps /\ Len(RemoveAt(o, m)) = Len(o) - 1
           /\ \A i \in 1..(Len(o) - 1) : RemoveAt(o, m)[i] = o[IF i < m THEN i ELSE i + 1]
<1> DEFINE q == RemoveAt(o, m)
           n == Len(o)
           a == SubSeq(o, 1, m - 1)
           b == SubSeq(o, m + 1, n)
<1>0. /\ o \in PropSeqs /\ n \in Nat /\ DOMAIN o = 1..n /\ m \in 1..n
      /\ \A i \in 1..n : o[i] \in PropPairs
  BY PropFacts, OwnFacts
<1>a. \A i, j \in 1..n : o[i][1] = o[j][1] => i = j
  BY DEF OwnProps, OneEach
<1>1. q = a \o b
  BY DEF RemoveAt
<1> HIDE DEF q
<1>2. a = [i \in 1..(m - 1) |-> o[i]] /\ b = [i \in 1..(n - m) |-> o[i + m]]
  <2>1. a = [i \in 1..(m - 1) |-> o[i]]
    BY <1>0 DEF PropSeqs
  <2>2. b = [i \in 1..(n - m) |-> o[i + m]]
    BY <1>0 DEF PropSeqs
  <2> QED BY <2>1, <2>2
<1> HIDE DEF a, b, n
<1>3. a \in PropSeqs /\ Len(a) = m - 1 /\ \A i \in 1..(m - 1) : a[i] = o[i]
  <2> DEFINE l == m - 1
  <2>1. l \in Nat /\ a = [i \in 1..l |-> o[i]] /\ \A i \in 1..l : o[i] \in PropPairs
    BY <1>0, <1>2
  <2> HIDE DEF l
  <2>2. a \in PropSeqs /\ Len(a) = l /\ \A i \in 1..l : a[i] = o[i]
    BY <2>1 DEF PropSeqs
  <2> QED BY <2>2 DEF l
<1>4. b \in PropSeqs /\ Len(b) = n - m /\ \A i \in 1..(n - m) : b[i] = o[i + m]
  <2> DEFINE l == n - m
  <2>1. l \in Nat /\ b = [i \in 1..l |-> o[i + m]] /\ \A i \in 1..l : i + m \in 1..n
    BY <1>0, <1>2
  <2>2. \A i \in 1..l : o[i + m] \in PropPairs
    BY <1>0, <2>1
  <2> HIDE DEF l
  <2>3. b \in PropSeqs /\ Len(b) = l /\ \A i \in 1..l : b[i] = o[i + m]
    BY <2>1, <2>2 DEF PropSeqs
  <2> QED BY <2>3 DEF l
<1>5. /\ q \in PropSeqs /\ Len(q) = Len(a) + Len(b)
      /\ \A i \in 1..(Len(a) + Len(b)) : q[i] = IF i <= Len(a) THEN a[i] ELSE b[i - Len(a)]
  BY <1>1, <1>3, <1>4, ConcatProperties DEF PropSeqs
<1>6. Len(q) = n - 1
  BY <1>0, <1>3, <1>4, <1>5
<1>7. ASSUME NEW i \in 1..(n - 1)
      PROVE  q[i] = o[IF i < m THEN i ELSE i + 1] /\ (IF i < m THEN i ELSE i + 1) \in 1..n
  <2>0. i \in 1..(Len(a) + Len(b)) /\ i \in Int /\ m \in Int /\ n \in Int
    BY <1>0, <1>3, <1>4
  <2>1. CASE i < m
    <3>1. i <= Len(a) /\ i \in 1..(m - 1)
      BY <1>3, <2>0, <2>1
    <3>2. q[i] = a[i] /\ a[i] = o[i]
      BY <1>3, <1>5, <2>0, <3>1
    <3>3. (IF i < m THEN i ELSE i + 1) = i /\ i \in 1..n
      BY <2>0, <2>1, <3>1
    <3> QED BY <3>2, <3>3
  <2>2. CASE ~(i < m)
    <3>1. ~(i <= Len(a)) /\ i - Len(a) \in 1..(n - m) /\ (i - Len(a)) + m = i + 1
      BY <1>3, <2>0, <2>2
    <3>2. q[i] = b[i - Len(a)] /\ b[i - Len(a)] = o[(i - Len(a)) + m]
      BY <1>4, <1>5, <2>0, <3>1
    <3>3. q[i] = o[i + 1]
      BY <3>1, <3>2
    <3>4. (IF i < m THEN i ELSE i + 1) = i + 1 /\ i + 1 \in 1..n
      BY <2>0, <2>2
    <3> QED BY <3>3, <3>4
  <2> QED BY <2>1, <2>2
<1>8. ASSUME NEW i \in 1..(n - 1), NEW j \in 1..(n - 1), q[i][1] = q[j][1] PROVE i = j
  <2> DEFINE x == IF i < m THEN i ELSE i + 1
             y == IF j < m THEN j ELSE j + 1
  <2>1. q[i] = o[x] /\ q[j] = o[y] /\ x \in 1..n /\ y \in 1..n
    BY <1>7
  <2>2. x = y => i = j
    BY <1>0
  <2> HIDE DEF x, y
  <2> QED BY <1>a, <1>8, <2>1, <2>2
<1>9. q \in OwnProps
  BY <1>5, <1>6, <1>8 DEF OwnProps, OneEach
<1> QED BY <1>6, <1>7, <1>9 DEF q, n

LEMMA DeleteFacts ==
    ASSUME NEW o \in OwnProps, NEW k
    PROVE  /\ DeleteProperty(o, k) \in OwnProps
           /\ Mapping(DeleteProperty(o, k)) = Without(Mapping(o), k)
           /\ InOrder(o, DeleteProperty(o, k))
<1> DEFINE q == DeleteProperty(o, k)
           n == Len(o)
           w == Without(Mapping(o), k)
<1>1. o \in PropSeqs /\ n \in Nat
  BY PropFacts, OwnFacts
<1>2. \A i, j \in 1..n : o[i][1] = o[j][1] => i = j
  BY DEF OwnProps, OneEach
<1>3. \A i, x : i \in PlaceOf(o, x) <=> i \in 1..n /\ o[i][1] = x
  BY <1>1, PlaceFacts
<1>4. /\ IsMap(w) /\ \A x : x \in DOMAIN w <=> x \in DOMAIN Mapping(o) /\ x # k
      /\ \A x \in DOMAIN Mapping(o) : x # k => w[x] = Mapping(o)[x]
  BY WithoutFacts
<1>5. /\ \A i \in 1..n : o[i][1] \in DOMAIN Mapping(o) /\ Mapping(o)[o[i][1]] = o[i][2]
      /\ \A x \in DOMAIN Mapping(o) : \E i \in 1..n : o[i][1] = x
  BY OwnFacts
<1>6. CASE PlaceOf(o, k) = {}
  <2>1. q = o
    BY <1>6 DEF DeleteProperty
  <2> HIDE DEF q, w, n
  <2>2. \A i \in 1..n : o[i][1] # k
    BY <1>3, <1>6
  <2>3. \A x : x \in DOMAIN w <=> \E i \in 1..n : o[i][1] = x
    BY <1>4, <1>5, <2>2
  <2>4. \A i \in 1..n : w[o[i][1]] = o[i][2]
    BY <1>4, <1>5, <2>2
  <2>5. Mapping(o) = w
    BY <1>4, <2>3, <2>4, OwnMapping DEF n
  <2>6. InOrder(o, o)
    BY GrewInOrder, GrewOn
  <2> QED BY <2>1, <2>5, <2>6 DEF q, w
<1>7. CASE PlaceOf(o, k) # {}
  <2> DEFINE m == Min(PlaceOf(o, k))
             At(i) == IF i < m THEN i ELSE i + 1
  <2>1. m \in 1..n /\ o[m][1] = k
    BY <1>7, OwnFacts
  <2>2. q = RemoveAt(o, m)
    BY <1>7 DEF DeleteProperty
  <2> HIDE DEF q, w, n, m
  <2>3. q \in OwnProps /\ Len(q) = n - 1 /\ \A i \in 1..(n - 1) : q[i] = o[At(i)]
    BY <2>1, <2>2, CutFacts DEF n
  <2>4. ASSUME NEW i \in 1..(n - 1) PROVE At(i) \in 1..n /\ At(i) # m
    BY <1>1, <2>1
  <2>5. ASSUME NEW i \in 1..(n - 1), NEW j \in 1..(n - 1), i < j PROVE At(i) < At(j)
    BY <1>1, <2>1, <2>5
  <2>6. ASSUME NEW i \in 1..n, i # m PROVE \E j \in 1..(n - 1) : At(j) = i
    <3>1. CASE i < m
      <4>1. i \in 1..(n - 1) /\ At(i) = i
        BY <1>1, <2>1, <3>1
      <4> QED BY <4>1
    <3>2. CASE ~(i < m)
      <4>1. i - 1 \in 1..(n - 1) /\ At(i - 1) = i
        BY <1>1, <2>1, <2>6, <3>2
      <4> QED BY <4>1
    <3> QED BY <3>1, <3>2
  <2> HIDE DEF At
  <2>7. ASSUME NEW x PROVE x \in DOMAIN w <=> \E i \in 1..Len(q) : q[i][1] = x
    <3>1. x \in DOMAIN w <=> \E i \in 1..n : i # m /\ o[i][1] = x
      BY <1>2, <1>4, <1>5, <2>1
    <3>2. (\E i \in 1..n : i # m /\ o[i][1] = x) <=> \E j \in 1..(n - 1) : o[At(j)][1] = x
      BY <2>4, <2>6
    <3> QED BY <2>3, <3>1, <3>2
  <2>8. ASSUME NEW i \in 1..Len(q) PROVE w[q[i][1]] = q[i][2]
    <3>1. At(i) \in 1..n /\ At(i) # m /\ q[i] = o[At(i)]
      BY <2>3, <2>4
    <3>2. o[At(i)][1] # k
      BY <1>2, <2>1, <3>1
    <3> QED BY <1>4, <1>5, <3>1, <3>2
  <2>9. Mapping(q) = w
    BY <1>4, <2>3, <2>7, <2>8, OwnMapping
  <2>10. InOrder(o, q)
    <3> SUFFICES ASSUME NEW i \in 1..Len(q), NEW j \in 1..Len(q), i < j
                 PROVE  \E p \in PlaceOf(o, q[i][1]), r \in PlaceOf(o, q[j][1]) : p < r
      BY DEF InOrder
    <3>1. At(i) \in PlaceOf(o, q[i][1]) /\ At(j) \in PlaceOf(o, q[j][1])
      BY <1>3, <2>3, <2>4
    <3>2. At(i) < At(j)
      BY <2>3, <2>5
    <3> QED BY <3>1, <3>2
  <2> QED BY <2>3, <2>9, <2>10 DEF q, w
<1> QED BY <1>6, <1>7

\* A prefix that grows by one element.
LEMMA PrefixAppends ==
    ASSUME NEW S, NEW s \in Seq(S)
    PROVE  /\ SubSeq(s, 1, 0) = <<>> /\ SubSeq(s, 1, Len(s)) = s
           /\ \A k \in 1..Len(s) : /\ SubSeq(s, 1, k - 1) \in Seq(S) /\ s[k] \in S
                                   /\ SubSeq(s, 1, k) = Append(SubSeq(s, 1, k - 1), s[k])
<1>1. SubSeq(s, 1, 0) = <<>> /\ SubSeq(s, 1, Len(s)) = s
  BY PrefixOf
<1>2. ASSUME NEW k \in 1..Len(s)
      PROVE  /\ SubSeq(s, 1, k - 1) \in Seq(S) /\ s[k] \in S
             /\ SubSeq(s, 1, k) = Append(SubSeq(s, 1, k - 1), s[k])
  <2> DEFINE a == SubSeq(s, 1, k - 1)
             b == SubSeq(s, 1, k)
  <2>1. a \in Seq(S) /\ b = a \o <<s[k]>> /\ s[k] \in S
    BY PrefixOf
  <2> HIDE DEF a, b
  <2>2. Append(a, s[k]) = a \o <<s[k]>>
    BY <2>1, AppendIsConcat
  <2> QED BY <2>1, <2>2 DEF a, b
<1> QED BY <1>1, <1>2

\* Object.assign, property by property.
LEMMA AssignFacts ==
    ASSUME NEW o \in OwnProps, NEW ps \in PropSeqs
    PROVE  /\ ObjectAssign(o, ps) \in OwnProps
           /\ Mapping(ObjectAssign(o, ps)) = Overlay(Mapping(o), Mapping(ps))
           /\ Grew(o, ObjectAssign(o, ps))
<1> DEFINE Body(q, p) == SetProperty(q, p[1], p[2])
           n == Len(ps)
           after[k \in 0..n] == IF k = 0 THEN o ELSE Body(after[k - 1], ps[k])
           D == [k \in 0..n |-> {q \in OwnProps :
                                   /\ Mapping(q) = Overlay(Mapping(o), Mapping(SubSeq(ps, 1, k)))
                                   /\ Grew(o, q)}]
           G == [k \in 1..n |-> [q \in D[k - 1] |-> Body(q, ps[k])]]
<1>1. ObjectAssign(o, ps) = after[n]
  BY DEF ObjectAssign, Walk
<1>2. n \in Nat /\ o \in PropSeqs /\ IsMap(Mapping(o))
  BY PropFacts, OwnFacts, MappingFacts
<1>3. o \in D[0]
  <2>1. SubSeq(ps, 1, 0) = <<>> /\ Overlay(Mapping(o), Mapping(<<>>)) = Mapping(o)
    BY <1>2, EmptyMapping, PrefixAppends DEF PropSeqs
  <2>2. Grew(o, o)
    BY GrewOn
  <2>3. Mapping(o) = Overlay(Mapping(o), Mapping(SubSeq(ps, 1, 0)))
    BY <2>1
  <2> QED BY <1>2, <2>2, <2>3
<1> HIDE DEF Body
<1>4. ASSUME NEW k \in 1..n, NEW q \in D[k - 1] PROVE Body(q, ps[k]) \in D[k]
  <2>1. k - 1 \in 0..n /\ k \in 0..n
    BY <1>2
  <2> DEFINE t == SubSeq(ps, 1, k - 1)
             p == ps[k]
             b == Body(q, p)
  <2>2. q \in OwnProps /\ Mapping(q) = Overlay(Mapping(o), Mapping(t)) /\ Grew(o, q)
    BY <2>1
  <2>3. t \in PropSeqs /\ p \in PropPairs /\ SubSeq(ps, 1, k) = Append(t, p)
    BY PrefixAppends DEF PropSeqs
  <2> HIDE DEF t, p
  <2>4. p[1] \in Names /\ p[2] \in Values \cup {None}
    BY <2>3 DEF PropPairs
  <2>5. b \in OwnProps /\ Mapping(b) = With(Mapping(q), p[1], p[2]) /\ Grew(q, b)
    BY <2>2, <2>4, SetFacts DEF Body
  <2> HIDE DEF b
  <2>6. Mapping(Append(t, p)) = With(Mapping(t), p[1], p[2])
    BY <2>3, MappingAppend
  <2>7. Mapping(b) = Overlay(Mapping(o), Mapping(SubSeq(ps, 1, k)))
    <3>1. Overlay(Mapping(o), With(Mapping(t), p[1], p[2])) = With(Overlay(Mapping(o), Mapping(t)), p[1], p[2])
      BY OverlayWith
    <3> QED BY <2>2, <2>3, <2>5, <2>6, <3>1, Zenon
  <2>8. Grew(o, b)
    BY <2>2, <2>5, GrewOn
  <2> QED BY <2>1, <2>5, <2>7, <2>8 DEF b, p
<1>5. after[n] \in D[n]
  <2>1. \A k \in 1..n : \A q \in D[k - 1] : G[k][q] = Body(q, ps[k])
    OBVIOUS
  <2>2. Leads(n, D, G)
    BY <1>4 DEF Leads
  <2>3. \E f : f = [k \in 0..n |-> IF k = 0 THEN o ELSE Body(f[k - 1], ps[k])]
    <3> HIDE DEF D, G, n, after
    <3>1. PICK f : Path(f, n, o, G) /\ Stays(f, n, D)
      BY <1>2, <1>3, <2>2, LoopExists
    <3>2. \A k \in 1..n : G[k][f[k - 1]] = Body(f[k - 1], ps[k])
      <4> TAKE k \in 1..n
      <4>1. k - 1 \in 0..n
        BY <1>2
      <4> QED BY <2>1, <3>1, <4>1 DEF Stays
    <3>3. f = [k \in 0..n |-> IF k = 0 THEN o ELSE Body(f[k - 1], ps[k])]
      <4>1. \A k \in 0..n : k # 0 => k \in 1..n
        BY <1>2
      <4> QED BY <3>1, <3>2, <4>1 DEF Path
    <3> QED BY <3>3
  <2>4. after = [k \in 0..n |-> IF k = 0 THEN o ELSE Body(after[k - 1], ps[k])]
    BY <2>3
  <2> HIDE DEF after
  <2>5. after[0] = o /\ \A k \in 1..n : after[k] = Body(after[k - 1], ps[k])
    BY <1>2, <2>4
  <2> HIDE DEF D, G, n
  <2>6. \A k \in 0..n : after[k] \in D[k]
    BY <1>2, <1>3, <1>4, <2>5, LoopKeeps
  <2> QED BY <1>2, <2>6
<1>6. n \in 0..n /\ SubSeq(ps, 1, n) = ps
  BY <1>2, PrefixAppends DEF PropSeqs
<1> HIDE DEF after
<1> QED BY <1>1, <1>5, <1>6

\* The object loses its keys one after another.
LEMMA ClearFacts ==
    ASSUME NEW o \in OwnProps
    PROVE  JSObjectProxy_clear_method(o).obj = <<>>
<1> DEFINE Body(q, key) == DeleteProperty(q, key)
           s == OwnKeys(o)
           n == Len(s)
           after[k \in 0..n] == IF k = 0 THEN o ELSE Body(after[k - 1], s[k])
           D == [k \in 0..n |-> {q \in OwnProps : \A x \in DOMAIN Mapping(q) : \E i \in (k + 1)..n : x = s[i]}]
           G == [k \in 1..n |-> [q \in D[k - 1] |-> Body(q, s[k])]]
<1>1. JSObjectProxy_clear_method(o).obj = after[n]
  BY DEF JSObjectProxy_clear_method, Walk, Ok
<1>2. n \in Nat /\ o \in PropSeqs /\ n = Len(o) /\ \A i \in 1..n : s[i] = o[i][1]
  <2>1. o \in PropSeqs /\ Len(o) \in Nat /\ DOMAIN o = 1..Len(o)
    BY PropFacts, OwnFacts
  <2>2. s = [i \in 1..Len(o) |-> o[i][1]]
    BY <2>1 DEF OwnKeys
  <2> HIDE DEF s
  <2> QED BY <2>1, <2>2
<1>3. o \in D[0]
  <2>1. \A x \in DOMAIN Mapping(o) : \E i \in 1..n : x = s[i]
    <3> HIDE DEF s
    <3> QED BY <1>2, OwnFacts
  <2> QED BY <1>2, <2>1
<1> HIDE DEF s, Body
<1>4. ASSUME NEW k \in 1..n, NEW q \in D[k - 1] PROVE Body(q, s[k]) \in D[k]
  <2>1. k - 1 \in 0..n /\ k \in 0..n /\ (k - 1) + 1 = k
    BY <1>2
  <2> DEFINE b == Body(q, s[k])
  <2>2. q \in OwnProps /\ \A x \in DOMAIN Mapping(q) : \E i \in k..n : x = s[i]
    BY <2>1
  <2>3. b \in OwnProps /\ Mapping(b) = Without(Mapping(q), s[k])
    BY <2>2, DeleteFacts DEF Body
  <2> HIDE DEF b
  <2>4. \A x \in DOMAIN Mapping(b) : x \in DOMAIN Mapping(q) /\ x # s[k]
    BY <2>3, WithoutFacts
  <2>5. \A x \in DOMAIN Mapping(b) : \E i \in (k + 1)..n : x = s[i]
    <3> TAKE x \in DOMAIN Mapping(b)
    <3>1. PICK i \in k..n : x = s[i]
      BY <2>2, <2>4
    <3>2. i # k
      BY <2>4, <3>1
    <3>3. i \in (k + 1)..n
      BY <1>2, <3>2
    <3> QED BY <3>1, <3>3
  <2> QED BY <2>1, <2>3, <2>5 DEF b
<1>5. after[n] \in D[n]
  <2>1. \A k \in 1..n : \A q \in D[k - 1] : G[k][q] = Body(q, s[k])
    OBVIOUS
  <2>2. Leads(n, D, G)
    BY <1>4 DEF Leads
  <2>3. \E f : f = [k \in 0..n |-> IF k = 0 THEN o ELSE Body(f[k - 1], s[k])]
    <3> HIDE DEF D, G, n, after
    <3>1. PICK f : Path(f, n, o, G) /\ Stays(f, n, D)
      BY <1>2, <1>3, <2>2, LoopExists
    <3>2. \A k \in 1..n : G[k][f[k - 1]] = Body(f[k - 1], s[k])
      <4> TAKE k \in 1..n
      <4>1. k - 1 \in 0..n
        BY <1>2
      <4> QED BY <2>1, <3>1, <4>1 DEF Stays
    <3>3. f = [k \in 0..n |-> IF k = 0 THEN o ELSE Body(f[k - 1], s[k])]
      <4>1. \A k \in 0..n : k # 0 => k \in 1..n
        BY <1>2
      <4> QED BY <3>1, <3>2, <4>1 DEF Path
    <3> QED BY <3>3
  <2>4. after = [k \in 0..n |-> IF k = 0 THEN o ELSE Body(after[k - 1], s[k])]
    BY <2>3
  <2> HIDE DEF after
  <2>5. after[0] = o /\ \A k \in 1..n : after[k] = Body(after[k - 1], s[k])
    BY <1>2, <2>4
  <2> HIDE DEF D, G, n
  <2>6. \A k \in 1..n : after[k - 1] \in D[k - 1] => after[k] \in D[k]
    BY <1>4, <2>5
  <2>7. \A k \in 0..n : after[k] \in D[k]
    BY <1>2, <1>3, <2>5, <2>6, LoopKeeps
  <2> QED BY <1>2, <2>7
<1> DEFINE q == after[n]
<1> HIDE DEF after
<1>6. q \in OwnProps /\ DOMAIN Mapping(q) = {}
  <2>1. n \in 0..n /\ ~\E i \in (n + 1)..n : TRUE
    BY <1>2
  <2> QED BY <1>5, <2>1
<1> HIDE DEF q
<1>7. Len(q) = 0 /\ q \in Seq(PropPairs)
  <2>1. Len(q) \in Nat /\ q \in PropSeqs
    BY <1>6, PropFacts, OwnFacts
  <2>2. \A i \in 1..Len(q) : FALSE
    BY <1>6, OwnFacts
  <2> QED BY <2>1, <2>2 DEF PropSeqs
<1> QED BY <1>1, <1>7, EmptySeq DEF q

\* What an iterable may hold, a dict being one of names; and which of it is a pair.
Iterated == (Names \X Values) \cup {NotSequence, <<None>>} \cup {Letters[k] : k \in Names}
IsPair(p) == p # NotSequence /\ Len(p) = 2
MergeErr(p) == IF p = NotSequence THEN "TypeError" ELSE "ValueError"
Merges == [obj : OwnProps, ret : {None}, err : {"none", "TypeError", "ValueError"}]
\* The merge has come to a bad element, at m.
StoppedAt(o, s, m, r) ==
    /\ ~IsPair(s[m]) /\ (\A i \in 1..(m - 1) : IsPair(s[i])) /\ r.err = MergeErr(s[m])
    /\ Mapping(r.obj) = Overlay(Mapping(o), Mapping(SubSeq(s, 1, m - 1)))
\* The merge after k elements.
Merging(o, s, k, r) ==
    /\ Grew(o, r.obj)
    /\ r.err = "none" => /\ SubSeq(s, 1, k) \in PropSeqs /\ \A i \in 1..k : IsPair(s[i])
                         /\ Mapping(r.obj) = Overlay(Mapping(o), Mapping(SubSeq(s, 1, k)))
    /\ r.err # "none" => \E m \in 1..k : StoppedAt(o, s, m, r)

LEMMA PairElements ==
    ASSUME NEW p \in Iterated, IsPair(p)
    PROVE  p \in Names \X Values /\ p \in PropPairs /\ p[1] \in Names /\ p[2] \in Values \cup {None}
<1>1. p # <<None>>
  BY DEF IsPair
<1>a. (\E k \in Names : p = Letters[k]) => p \in Names \X Values
  BY ObjectProxyAssumption DEF IsPair
<1>2. p \in Names \X Values
  BY <1>1, <1>a DEF IsPair, Iterated
<1> QED BY <1>2 DEF PropPairs

\* One turn of the loop of mergeFromSeq2.
MergeStep(r, p) ==
    CASE r.err # "none" -> r
      [] r.err = "none" /\ p = NotSequence -> [r EXCEPT !.err = "TypeError"]
      [] r.err = "none" /\ p # NotSequence /\ Len(p) # 2 -> [r EXCEPT !.err = "ValueError"]
      [] OTHER -> [r EXCEPT !.obj = JSObjectProxy_assign(@, p[1], p[2])]

LEMMA MergeSteps ==
    ASSUME NEW r \in Merges, NEW p \in Iterated
    PROVE  /\ r.err # "none" => MergeStep(r, p) = r
           /\ r.err = "none" /\ ~IsPair(p) => /\ MergeStep(r, p) \in Merges
                                              /\ MergeStep(r, p).obj = r.obj
                                              /\ MergeStep(r, p).err = MergeErr(p)
           /\ r.err = "none" /\ IsPair(p) =>
                /\ MergeStep(r, p) \in Merges
                /\ MergeStep(r, p).obj = SetProperty(r.obj, p[1], p[2])
                /\ MergeStep(r, p).err = "none"
<1>1. CASE r.err # "none"
  BY <1>1 DEF MergeStep
<1>2. CASE r.err = "none" /\ ~IsPair(p)
  <2>1. CASE p = NotSequence
    <3>1. MergeStep(r, p) = [r EXCEPT !.err = "TypeError"]
      BY <1>2, <2>1 DEF MergeStep
    <3> QED BY <1>2, <2>1, <3>1 DEF Merges, MergeErr
  <2>2. CASE p # NotSequence
    <3>1. MergeStep(r, p) = [r EXCEPT !.err = "ValueError"]
      BY <1>2, <2>2 DEF MergeStep, IsPair
    <3> QED BY <1>2, <2>2, <3>1 DEF Merges, MergeErr
  <2> QED BY <2>1, <2>2
<1>3. CASE r.err = "none" /\ IsPair(p)
  <2> DEFINE q == SetProperty(r.obj, p[1], p[2])
  <2>1. MergeStep(r, p) = [r EXCEPT !.obj = q]
    BY <1>3 DEF MergeStep, IsPair, JSObjectProxy_assign
  <2>2. r.obj \in OwnProps /\ p[1] \in Names /\ p[2] \in Values \cup {None}
    BY <1>3, PairElements DEF Merges
  <2>3. q \in OwnProps
    BY <2>2, SetFacts
  <2> HIDE DEF q
  <2>4. MergeStep(r, p) \in Merges /\ MergeStep(r, p).obj = q /\ MergeStep(r, p).err = "none"
    BY <1>3, <2>1, <2>3 DEF Merges
  <2> QED BY <1>3, <2>4 DEF q
<1> QED BY <1>1, <1>2, <1>3

LEMMA MergeGoesOn ==
    ASSUME NEW o \in OwnProps, NEW s \in Seq(Iterated), NEW k \in 1..Len(s), NEW r \in Merges,
           Merging(o, s, k - 1, r)
    PROVE  MergeStep(r, s[k]) \in Merges /\ Merging(o, s, k, MergeStep(r, s[k]))
<1> DEFINE p == s[k]
           t == SubSeq(s, 1, k - 1)
           u == SubSeq(s, 1, k)
           b == MergeStep(r, p)
<1>1. u = Append(t, p) /\ p \in Iterated
  BY PrefixAppends
<1>a. k \in Nat /\ k >= 1 /\ k - 1 \in Nat
  <2>1. Len(s) \in Nat
    OBVIOUS
  <2> QED BY <2>1
<1>2. /\ Grew(o, r.obj)
      /\ r.err = "none" => /\ t \in PropSeqs /\ \A i \in 1..(k - 1) : IsPair(s[i])
                           /\ Mapping(r.obj) = Overlay(Mapping(o), Mapping(t))
      /\ r.err # "none" => \E m \in 1..(k - 1) : StoppedAt(o, s, m, r)
  BY DEF Merging
<1> HIDE DEF t, u, b
<1>3. CASE r.err # "none"
  <2>1. b = r
    BY <1>1, <1>3, MergeSteps DEF b
  <2>2. PICK m \in 1..(k - 1) : StoppedAt(o, s, m, r)
    BY <1>2, <1>3
  <2>3. m \in 1..k
    BY <1>a
  <2> QED BY <1>2, <1>3, <2>1, <2>2, <2>3 DEF Merging, b
<1>4. CASE r.err = "none" /\ ~IsPair(p)
  <2>1. b \in Merges /\ b.obj = r.obj /\ b.err = MergeErr(p) /\ b.err # "none"
    BY <1>1, <1>4, MergeSteps DEF b, MergeErr
  <2>2. StoppedAt(o, s, k, b)
    BY <1>2, <1>4, <2>1 DEF StoppedAt, t
  <2>3. k \in 1..k
    BY <1>a
  <2>4. Merging(o, s, k, b)
    BY <1>2, <2>1, <2>2, <2>3 DEF Merging
  <2> QED BY <2>1, <2>4 DEF b
<1>5. CASE r.err = "none" /\ IsPair(p)
  <2>1. b \in Merges /\ b.obj = SetProperty(r.obj, p[1], p[2]) /\ b.err = "none"
    BY <1>1, <1>5, MergeSteps DEF b
  <2>2. p \in PropPairs /\ p[1] \in Names /\ p[2] \in Values \cup {None} /\ r.obj \in OwnProps
        /\ b.obj \in OwnProps
    BY <1>1, <1>5, <2>1, PairElements DEF Merges
  <2>3. Mapping(b.obj) = With(Mapping(r.obj), p[1], p[2]) /\ Grew(r.obj, b.obj)
    BY <2>1, <2>2, SetFacts
  <2> HIDE DEF p
  <2>4. u \in PropSeqs /\ Mapping(u) = With(Mapping(t), p[1], p[2])
    BY <1>1, <1>2, <1>5, <2>2, MappingAppend
  <2>5. Mapping(b.obj) = Overlay(Mapping(o), Mapping(u))
    <3>1. Overlay(Mapping(o), With(Mapping(t), p[1], p[2])) = With(Overlay(Mapping(o), Mapping(t)), p[1], p[2])
      BY OverlayWith
    <3> QED BY <1>2, <1>5, <2>3, <2>4, <3>1, Zenon
  <2>6. Grew(o, b.obj)
    BY <1>2, <2>2, <2>3, GrewOn
  <2>7. \A i \in 1..k : IsPair(s[i])
    <3> SUFFICES ASSUME NEW i \in 1..k PROVE IsPair(s[i])
      OBVIOUS
    <3>1. CASE i = k
      BY <1>5, <3>1 DEF p
    <3>2. CASE i # k
      <4>1. i \in 1..(k - 1)
        BY <1>a, <3>2
      <4> QED BY <1>2, <1>5, <4>1
    <3> QED BY <3>1, <3>2
  <2>8. Merging(o, s, k, b)
    BY <2>1, <2>4, <2>5, <2>6, <2>7 DEF Merging, u
  <2> QED BY <2>1, <2>8 DEF b, p
<1> QED BY <1>3, <1>4, <1>5

LEMMA MergeEnds ==
    ASSUME NEW o \in OwnProps, NEW v, NEW s \in Seq(Iterated), Elements(v) = s
    PROVE  mergeFromSeq2(o, v) \in Merges /\ Merging(o, s, Len(s), mergeFromSeq2(o, v))
<1> DEFINE n == Len(s)
           h == Ok(o, None)
           after[k \in 0..n] == IF k = 0 THEN h ELSE MergeStep(after[k - 1], s[k])
           D == [k \in 0..n |-> {r \in Merges : Merging(o, s, k, r)}]
           G == [k \in 1..n |-> [r \in D[k - 1] |-> MergeStep(r, s[k])]]
<1>1. mergeFromSeq2(o, v) = after[n]
  BY DEF mergeFromSeq2, Walk, MergeStep
<1>2. n \in Nat /\ o \in PropSeqs /\ IsMap(Mapping(o))
  BY OwnFacts, MappingFacts
<1>3. h \in D[0]
  <2>1. h \in Merges /\ h.obj = o /\ h.err = "none"
    BY DEF Ok, Merges
  <2>2. SubSeq(s, 1, 0) = <<>> /\ Overlay(Mapping(o), Mapping(<<>>)) = Mapping(o)
    BY <1>2, EmptyMapping, PrefixAppends
  <2>3. SubSeq(s, 1, 0) \in PropSeqs /\ Mapping(o) = Overlay(Mapping(o), Mapping(SubSeq(s, 1, 0)))
    BY <2>2, EmptyMapping
  <2>4. Grew(o, o) /\ \A i \in 1..0 : IsPair(s[i])
    BY GrewOn
  <2> HIDE DEF h
  <2>5. Merging(o, s, 0, h)
    BY <2>1, <2>3, <2>4 DEF Merging
  <2> QED BY <1>2, <2>1, <2>5
<1> HIDE DEF h
<1>4. ASSUME NEW k \in 1..n, NEW r \in D[k - 1] PROVE MergeStep(r, s[k]) \in D[k]
  <2>1. k - 1 \in 0..n /\ k \in 0..n
    BY <1>2
  <2>2. r \in Merges /\ Merging(o, s, k - 1, r)
    BY <2>1
  <2>3. MergeStep(r, s[k]) \in Merges /\ Merging(o, s, k, MergeStep(r, s[k]))
    BY <2>2, MergeGoesOn
  <2> QED BY <2>1, <2>3
<1>5. after[n] \in D[n]
  <2>1. \A k \in 1..n : \A r \in D[k - 1] : G[k][r] = MergeStep(r, s[k])
    OBVIOUS
  <2>2. Leads(n, D, G)
    BY <1>4 DEF Leads
  <2>3. \E f : f = [k \in 0..n |-> IF k = 0 THEN h ELSE MergeStep(f[k - 1], s[k])]
    <3> HIDE DEF D, G, n, after
    <3>1. PICK f : Path(f, n, h, G) /\ Stays(f, n, D)
      BY <1>2, <1>3, <2>2, LoopExists
    <3>2. \A k \in 1..n : G[k][f[k - 1]] = MergeStep(f[k - 1], s[k])
      <4> TAKE k \in 1..n
      <4>1. k - 1 \in 0..n
        BY <1>2
      <4> QED BY <2>1, <3>1, <4>1 DEF Stays
    <3>3. f = [k \in 0..n |-> IF k = 0 THEN h ELSE MergeStep(f[k - 1], s[k])]
      <4>1. \A k \in 0..n : k # 0 => k \in 1..n
        BY <1>2
      <4> QED BY <3>1, <3>2, <4>1 DEF Path
    <3> QED BY <3>3
  <2>4. after = [k \in 0..n |-> IF k = 0 THEN h ELSE MergeStep(after[k - 1], s[k])]
    BY <2>3
  <2> HIDE DEF after
  <2>5. after[0] = h /\ \A k \in 1..n : after[k] = MergeStep(after[k - 1], s[k])
    BY <1>2, <2>4
  <2> HIDE DEF D, G, n
  <2>6. \A k \in 1..n : after[k - 1] \in D[k - 1] => after[k] \in D[k]
    BY <1>4, <2>5
  <2>7. \A k \in 0..n : after[k] \in D[k]
    BY <1>2, <1>3, <2>5, <2>6, LoopKeeps
  <2> QED BY <1>2, <2>7
<1> HIDE DEF after
<1>6. n \in 0..n
  BY <1>2
<1> QED BY <1>1, <1>5, <1>6

\* A merge leaves what the standard says, and stops with its exception.
LEMMA MergeFacts ==
    ASSUME NEW o \in OwnProps, NEW v, v.kind = "seq", v.props \in Seq(Iterated)
    PROVE  LET r == mergeFromSeq2(o, v)
           IN  /\ r \in Merges /\ Grew(o, r.obj)
               /\ Mapping(r.obj) = Overlay(Mapping(o), Merged(v))
               /\ r.err = IF Bad(v) = {} THEN "none" ELSE MergeErr(v.props[Min(Bad(v))])
<1> DEFINE s == v.props
           n == Len(s)
           r == mergeFromSeq2(o, v)
           B == Bad(v)
<1>1. n \in Nat /\ DOMAIN s = 1..n /\ SubSeq(s, 1, n) = s
  BY SeqOfParts, PrefixAppends
<1>2. r \in Merges /\ Merging(o, s, n, r)
  <2>1. Elements(v) = s
    BY DEF Elements, IsDict
  <2> QED BY <2>1, MergeEnds
<1>3. \A i : i \in B <=> i \in 1..n /\ ~IsPair(s[i])
  BY <1>1 DEF Bad, IsPair
<1>4. ~IsDict(v)
  BY DEF IsDict
<1> HIDE DEF s, r, n, B
<1>5. CASE r.err = "none"
  <2>1. (\A i \in 1..n : IsPair(s[i])) /\ Mapping(r.obj) = Overlay(Mapping(o), Mapping(s)) /\ Grew(o, r.obj)
    BY <1>1, <1>2, <1>5 DEF Merging
  <2>2. B = {}
    BY <1>3, <2>1
  <2>3. Merged(v) = Mapping(s)
    BY <2>2 DEF Merged, B, s
  <2> QED BY <1>2, <1>5, <2>1, <2>2, <2>3 DEF r, s, B
<1>6. CASE r.err # "none"
  <2>1. PICK m \in 1..n : StoppedAt(o, s, m, r)
    BY <1>2, <1>6 DEF Merging
  <2>2. /\ ~IsPair(s[m]) /\ (\A i \in 1..(m - 1) : IsPair(s[i])) /\ r.err = MergeErr(s[m])
        /\ Mapping(r.obj) = Overlay(Mapping(o), Mapping(SubSeq(s, 1, m - 1))) /\ Grew(o, r.obj)
    BY <1>2, <2>1 DEF StoppedAt, Merging
  <2>3. m \in B /\ B \subseteq Nat
    BY <1>1, <1>3, <2>2
  <2>4. Min(B) \in B /\ Min(B) <= m
    BY <2>3, MinFacts
  <2>5. Min(B) = m
    <3>1. Min(B) \in 1..n /\ ~IsPair(s[Min(B)])
      BY <1>3, <2>4
    <3>2. Min(B) \notin 1..(m - 1)
      BY <2>2, <3>1
    <3> QED BY <1>1, <2>4, <3>1, <3>2
  <2>6. Merged(v) = Mapping(SubSeq(s, 1, m - 1))
    <3>1. Merged(v) = Mapping(SubSeq(s, 1, Min(B) - 1))
      BY <1>4, <2>3 DEF Merged, B, s
    <3> QED BY <2>5, <3>1
  <2> QED BY <1>2, <2>2, <2>3, <2>5, <2>6 DEF r, s, B
<1> QED BY <1>5, <1>6

\* Whether the mapping has a key, and what subscripts and attributes give then.
LEMMA HasFacts ==
    ASSUME NEW o \in OwnProps, NEW k, ~Inherits(o, k)
    PROVE  /\ Has(Mapping(o), k) <=> GetProperty(o, k) # None
           /\ Has(Mapping(o), k) => GetProperty(o, k) = Mapping(o)[k]
           /\ JSObjectProxy_contains(o, k) = Has(Mapping(o), k)
           /\ JSObjectProxy_get_subscript(o, k) =
                IF Has(Mapping(o), k) THEN Mapping(o)[k] ELSE IF k \in Methods THEN BoundMethod ELSE None
           /\ JSObjectProxy_get(o, k) =
                IF k \in Methods THEN BoundMethod ELSE IF Has(Mapping(o), k) THEN Mapping(o)[k] ELSE None
<1> DEFINE h == Has(Mapping(o), k)
<1>0. GetProperty(o, k) = OwnProperty(o, k)
  BY DEF GetProperty
<1>1. h \in BOOLEAN /\ (h <=> GetProperty(o, k) # None) /\ (h => GetProperty(o, k) = Mapping(o)[k])
  BY <1>0, OwnFacts DEF Has
<1>2. JSObjectProxy_contains(o, k) = h
  BY <1>1 DEF JSObjectProxy_contains
<1> HIDE DEF h
<1>3. JSObjectProxy_get_subscript(o, k) = IF h THEN Mapping(o)[k] ELSE IF k \in Methods THEN BoundMethod ELSE None
  BY <1>1 DEF JSObjectProxy_get_subscript, getKey
<1>4. JSObjectProxy_get(o, k) = IF k \in Methods THEN BoundMethod ELSE IF h THEN Mapping(o)[k] ELSE None
  BY <1>1 DEF JSObjectProxy_get, getKey
<1> QED BY <1>1, <1>2, <1>3, <1>4 DEF h

\* An object inherits none of its own keys.
LEMMA OwnNotInherited ==
    ASSUME NEW o \in OwnProps, NEW k, k \in DOMAIN Mapping(o)
    PROVE  ~Inherits(o, k)
  BY OwnFacts, MappingFacts DEF Inherits

\* What it inherits is no value of the program.
LEMMA InheritedFacts ==
    ASSUME NEW o, NEW k, Inherits(o, k)
    PROVE  /\ GetProperty(o, k) = Prototype[k] /\ GetProperty(o, k) # None
           /\ JSObjectProxy_get_subscript(o, k) = Prototype[k]
           /\ JSObjectProxy_get_subscript(o, k) \notin Values \cup {None}
<1>1. GetProperty(o, k) = Prototype[k] /\ Prototype[k] # None /\ Prototype[k] \notin Values
  BY ObjectMethodsAssumption, ObjectProxyAssumption DEF GetProperty, Inherits
<1>2. JSObjectProxy_get_subscript(o, k) = Prototype[k]
  BY <1>1 DEF JSObjectProxy_get_subscript, getKey
<1> QED BY <1>1, <1>2

\* As many keys as properties.
LEMMA KeyCount ==
    ASSUME NEW o \in OwnProps
    PROVE  /\ IsFiniteSet(DOMAIN Mapping(o)) /\ Cardinality(DOMAIN Mapping(o)) = Len(o)
           /\ JSObjectProxy_length(o) = Len(o) /\ Len(o) \in Nat
<1> DEFINE n == Len(o)
           S == 1..n
           K == DOMAIN Mapping(o)
           f == [i \in S |-> o[i][1]]
<1>1. n \in Nat /\ DOMAIN o = 1..n /\ o \in PropSeqs
  BY PropFacts, OwnFacts
<1>2. JSObjectProxy_length(o) = n
  <2>1. OwnKeys(o) = [i \in 1..n |-> o[i][1]]
    BY <1>1 DEF OwnKeys
  <2> QED BY <1>1, <2>1 DEF JSObjectProxy_length
<1>3. /\ \A i \in S : o[i][1] \in K
      /\ \A k \in K : \E i \in S : o[i][1] = k
  BY OwnFacts
<1>4. \A i, j \in S : o[i][1] = o[j][1] => i = j
  BY DEF OwnProps, OneEach
<1>5. IsFiniteSet(S) /\ Cardinality(S) = n
  <2> HIDE DEF n
  <2>1. IsFiniteSet(1..n) /\ Cardinality(1..n) = IF 1 > n THEN 0 ELSE n - 1 + 1
    BY <1>1, FS_Interval
  <2> QED BY <1>1, <2>1
<1> HIDE DEF S, K, n
<1>6. f \in Bijection(S, K)
  BY <1>3, <1>4 DEF Bijection, Injection, Surjection, IsInjective
<1>7. ExistsBijection(S, K)
  BY <1>6 DEF ExistsBijection
<1>8. IsFiniteSet(K) /\ Cardinality(K) = n
  BY <1>5, <1>7, FS_Bijection
<1> QED BY <1>1, <1>2, <1>8 DEF K, n

-----------------------------------------------------------------------------
(* What an operation leaves and gives, and what is known to be otherwise, of *)
(* an operation on its own.                                                  *)

Reply(op, r) == IF op \in {"or", "ror", "copy"} THEN Mapping(r.ret) ELSE r.ret
Meets(op, x, o, r) ==
    LET c == [op |-> op, args |-> x]
        d == Mapping(o)
    IN  /\ (IF r.err = "pending" THEN "none" ELSE r.err) = Failure(c, d)
        /\ Mapping(r.obj) = Edited(c, d)
        /\ InOrder(o, r.obj)
        /\ r.err = "none" => Reply(op, r) = Answer(c, d)
Exempt(op, x, o) ==
    CASE op = "compare" /\ x[2] # "<" ->
           x[1].kind = "seq" \/ Extra(x[1], o) \/ Undefined(o) \/ Undefined(x[1].props)
      [] op = "keysCompare" -> Undefined(o) \/ x[1].kind = "proxyKeys" \/ x[2] \in {">", ">="}
      [] op \in {"and", "rand", "isdisjoint"} -> Undefined(o) \/ Crossed(o, x[1])
      [] op = "ror" -> Undefined(o)
      [] op \in {"get", "setdefault"} -> x[1] \in Methods \/ Inherits(o, x[1])
      [] op \in {"getitem", "getattr", "contains", "pop"} -> Inherits(o, x[1])
      [] op = "update" -> x[1].kind = "subclass" /\ x[1].props # <<>>
      [] op = "valuesContains" -> TRUE
      [] OTHER -> FALSE
Answers(op, x, o) ==
    /\ Perform(op, o, x).obj \in OwnProps
    /\ ~Exempt(op, x, o) => Meets(op, x, o, Perform(op, o, x))

LEMMA StaysInOrder == \A o \in OwnProps : InOrder(o, o)
  BY GrewInOrder, GrewOn

\* An operation that changes nothing and only answers.
LEMMA LenAnswers == \A o \in OwnProps : Answers("len", <<>>, o)
<1> SUFFICES ASSUME NEW o \in OwnProps PROVE Answers("len", <<>>, o)
  OBVIOUS
<1> DEFINE c == [op |-> "len", args |-> <<>>]
<1>1. Perform("len", o, <<>>) = Ok(o, JSObjectProxy_length(o))
  BY DEF Perform
<1>2. Failure(c, Mapping(o)) = "none" /\ Edited(c, Mapping(o)) = Mapping(o)
      /\ Answer(c, Mapping(o)) = Cardinality(DOMAIN Mapping(o))
  BY DEF Failure, Edited, Answer
<1> QED BY <1>1, <1>2, KeyCount, StaysInOrder DEF Answers, Meets, Ok, Reply

LEMMA LookAnswers ==
    ASSUME NEW o \in OwnProps, NEW x, NEW op \in {"getitem", "getattr", "contains", "valuesContains"}
    PROVE  Answers(op, x, o)
<1> DEFINE k == x[1]
           c == [op |-> op, args |-> x]
           d == Mapping(o)
<1>1. Perform(op, o, x) = Ok(o, CASE op = "getitem" -> JSObjectProxy_get_subscript(o, k)
                                  [] op = "getattr" -> JSObjectProxy_get(o, k)
                                  [] op = "contains" -> JSObjectProxy_contains(o, k)
                                  [] op = "valuesContains" -> JSObjectValuesProxy_contains(o, k))
  BY DEF Perform
<1>2. Failure(c, d) = "none" /\ Edited(c, d) = d
  BY DEF Failure, Edited
<1>a. op # "valuesContains" /\ ~Exempt(op, x, o) => ~Inherits(o, k)
  BY DEF Exempt
<1>3. CASE op = "getitem"
  <2>1. Answer(c, d) = IF Has(d, k) THEN d[k] ELSE IF k \in Methods THEN BoundMethod ELSE None
    BY <1>3 DEF Answer
  <2> QED BY <1>1, <1>2, <1>3, <1>a, <2>1, HasFacts, StaysInOrder DEF Answers, Meets, Ok, Reply
<1>4. CASE op = "getattr"
  <2>1. Answer(c, d) = IF k \in Methods THEN BoundMethod ELSE IF Has(d, k) THEN d[k] ELSE None
    BY <1>4 DEF Answer
  <2> QED BY <1>1, <1>2, <1>4, <1>a, <2>1, HasFacts, StaysInOrder DEF Answers, Meets, Ok, Reply
<1>5. CASE op = "contains"
  <2>1. Answer(c, d) = Has(d, k)
    BY <1>5 DEF Answer
  <2> QED BY <1>1, <1>2, <1>5, <1>a, <2>1, HasFacts, StaysInOrder DEF Answers, Meets, Ok, Reply
<1>6. CASE op = "valuesContains"
  BY <1>1, <1>6 DEF Answers, Exempt, Ok
<1> QED BY <1>3, <1>4, <1>5, <1>6

LEMMA GetAnswers ==
    ASSUME NEW o \in OwnProps, NEW x
    PROVE  Answers("get", x, o)
<1> DEFINE k == x[1]
           c == [op |-> "get", args |-> x]
           d == Mapping(o)
           r == Perform("get", o, x)
<1>1. r = Ok(o, IF JSObjectProxy_get(o, k) = None THEN x[2] ELSE JSObjectProxy_get(o, k))
  BY DEF Perform, JSObjectProxy_get_method
<1>2. /\ Failure(c, d) = "none" /\ Edited(c, d) = d
      /\ Answer(c, d) = IF Has(d, k) THEN d[k] ELSE x[2]
  BY DEF Failure, Edited, Answer
<1>3. k \notin Methods /\ ~Inherits(o, k) => JSObjectProxy_get(o, k) = IF Has(d, k) THEN d[k] ELSE None
  BY HasFacts
<1>4. Has(d, k) => d[k] # None
  BY DEF Has
<1> HIDE DEF r, c, d
<1>5. k \notin Methods /\ ~Inherits(o, k) => r.ret = Answer(c, d)
  BY <1>1, <1>2, <1>3, <1>4 DEF Ok
<1>6. r.obj = o /\ r.err = "none"
  BY <1>1 DEF Ok
<1>7. ~Exempt("get", x, o) => k \notin Methods /\ ~Inherits(o, k)
  BY DEF Exempt
<1> QED BY <1>2, <1>5, <1>6, <1>7, StaysInOrder DEF Answers, Meets, Reply, r, c, d

LEMMA CopyAnswers == \A o \in OwnProps : Answers("copy", <<>>, o)
<1> SUFFICES ASSUME NEW o \in OwnProps PROVE Answers("copy", <<>>, o)
  OBVIOUS
<1> DEFINE c == [op |-> "copy", args |-> <<>>]
           d == Mapping(o)
           q == ObjectAssign(<<>>, o)
<1>1. Perform("copy", o, <<>>) = Ok(o, q)
  BY DEF Perform, JSObjectProxy_copy_method
<1>2. Failure(c, d) = "none" /\ Edited(c, d) = d /\ Answer(c, d) = d
  BY DEF Failure, Edited, Answer
<1>3. o \in PropSeqs /\ IsMap(d)
  BY OwnFacts, MappingFacts
<1>4. Mapping(q) = Overlay(Mapping(<<>>), d)
  BY <1>3, AssignFacts, EmptyMapping
<1>5. Mapping(q) = d
  BY <1>3, <1>4, EmptyMapping
<1> HIDE DEF q
<1> QED BY <1>1, <1>2, <1>5, StaysInOrder DEF Answers, Meets, Ok, Reply

\* Operations that set, delete or look after one property.
LEMMA SetAnswers ==
    ASSUME NEW o \in OwnProps, NEW x, x[1] \in Names, x[2] \in Values \cup {None}
    PROVE  Answers("set", x, o)
<1> DEFINE c == [op |-> "set", args |-> x]
           d == Mapping(o)
           q == SetProperty(o, x[1], x[2])
           r == Perform("set", o, x)
<1>1. r = Ok(q, None)
  BY DEF Perform, JSObjectProxy_assign
<1>2. /\ Failure(c, d) = "none" /\ Edited(c, d) = With(d, x[1], x[2])
      /\ Answer(c, d) = None
  BY DEF Failure, Edited, Answer
<1>3. q \in OwnProps /\ Mapping(q) = With(d, x[1], x[2]) /\ InOrder(o, q)
  BY SetFacts, GrewInOrder
<1> HIDE DEF q, r, c, d
<1>4. r.obj = q /\ r.err = "none" /\ r.ret = None
  BY <1>1 DEF Ok
<1> QED BY <1>2, <1>3, <1>4 DEF Answers, Meets, Reply, r, c, d

LEMMA DelAnswers ==
    ASSUME NEW o \in OwnProps, NEW x
    PROVE  Answers("del", x, o)
<1> DEFINE c == [op |-> "del", args |-> x]
           d == Mapping(o)
           q == DeleteProperty(o, x[1])
           r == Perform("del", o, x)
<1>1. r = Ok(q, None)
  BY DEF Perform, JSObjectProxy_delete
<1>2. /\ Failure(c, d) = "none" /\ Edited(c, d) = Without(d, x[1])
      /\ Answer(c, d) = None
  BY DEF Failure, Edited, Answer
<1>3. q \in OwnProps /\ Mapping(q) = Without(d, x[1]) /\ InOrder(o, q)
  BY DeleteFacts
<1> HIDE DEF q, r, c, d
<1>4. r.obj = q /\ r.err = "none" /\ r.ret = None
  BY <1>1 DEF Ok
<1> QED BY <1>2, <1>3, <1>4 DEF Answers, Meets, Reply, r, c, d

LEMMA SetdefaultAnswers ==
    ASSUME NEW o \in OwnProps, NEW x, x[1] \in Names, x[2] \in Values \cup {None}
    PROVE  Answers("setdefault", x, o)
<1> DEFINE k == x[1]
           c == [op |-> "setdefault", args |-> x]
           d == Mapping(o)
           q == SetProperty(o, k, x[2])
           got == getKey(o, k, TRUE)
           r == Perform("setdefault", o, x)
<1>1. r = IF got = None THEN Ok(q, x[2]) ELSE Ok(o, got)
  BY DEF Perform, JSObjectProxy_setdefault_method, JSObjectProxy_assign
<1>2. /\ Failure(c, d) = "none" /\ Edited(c, d) = (IF Has(d, k) THEN d ELSE With(d, k, x[2]))
      /\ Answer(c, d) = IF Has(d, k) THEN d[k] ELSE x[2]
  BY DEF Failure, Edited, Answer
<1>3. q \in OwnProps /\ Mapping(q) = With(d, k, x[2]) /\ InOrder(o, q) /\ InOrder(o, o)
  BY SetFacts, GrewInOrder, StaysInOrder
<1>4. k \notin Methods /\ ~Inherits(o, k) => got = (IF Has(d, k) THEN d[k] ELSE None)
  BY HasFacts DEF JSObjectProxy_get_subscript
<1>5. Has(d, k) => d[k] # None
  BY DEF Has
<1>6. ~Exempt("setdefault", x, o) => k \notin Methods /\ ~Inherits(o, k)
  BY DEF Exempt
<1> HIDE DEF q, r, c, d, got, k
<1>7. r.err = "none" /\ (got = None => r.obj = q /\ r.ret = x[2]) /\ (got # None => r.obj = o /\ r.ret = got)
  BY <1>1 DEF Ok
<1>8. r.obj \in OwnProps /\ InOrder(o, r.obj)
  BY <1>3, <1>7
<1>9. k \notin Methods /\ ~Inherits(o, k) => Mapping(r.obj) = Edited(c, d) /\ r.ret = Answer(c, d)
  BY <1>2, <1>3, <1>4, <1>5, <1>7 DEF d
<1> QED BY <1>2, <1>6, <1>7, <1>8, <1>9 DEF Answers, Meets, Reply, r, c, d

LEMMA PopAnswers ==
    ASSUME NEW o \in OwnProps, NEW x, x[2] \in {<<>>, <<None>>}
    PROVE  Answers("pop", x, o)
<1> DEFINE k == x[1]
           c == [op |-> "pop", args |-> x]
           d == Mapping(o)
           q == DeleteProperty(o, k)
           h == Has(d, k)
           r == Perform("pop", o, x)
<1>1. /\ h \in BOOLEAN
      /\ ~Inherits(o, k) => (h <=> GetProperty(o, k) # None) /\ (h => GetProperty(o, k) = d[k])
  BY HasFacts DEF Has
<1>2. /\ Failure(c, d) = (IF ~h /\ x[2] = <<>> THEN "KeyError" ELSE "none")
      /\ Edited(c, d) = (IF h THEN Without(d, k) ELSE d)
      /\ Answer(c, d) = IF h THEN d[k] ELSE x[2][1]
  BY DEF Failure, Edited, Answer
<1>3. /\ GetProperty(o, k) # None => r = Ok(q, GetProperty(o, k))
      /\ GetProperty(o, k) = None /\ x[2] # <<>> => r = Ok(o, x[2][1])
      /\ GetProperty(o, k) = None /\ x[2] = <<>> => r = Err(o, "KeyError")
  BY DEF Perform, JSObjectProxy_pop_method, JSObjectProxy_delete
<1>4. q \in OwnProps /\ Mapping(q) = Without(d, k) /\ InOrder(o, q) /\ InOrder(o, o)
  BY DeleteFacts, StaysInOrder
<1>a. Inherits(o, k) => Exempt("pop", x, o)
  BY DEF Exempt
<1>b. Inherits(o, k) => GetProperty(o, k) # None
  BY InheritedFacts
<1> HIDE DEF q, r, c, k, h
<1>5. CASE ~Inherits(o, k) /\ h
  <2>1. r.obj = q /\ r.ret = d[k] /\ r.err = "none"
    BY <1>1, <1>3, <1>5 DEF Ok
  <2> QED BY <1>2, <1>4, <1>5, <2>1 DEF Answers, Meets, Reply, r, c
<1>6. CASE ~Inherits(o, k) /\ ~h /\ x[2] # <<>>
  <2>1. r.obj = o /\ r.ret = x[2][1] /\ r.err = "none"
    BY <1>1, <1>3, <1>6 DEF Ok
  <2> QED BY <1>2, <1>4, <1>6, <2>1 DEF Answers, Meets, Reply, r, c
<1>7. CASE ~Inherits(o, k) /\ ~h /\ x[2] = <<>>
  <2>1. r.obj = o /\ r.err = "KeyError"
    BY <1>1, <1>3, <1>7 DEF Err
  <2> QED BY <1>2, <1>4, <1>7, <2>1 DEF Answers, Meets, Reply, r, c
<1>8. CASE Inherits(o, k)
  <2>1. r.obj = q
    BY <1>3, <1>8, <1>b DEF Ok
  <2> QED BY <1>4, <1>8, <1>a, <2>1 DEF Answers, r
<1> QED BY <1>5, <1>6, <1>7, <1>8

LEMMA ClearAnswers == \A o \in OwnProps : Answers("clear", <<>>, o)
<1> SUFFICES ASSUME NEW o \in OwnProps PROVE Answers("clear", <<>>, o)
  OBVIOUS
<1> DEFINE c == [op |-> "clear", args |-> <<>>]
           d == Mapping(o)
           r == Perform("clear", o, <<>>)
           e == <<>>
<1>1. r.obj = e /\ r.err = "none" /\ r.ret = None
  BY ClearFacts DEF Perform, JSObjectProxy_clear_method, Ok
<1>2. Failure(c, d) = "none" /\ Edited(c, d) = Mapping(e) /\ Answer(c, d) = None
  BY DEF Failure, Edited, Answer
<1>3. e \in OwnProps /\ Len(e) = 0
  BY EmptyMapping
<1> HIDE DEF e, r
<1>4. InOrder(o, e)
  BY <1>3 DEF InOrder
<1> QED BY <1>1, <1>2, <1>3, <1>4 DEF Answers, Meets, Reply, r

\* The other operand of a merge or comparison.
DictLike == [kind : {"dict", "subclass", "proxy"}, props : OwnProps]
Iterable == [kind : {"seq"}, props : Seq(Iterated)]

LEMMA OperandFacts ==
    /\ \A v \in DictLike : /\ IsDict(v) /\ v.kind \in {"dict", "subclass", "proxy"} /\ v.kind # "seq"
                           /\ v.props \in OwnProps /\ v.props \in PropSeqs
                           /\ Merged(v) = Mapping(v.props)
    /\ \A v \in Iterable : ~IsDict(v) /\ v.kind = "seq" /\ v.props \in Seq(Iterated)
<1>1. ASSUME NEW v \in DictLike
      PROVE  /\ IsDict(v) /\ v.kind \in {"dict", "subclass", "proxy"} /\ v.kind # "seq"
             /\ v.props \in OwnProps /\ v.props \in PropSeqs /\ Merged(v) = Mapping(v.props)
  <2>1. v.kind \in {"dict", "subclass", "proxy"} /\ v.props \in OwnProps
    BY DEF DictLike
  <2>2. IsDict(v) /\ v.kind # "seq" /\ v.props \in PropSeqs
    BY <2>1, OwnFacts DEF IsDict
  <2> QED BY <2>1, <2>2 DEF Merged
<1>2. ASSUME NEW v \in Iterable PROVE ~IsDict(v) /\ v.kind = "seq" /\ v.props \in Seq(Iterated)
  BY DEF Iterable, IsDict
<1> QED BY <1>1, <1>2

\* The exception of a merge.
MergeFails(v) == IF ~IsDict(v) /\ Bad(v) # {} THEN MergeErr(v.props[Min(Bad(v))]) ELSE "none"

LEMMA IorFacts ==
    ASSUME NEW o \in OwnProps, NEW v \in DictLike \cup Iterable
    PROVE  LET r == JSObjectProxy_ior(o, v)
           IN  /\ r.obj \in OwnProps /\ Grew(o, r.obj)
               /\ Mapping(r.obj) = Overlay(Mapping(o), Merged(v))
               /\ r.err = MergeFails(v) /\ r.err \in {"none", "TypeError", "ValueError"}
               /\ r.err = "none" => r.ret = "self"
<1> DEFINE r == JSObjectProxy_ior(o, v)
<1>1. CASE v \in DictLike
  <2> DEFINE q == ObjectAssign(o, v.props)
  <2>1. IsDict(v) /\ v.props \in PropSeqs /\ Merged(v) = Mapping(v.props)
    BY <1>1, OperandFacts
  <2>2. r = Ok(q, "self")
    BY <2>1 DEF JSObjectProxy_ior
  <2>3. q \in OwnProps /\ Grew(o, q) /\ Mapping(q) = Overlay(Mapping(o), Merged(v))
    BY <2>1, AssignFacts
  <2> HIDE DEF q, r
  <2>4. r.obj = q /\ r.err = "none" /\ r.ret = "self"
    BY <2>2 DEF Ok
  <2> QED BY <2>1, <2>3, <2>4 DEF r, MergeFails
<1>2. CASE v \in Iterable
  <2> DEFINE m == mergeFromSeq2(o, v)
  <2>1. ~IsDict(v) /\ v.kind = "seq" /\ v.props \in Seq(Iterated)
    BY <1>2, OperandFacts
  <2>2. r = IF m.err = "none" THEN Ok(m.obj, "self") ELSE m
    BY <2>1 DEF JSObjectProxy_ior
  <2>3. /\ m \in Merges /\ Grew(o, m.obj) /\ Mapping(m.obj) = Overlay(Mapping(o), Merged(v))
        /\ m.err = IF Bad(v) = {} THEN "none" ELSE MergeErr(v.props[Min(Bad(v))])
    BY <2>1, MergeFacts
  <2> HIDE DEF m, r
  <2>4. m.obj \in OwnProps /\ m.err \in {"none", "TypeError", "ValueError"}
    BY <2>3 DEF Merges
  <2>5. r.obj = m.obj /\ r.err = m.err /\ (r.err = "none" => r.ret = "self")
    BY <2>2 DEF Ok
  <2> QED BY <2>1, <2>3, <2>4, <2>5 DEF r, MergeFails
<1> QED BY <1>1, <1>2

LEMMA IorAnswers ==
    ASSUME NEW o \in OwnProps, NEW x, x[1] \in DictLike \cup Iterable
    PROVE  Answers("ior", x, o)
<1> DEFINE v == x[1]
           c == [op |-> "ior", args |-> x]
           d == Mapping(o)
           r == Perform("ior", o, x)
<1>1. r = JSObjectProxy_ior(o, v)
  BY DEF Perform
<1>2. /\ Failure(c, d) = MergeFails(v) /\ Edited(c, d) = Overlay(d, Merged(v))
      /\ Answer(c, d) = "self"
  BY DEF Failure, Edited, Answer, MergeFails, MergeErr
<1>3. /\ r.obj \in OwnProps /\ Grew(o, r.obj) /\ Mapping(r.obj) = Overlay(d, Merged(v))
      /\ r.err = MergeFails(v) /\ r.err \in {"none", "TypeError", "ValueError"}
      /\ r.err = "none" => r.ret = "self"
  BY <1>1, IorFacts
<1> HIDE DEF v, r, c, d
<1>4. InOrder(o, r.obj)
  BY <1>3, GrewInOrder
<1>5. r.err # "pending"
  BY <1>3
<1> QED BY <1>2, <1>3, <1>4, <1>5 DEF Answers, Meets, Reply, r, c, d

\* What is no dict, or is of a subclass, is merged as pairs.
LEMMA PairsFacts ==
    ASSUME NEW o \in OwnProps, NEW v \in DictLike \cup Iterable, v.kind \notin {"dict", "proxy"}
    PROVE  LET r == mergeFromSeq2(o, v)
           IN  /\ r.obj \in OwnProps /\ Grew(o, r.obj) /\ r.err \in {"none", "TypeError", "ValueError"}
               /\ ~(v.kind = "subclass" /\ v.props # <<>>) =>
                    Mapping(r.obj) = Overlay(Mapping(o), Merged(v)) /\ r.err = MergeFails(v)
<1> DEFINE r == mergeFromSeq2(o, v)
           p == v.props
<1>1. CASE v \in Iterable
  <2>1. ~IsDict(v) /\ v.kind = "seq" /\ v.props \in Seq(Iterated)
    BY <1>1, OperandFacts
  <2>2. /\ r \in Merges /\ Grew(o, r.obj) /\ Mapping(r.obj) = Overlay(Mapping(o), Merged(v))
        /\ r.err = IF Bad(v) = {} THEN "none" ELSE MergeErr(v.props[Min(Bad(v))])
    BY <2>1, MergeFacts
  <2> HIDE DEF r
  <2> QED BY <2>1, <2>2 DEF Merges, MergeFails, r
<1>2. CASE v \in DictLike
  <2>1. IsDict(v) /\ v.kind = "subclass" /\ p \in OwnProps /\ p \in PropSeqs /\ Merged(v) = Mapping(p)
    BY <1>2, OperandFacts
  <2> DEFINE s == [i \in 1..Len(p) |-> Letters[p[i][1]]]
  <2>2. Len(p) \in Nat /\ DOMAIN p = 1..Len(p) /\ \A i \in 1..Len(p) : p[i][1] \in Names
    BY <2>1, PropFacts
  <2>3. Elements(v) = s
    BY <2>1, <2>2 DEF Elements
  <2>4. s \in Seq(Iterated) /\ Len(s) = Len(p)
    <3>1. \A i \in 1..Len(p) : Letters[p[i][1]] \in Iterated
      BY <2>2 DEF Iterated
    <3> QED BY <2>2, <3>1
  <2> HIDE DEF s
  <2>5. r \in Merges /\ Merging(o, s, Len(s), r)
    BY <2>3, <2>4, MergeEnds
  <2> HIDE DEF r
  <2>6. r.obj \in OwnProps /\ Grew(o, r.obj) /\ r.err \in {"none", "TypeError", "ValueError"}
    BY <2>5 DEF Merges, Merging
  <2>7. ASSUME p = <<>> PROVE Mapping(r.obj) = Overlay(Mapping(o), Merged(v)) /\ r.err = MergeFails(v)
    <3>1. Len(s) = 0 /\ Merging(o, s, 0, r)
      BY <2>4, <2>5, <2>7
    <3>2. \A m \in 1..0 : FALSE
      OBVIOUS
    <3>3. r.err = "none"
      BY <3>1, <3>2 DEF Merging
    <3>4. Mapping(r.obj) = Overlay(Mapping(o), Mapping(SubSeq(s, 1, 0)))
      BY <3>1, <3>3 DEF Merging
    <3>5. SubSeq(s, 1, 0) = <<>>
      BY <2>4, PrefixAppends
    <3> QED BY <2>1, <2>7, <3>3, <3>4, <3>5 DEF MergeFails
  <2> QED BY <2>1, <2>6, <2>7 DEF r
<1> QED BY <1>1, <1>2

LEMMA UpdateAnswers ==
    ASSUME NEW o \in OwnProps, NEW x, x[1] \in DictLike \cup Iterable, x[2] \in DictLike
    PROVE  Answers("update", x, o)
<1> DEFINE v == x[1]
           w == x[2]
           c == [op |-> "update", args |-> x]
           d == Mapping(o)
           i == IF v.kind \in {"dict", "proxy"} THEN JSObjectProxy_ior(o, v) ELSE mergeFromSeq2(o, v)
           j == JSObjectProxy_ior(i.obj, w)
           r == Perform("update", o, x)
<1>1. r = IF i.err # "none" THEN i ELSE Ok(j.obj, None)
  BY DEF Perform, JSObjectProxy_update_method
<1>2. Failure(c, d) = MergeFails(v) /\ Answer(c, d) = None
  BY DEF Failure, Answer, MergeFails, MergeErr
<1>3. Edited(c, d) = IF MergeFails(v) # "none" THEN Overlay(d, Merged(v))
                     ELSE Overlay(Overlay(d, Merged(v)), Mapping(w.props))
  BY <1>2 DEF Edited
<1>4. /\ i.obj \in OwnProps /\ Grew(o, i.obj) /\ i.err \in {"none", "TypeError", "ValueError"}
      /\ ~Exempt("update", x, o) => Mapping(i.obj) = Overlay(d, Merged(v)) /\ i.err = MergeFails(v)
  <2>1. CASE v.kind \in {"dict", "proxy"}
    BY <2>1, IorFacts
  <2>2. CASE v.kind \notin {"dict", "proxy"}
    <3> HIDE DEF v
    <3>1. Exempt("update", x, o) <=> v.kind = "subclass" /\ v.props # <<>>
      BY DEF Exempt, v
    <3> QED BY <2>2, <3>1, PairsFacts DEF v
  <2> QED BY <2>1, <2>2
<1> HIDE DEF v, c, d, i
<1>5. /\ j.obj \in OwnProps /\ Grew(i.obj, j.obj) /\ Mapping(j.obj) = Overlay(Mapping(i.obj), Merged(w))
  BY <1>4, IorFacts
<1>6. Merged(w) = Mapping(w.props)
  BY OperandFacts
<1> HIDE DEF w, j, r
<1>7. Grew(o, j.obj) /\ InOrder(o, j.obj) /\ InOrder(o, i.obj)
  BY <1>4, <1>5, GrewOn, GrewInOrder
<1>8. CASE i.err # "none"
  <2>1. r = i /\ r.err # "pending" /\ (r.err = "none" => r.ret = None)
    BY <1>1, <1>4, <1>8
  <2> QED BY <1>2, <1>3, <1>4, <1>7, <1>8, <2>1 DEF Answers, Meets, Reply, r, c, d
<1>9. CASE i.err = "none"
  <2>1. r.obj = j.obj /\ r.err = "none" /\ r.ret = None
    BY <1>1, <1>9 DEF Ok
  <2>2. ~Exempt("update", x, o) => Mapping(r.obj) = Edited(c, d)
    BY <1>3, <1>4, <1>5, <1>6, <1>9, <2>1
  <2> QED BY <1>2, <1>4, <1>5, <1>7, <1>9, <2>1, <2>2 DEF Answers, Meets, Reply, r, c, d
<1> QED BY <1>8, <1>9

LEMMA OrAnswers ==
    ASSUME NEW o \in OwnProps, NEW x, x[1] \in DictLike \cup Iterable
    PROVE  Answers("or", x, o)
<1> DEFINE v == x[1]
           c == [op |-> "or", args |-> x]
           d == Mapping(o)
           q == ObjectAssign(<<>>, o)
           s == ObjectAssign(q, v.props)
           r == Perform("or", o, x)
<1>1. /\ IsDict(v) => r = Ok(o, s)
      /\ ~IsDict(v) => r = Err(o, "NotImplemented")
  BY DEF Perform, JSObjectProxy_or
<1>2. /\ Failure(c, d) = (IF IsDict(v) THEN "none" ELSE "NotImplemented")
      /\ Edited(c, d) = d /\ Answer(c, d) = Overlay(d, Mapping(v.props))
  BY DEF Failure, Edited, Answer
<1>3. o \in PropSeqs /\ IsMap(d) /\ InOrder(o, o)
  BY OwnFacts, MappingFacts, StaysInOrder
<1>4. q \in OwnProps /\ Mapping(q) = d
  <2>1. q \in OwnProps /\ Mapping(q) = Overlay(Mapping(<<>>), d)
    BY <1>3, AssignFacts, EmptyMapping
  <2> QED BY <1>3, <2>1, EmptyMapping
<1> HIDE DEF v, c, d, q, r
<1>5. CASE v \in DictLike
  <2>1. IsDict(v) /\ v.props \in PropSeqs
    BY <1>5, OperandFacts
  <2>2. Mapping(s) = Overlay(d, Mapping(v.props))
    BY <1>4, <2>1, AssignFacts
  <2> HIDE DEF s
  <2>3. r.obj = o /\ r.err = "none" /\ r.ret = s
    BY <1>1, <2>1 DEF Ok
  <2> QED BY <1>2, <1>3, <2>1, <2>2, <2>3 DEF Answers, Meets, Reply, r, c, d
<1>6. CASE v \in Iterable
  <2>1. ~IsDict(v)
    BY <1>6, OperandFacts
  <2>2. r.obj = o /\ r.err = "NotImplemented"
    BY <1>1, <2>1 DEF Err
  <2> QED BY <1>2, <1>3, <2>1, <2>2 DEF Answers, Meets, Reply, r, c, d
<1> QED BY <1>5, <1>6 DEF v

LEMMA OwnSubscripts ==
    ASSUME NEW o \in OwnProps, ~Undefined(o)
    PROVE  /\ \A i \in 1..Len(o) : /\ o[i][2] # None
                                   /\ JSObjectProxy_get_subscript(o, o[i][1]) = o[i][2]
           /\ [i \in DOMAIN o |-> <<o[i][1], JSObjectProxy_get_subscript(o, o[i][1])>>] = o
<1>0. o \in PropSeqs /\ DOMAIN o = 1..Len(o)
  BY PropFacts, OwnFacts
<1>1. ASSUME NEW i \in 1..Len(o)
      PROVE  o[i][2] # None /\ JSObjectProxy_get_subscript(o, o[i][1]) = o[i][2]
  <2> DEFINE k == o[i][1]
  <2>1. o[i][2] # None
    BY <1>0 DEF Undefined
  <2>2. k \in DOMAIN Mapping(o) /\ Mapping(o)[k] = o[i][2]
    BY OwnFacts
  <2> HIDE DEF k
  <2>3. Has(Mapping(o), k)
    BY <2>1, <2>2 DEF Has
  <2>a. ~Inherits(o, k)
    BY <2>2, OwnNotInherited
  <2>4. JSObjectProxy_get_subscript(o, k) = Mapping(o)[k]
    BY <2>3, <2>a, HasFacts
  <2> QED BY <2>1, <2>2, <2>4 DEF k
<1> DEFINE E(i) == <<o[i][1], JSObjectProxy_get_subscript(o, o[i][1])>>
<1>2. \A i \in 1..Len(o) : E(i) = o[i]
  <2>1. \A i \in 1..Len(o) : o[i] = <<o[i][1], o[i][2]>>
    BY <1>0, PropFacts
  <2> QED BY <1>1, <2>1
<1> HIDE DEF E
<1>3. o = [i \in 1..Len(o) |-> o[i]]
  BY <1>0, PropFacts
<1>4. [i \in 1..Len(o) |-> E(i)] = [i \in 1..Len(o) |-> o[i]]
  BY <1>2
<1>5. [i \in DOMAIN o |-> E(i)] = o
  BY <1>0, <1>3, <1>4
<1> QED BY <1>1, <1>5 DEF E

LEMMA RorAnswers ==
    ASSUME NEW o \in OwnProps, NEW x, x[1] \in DictLike \cup Iterable
    PROVE  Answers("ror", x, o)
<1> DEFINE v == x[1]
           c == [op |-> "ror", args |-> x]
           d == Mapping(o)
           t == [i \in DOMAIN o |-> <<o[i][1], JSObjectProxy_get_subscript(o, o[i][1])>>]
           s == ObjectAssign(v.props, t)
           r == Perform("ror", o, x)
<1>1. /\ IsDict(v) => r = Ok(o, s)
      /\ ~IsDict(v) => r = Err(o, "NotImplemented")
  BY DEF Perform, JSObjectProxy_or
<1>2. /\ Failure(c, d) = (IF IsDict(v) THEN "none" ELSE "NotImplemented")
      /\ Edited(c, d) = d /\ Answer(c, d) = Overlay(Mapping(v.props), d)
  BY DEF Failure, Edited, Answer
<1>3. o \in PropSeqs /\ InOrder(o, o)
  BY OwnFacts, StaysInOrder
<1>4. ~Exempt("ror", x, o) => t = o
  BY OwnSubscripts DEF Exempt
<1> HIDE DEF v, c, d, r, t
<1>5. CASE v \in DictLike
  <2>1. IsDict(v) /\ v.props \in OwnProps
    BY <1>5, OperandFacts
  <2>2. ~Exempt("ror", x, o) => Mapping(s) = Overlay(Mapping(v.props), d)
    BY <1>3, <1>4, <2>1, AssignFacts DEF d
  <2> HIDE DEF s
  <2>3. r.obj = o /\ r.err = "none" /\ r.ret = s
    BY <1>1, <2>1 DEF Ok
  <2> QED BY <1>2, <1>3, <2>1, <2>2, <2>3 DEF Answers, Meets, Reply, r, c, d
<1>6. CASE v \in Iterable
  <2>1. ~IsDict(v)
    BY <1>6, OperandFacts
  <2>2. r.obj = o /\ r.err = "NotImplemented"
    BY <1>1, <2>1 DEF Err
  <2> QED BY <1>2, <1>3, <2>1, <2>2 DEF Answers, Meets, Reply, r, c, d
<1> QED BY <1>5, <1>6 DEF v

\* What a comparison with a mapping finds different.
LEMMA DiffersWhen ==
    ASSUME NEW o \in OwnProps, NEW v \in DictLike, ~Undefined(o), ~Undefined(v.props), NEW i \in 1..Len(o)
    PROVE  LET k == o[i][1]
           IN  Differs(o, v, k) <=> ~(k \in DOMAIN Mapping(v.props) /\ Mapping(v.props)[k] = Mapping(o)[k])
<1> DEFINE k == o[i][1]
           p == v.props
           d == Mapping(o)
           e == Mapping(p)
<1>1. p \in OwnProps /\ p \in PropSeqs /\ v.kind \in {"dict", "subclass", "proxy"} /\ v.kind # "seq"
  BY OperandFacts
<1>2. k \in DOMAIN d /\ d[k] \in Values \cup {None} /\ d[k] # None /\ JSObjectProxy_get_subscript(o, k) = d[k]
  BY OwnFacts, OwnSubscripts
<1>3. d[k] # BoundMethod
  BY <1>2, ObjectProxyAssumption
<1>4. PlaceOf(p, k) = {} <=> k \notin DOMAIN e
  BY <1>1, MappingFacts
<1>5. k \in DOMAIN e => e[k] # None
  <2> SUFFICES ASSUME k \in DOMAIN e PROVE e[k] # None
    OBVIOUS
  <2>1. PICK j \in 1..Len(p) : p[j][1] = k
    BY <1>1, OwnFacts
  <2>2. e[p[j][1]] = p[j][2]
    BY <1>1, <2>1, OwnFacts
  <2>3. p[j][2] # None
    BY <1>1, <2>1, OwnSubscripts
  <2> QED BY <2>1, <2>2, <2>3
<1>6. k \in DOMAIN e => OwnProperty(p, k) = e[k]
  BY <1>1, OwnFacts
<1>7. ~Inherits(p, k) =>
        JSObjectProxy_get_subscript(p, k) = IF Has(e, k) THEN e[k] ELSE IF k \in Methods THEN BoundMethod ELSE None
  BY <1>1, HasFacts
<1>a. Inherits(p, k) => /\ k \notin DOMAIN e
                        /\ JSObjectProxy_get_subscript(p, k) \notin Values \cup {None}
  BY <1>1, <1>4, InheritedFacts DEF Inherits
<1>8. Has(e, k) <=> k \in DOMAIN e
  BY <1>5 DEF Has
<1>9. Lacks(v, k) <=> v.kind # "proxy" /\ k \notin DOMAIN e
  BY <1>1, <1>4 DEF Lacks
<1> HIDE DEF k, d, e
<1>10. v.kind = "proxy" => /\ k \in DOMAIN e => GetItem(v, k) = e[k]
                           /\ k \notin DOMAIN e => GetItem(v, k) \notin Values
  <2> SUFFICES ASSUME v.kind = "proxy"
               PROVE  /\ k \in DOMAIN e => GetItem(v, k) = e[k]
                      /\ k \notin DOMAIN e => GetItem(v, k) \notin Values
    OBVIOUS
  <2>1. GetItem(v, k) = JSObjectProxy_get_subscript(p, k)
    BY DEF GetItem
  <2>2. None \notin Values /\ BoundMethod \notin Values
    BY ObjectProxyAssumption
  <2>3. CASE Inherits(p, k)
    BY <1>a, <2>1, <2>3
  <2>4. CASE ~Inherits(p, k)
    BY <1>7, <1>8, <2>1, <2>2, <2>4
  <2> QED BY <2>3, <2>4
<1>11. v.kind # "proxy" /\ k \in DOMAIN e => GetItem(v, k) = e[k]
  BY <1>6 DEF GetItem
<1>12. Differs(o, v, k) <=> Lacks(v, k) \/ d[k] # GetItem(v, k)
  BY <1>2 DEF Differs
<1>13. CASE v.kind = "proxy"
  BY <1>2, <1>3, <1>9, <1>10, <1>12, <1>13 DEF k, d, e
<1>14. CASE v.kind # "proxy"
  BY <1>9, <1>11, <1>12, <1>14 DEF k, d, e
<1> QED BY <1>13, <1>14

LEMMA CompareAnswers ==
    ASSUME NEW o \in OwnProps, NEW x, x[1] \in DictLike \cup Iterable, x[2] \in {"==", "!=", "<"}
    PROVE  Answers("compare", x, o)
<1> DEFINE v == x[1]
           c == [op |-> "compare", args |-> x]
           d == Mapping(o)
           e == Mapping(v.props)
           different == {i \in DOMAIN o : Differs(o, v, o[i][1])}
           m == JSObjectProxy_richcompare_helper(o, v)
           r == Perform("compare", o, x)
<1>1. r = IF x[2] \notin {"==", "!="} THEN Err(o, "NotImplemented")
          ELSE [m EXCEPT !.ret = IF x[2] = "==" THEN @ ELSE ~@]
  BY DEF Perform, JSObjectProxy_richcompare
<1>2. m = IF different # {} /\ Lacks(v, o[Min(different)][1])
          THEN [Ok(o, FALSE) EXCEPT !.err = "pending"]
          ELSE Ok(o, different = {})
  BY DEF JSObjectProxy_richcompare_helper
<1> HIDE DEF m
<1>3. DOMAIN o = 1..Len(o) /\ o \in PropSeqs /\ InOrder(o, o) /\ IsMap(d)
  BY PropFacts, OwnFacts, StaysInOrder, MappingFacts
<1>4. \A i : i \in different <=> i \in 1..Len(o) /\ Differs(o, v, o[i][1])
  BY <1>3
<1>5. /\ Failure(c, d) = (IF x[2] = "<" THEN "NotImplemented" ELSE "none")
      /\ Edited(c, d) = d /\ Answer(c, d) = Relation(x[2], d, e)
  BY DEF Failure, Edited, Answer
<1> HIDE DEF different, c, d, e, r, v
<1>6. CASE x[2] = "<"
  <2>1. r.obj = o /\ r.err = "NotImplemented"
    BY <1>1, <1>6 DEF Err
  <2> QED BY <1>3, <1>5, <1>6, <2>1 DEF Answers, Meets, Reply, r, c, d
<1>7. CASE x[2] # "<"
  <2>1. m.obj = o /\ m.err \in {"none", "pending"} /\ (m.err = "none" => m.ret = (different = {}))
        /\ m.ret \in BOOLEAN
    BY <1>2 DEF Ok
  <2>a. m = [obj |-> m.obj, ret |-> m.ret, err |-> m.err]
    BY <1>2 DEF Ok
  <2>2. r = [m EXCEPT !.ret = IF x[2] = "==" THEN @ ELSE ~@]
    BY <1>1, <1>7
  <2>3. r.obj = o /\ r.err = m.err /\ r.ret = (IF x[2] = "==" THEN m.ret ELSE ~m.ret)
    BY <2>1, <2>2, <2>a
  <2>4. CASE Exempt("compare", x, o)
    BY <1>3, <2>3, <2>4 DEF Answers, r
  <2>5. CASE ~Exempt("compare", x, o)
    <3>1. v.kind # "seq" /\ ~Extra(v, o) /\ ~Undefined(o) /\ ~Undefined(v.props)
      BY <1>7, <2>5 DEF Exempt, v
    <3>2. v \in DictLike
      BY <3>1, OperandFacts DEF v
    <3>3. v.props \in PropSeqs /\ IsMap(e)
      BY <3>2, OperandFacts, MappingFacts DEF e
    <3>4. \A k \in DOMAIN e : k \in DOMAIN d
      BY <3>1 DEF Extra, d, e
    <3>5. /\ \A i \in 1..Len(o) : o[i][1] \in DOMAIN d
          /\ \A k \in DOMAIN d : \E i \in 1..Len(o) : o[i][1] = k
      BY OwnFacts DEF d
    <3>6. \A i \in 1..Len(o) : i \in different <=> ~(o[i][1] \in DOMAIN e /\ e[o[i][1]] = d[o[i][1]])
      BY <1>4, <3>1, <3>2, DiffersWhen DEF d, e
    <3>7. different = {} <=> \A k \in DOMAIN d : k \in DOMAIN e /\ e[k] = d[k]
      BY <1>4, <3>5, <3>6
    <3>8. (\A k \in DOMAIN d : k \in DOMAIN e /\ e[k] = d[k]) <=> d = e
      <4>1. ASSUME \A k \in DOMAIN d : k \in DOMAIN e /\ e[k] = d[k] PROVE d = e
        <5>1. DOMAIN d = DOMAIN e
          BY <3>4, <4>1
        <5> QED BY <1>3, <3>3, <4>1, <5>1, SameFunction
      <4> QED BY <4>1
    <3>9. m.err = "none" => (m.ret <=> d = e)
      BY <2>1, <3>7, <3>8
    <3>10. r.err = "none" => r.ret = Relation(x[2], d, e)
      <4> SUFFICES ASSUME r.err = "none" PROVE r.ret = Relation(x[2], d, e)
        OBVIOUS
      <4>1. m.ret = (d = e)
        BY <2>1, <2>3, <3>9
      <4>2. CASE x[2] = "=="
        BY <2>3, <4>1, <4>2 DEF Relation
      <4>3. CASE x[2] = "!="
        BY <2>3, <4>1, <4>3 DEF Relation
      <4> QED BY <1>7, <4>2, <4>3
    <3>11. Failure(c, d) = "none" /\ (IF r.err = "pending" THEN "none" ELSE r.err) = "none"
      BY <1>5, <1>7, <2>1, <2>3
    <3>12. Reply("compare", r) = r.ret
      BY DEF Reply
    <3> QED BY <1>3, <1>5, <2>3, <3>10, <3>11, <3>12 DEF Answers, Meets, r, c, d
  <2> QED BY <2>4, <2>5
<1> QED BY <1>6, <1>7

\* The other operand of an operation on the keys.
KeyedLike == [kind : {"set", "dictKeys", "proxyKeys", "list"}, props : {p \in OwnProps : ~Undefined(p)}]

LEMMA KeyedFacts ==
    ASSUME NEW w, w.props \in OwnProps, ~Undefined(w.props)
    PROVE  /\ \A k : ~(w.kind = "proxyKeys" /\ Inherits(w.props, k)) => (Holds(w, k) <=> k \in NamesOf(w))
           /\ {w.props[i][1] : i \in DOMAIN w.props} = NamesOf(w)
           /\ IsFiniteSet(NamesOf(w)) /\ Cardinality(NamesOf(w)) = Len(w.props) /\ Len(w.props) \in Nat
           /\ \A i \in DOMAIN w.props : w.props[i][1] \in NamesOf(w)
           /\ \A k \in NamesOf(w) : \E i \in DOMAIN w.props : w.props[i][1] = k
<1> DEFINE p == w.props
<1>1. p \in PropSeqs /\ DOMAIN p = 1..Len(p)
  BY PropFacts, OwnFacts
<1>2. ASSUME NEW k, ~(w.kind = "proxyKeys" /\ Inherits(p, k)) PROVE Holds(w, k) <=> k \in NamesOf(w)
  <2>1. PlaceOf(p, k) # {} <=> k \in NamesOf(w)
    BY <1>1, MappingFacts DEF NamesOf
  <2>2. ~Inherits(p, k) => (JSObjectProxy_contains(p, k) <=> k \in NamesOf(w))
    <3>1. k \in DOMAIN Mapping(p) => Mapping(p)[k] # None
      <4> SUFFICES ASSUME k \in DOMAIN Mapping(p) PROVE Mapping(p)[k] # None
        OBVIOUS
      <4>1. PICK j \in 1..Len(p) : p[j][1] = k
        BY OwnFacts
      <4>2. Mapping(p)[p[j][1]] = p[j][2]
        BY <4>1, OwnFacts
      <4>3. p[j][2] # None
        BY <4>1, OwnSubscripts
      <4> QED BY <4>1, <4>2, <4>3
    <3>2. ~Inherits(p, k) => JSObjectProxy_contains(p, k) = Has(Mapping(p), k)
      BY HasFacts
    <3> QED BY <3>1, <3>2 DEF Has, NamesOf
  <2> QED BY <1>2, <2>1, <2>2 DEF Holds
<1>3. \A i \in DOMAIN p : p[i][1] \in NamesOf(w)
  BY <1>1, OwnFacts DEF NamesOf
<1>4. \A k \in NamesOf(w) : \E i \in DOMAIN p : p[i][1] = k
  <2>1. \A k \in DOMAIN Mapping(p) : \E i \in 1..Len(p) : p[i][1] = k
    BY OwnFacts
  <2> QED BY <1>1, <2>1 DEF NamesOf
<1>5. {p[i][1] : i \in DOMAIN p} = NamesOf(w)
  BY <1>3, <1>4
<1>6. IsFiniteSet(NamesOf(w)) /\ Cardinality(NamesOf(w)) = Len(p) /\ Len(p) \in Nat
  BY KeyCount DEF NamesOf
<1> QED BY <1>2, <1>3, <1>4, <1>5, <1>6

LEMMA ViewFacts ==
    ASSUME NEW o \in OwnProps
    PROVE  View(o).kind = "proxyKeys" /\ View(o).props = o /\ NamesOf(View(o)) = DOMAIN Mapping(o)
           /\ IsView(View(o))
  BY DEF View, NamesOf, IsView

LEMMA KeyedKinds ==
    ASSUME NEW w \in KeyedLike
    PROVE  w.kind \in {"set", "dictKeys", "proxyKeys", "list"} /\ w.props \in OwnProps /\ ~Undefined(w.props)
  BY DEF KeyedLike

LEMMA KeysCompareAnswers ==
    ASSUME NEW o \in OwnProps, NEW x, x[1] \in KeyedLike, x[2] \in {"==", "!=", "<", "<=", ">", ">="}
    PROVE  Answers("keysCompare", x, o)
<1> DEFINE w == x[1]
           c == [op |-> "keysCompare", args |-> x]
           d == Mapping(o)
           S == DOMAIN d
           T == NamesOf(w)
           r == Perform("keysCompare", o, x)
           a == JSObjectProxy_length(o)
           b == IF w.kind = "proxyKeys" THEN JSObjectProxy_length(o) ELSE Len(w.props)
           within == all_contained_in(View(o), w)
           around == all_contained_in(w, View(o))
           answer == CASE x[2] = "==" -> a = b /\ within
                       [] x[2] = "!=" -> ~(a = b /\ within)
                       [] x[2] = "<" -> a < b /\ within
                       [] x[2] = "<=" -> a <= b /\ within
                       [] x[2] = ">" -> a > b /\ around
                       [] x[2] = ">=" -> a >= b /\ around
<1>1. r = IF w.kind = "list" THEN Err(o, "NotImplemented") ELSE Ok(o, answer)
  BY DEF Perform, JSObjectKeysProxy_richcompare
<1>2. /\ Failure(c, d) = (IF w.kind = "list" THEN "NotImplemented" ELSE "none")
      /\ Edited(c, d) = d /\ Answer(c, d) = Relation(x[2], S, T)
  BY DEF Failure, Edited, Answer
<1>3. InOrder(o, o)
  BY StaysInOrder
<1>4. w.kind \in {"set", "dictKeys", "proxyKeys", "list"} /\ w.props \in OwnProps /\ ~Undefined(w.props)
  BY KeyedKinds
<1>5. ASSUME w.kind # "list", ~Exempt("keysCompare", x, o) PROVE answer = Relation(x[2], S, T)
  <2>1. w.kind # "proxyKeys" /\ x[2] \notin {">", ">="} /\ ~Undefined(o)
    BY <1>5 DEF Exempt
  <2>2. IsFiniteSet(T) /\ Cardinality(T) = b /\ b \in Nat /\ \A k : Holds(w, k) <=> k \in T
    BY <1>4, <2>1, KeyedFacts
  <2>3. IsFiniteSet(S) /\ Cardinality(S) = a /\ a \in Nat
    BY KeyCount
  <2>4. /\ \A i \in DOMAIN o : o[i][1] \in S
        /\ \A k \in S : \E i \in DOMAIN o : o[i][1] = k
    BY PropFacts, OwnFacts
  <2>5. within <=> \A i \in DOMAIN o : Holds(w, o[i][1])
    BY <2>1, ViewFacts DEF all_contained_in
  <2> HIDE DEF S, T, a, b, w, within, around
  <2>6. within <=> S \subseteq T
    BY <2>2, <2>4, <2>5
  <2>7. S \subseteq T => a <= b /\ (a = b => S = T)
    <3> SUFFICES ASSUME S \in SUBSET T PROVE a <= b /\ (a = b => S = T)
      OBVIOUS
    <3> QED BY <2>2, <2>3, FS_Subset
  <2>8. S = T => a = b
    BY <2>2, <2>3
  <2>a. within \in BOOLEAN
    BY DEF within, all_contained_in
  <2>9. CASE x[2] = "=="
    BY <2>6, <2>7, <2>8, <2>9 DEF Relation
  <2>10. CASE x[2] = "!="
    BY <2>6, <2>7, <2>8, <2>10 DEF Relation
  <2>11. CASE x[2] = "<"
    <3>1. answer = (a < b /\ within) /\ Relation(x[2], S, T) = (S \subseteq T /\ S # T)
      BY <2>11 DEF Relation
    <3>2. (a < b /\ within) <=> (S \subseteq T /\ S # T)
      BY <2>2, <2>3, <2>6, <2>7, <2>8
    <3> QED BY <3>1, <3>2
  <2>12. CASE x[2] = "<="
    <3>1. answer = (a <= b /\ within) /\ Relation(x[2], S, T) = (S \subseteq T)
      BY <2>12 DEF Relation
    <3>2. (a <= b /\ within) <=> (S \subseteq T)
      BY <2>6, <2>7
    <3> QED BY <3>1, <3>2
  <2> QED BY <2>1, <2>9, <2>10, <2>11, <2>12
<1> HIDE DEF answer, r, S, T, c, d
<1>6. CASE w.kind = "list"
  <2>1. r.obj = o /\ r.err = "NotImplemented"
    BY <1>1, <1>6 DEF Err
  <2> QED BY <1>2, <1>3, <1>6, <2>1 DEF Answers, Meets, Reply, r, c, d
<1>7. CASE w.kind # "list"
  <2>1. r.obj = o /\ r.err = "none" /\ r.ret = answer
    BY <1>1, <1>7 DEF Ok
  <2> QED BY <1>2, <1>3, <1>5, <1>7, <2>1 DEF Answers, Meets, Reply, r, c, d
<1> QED BY <1>6, <1>7

\* l holds of the keys of q just those that it has.
Exact(l, q) == \A k \in NamesOf(q) : Holds(l, k) <=> k \in NamesOf(l)

LEMMA ExactUnlessCrossed ==
    ASSUME NEW o \in OwnProps, NEW w, w.props \in OwnProps, ~Undefined(o), ~Undefined(w.props), ~Crossed(o, w)
    PROVE  Exact(View(o), w) /\ Exact(w, View(o))
<1>1. View(o).kind = "proxyKeys" /\ View(o).props = o /\ NamesOf(View(o)) = DOMAIN Mapping(o)
  BY ViewFacts
<1>2. ASSUME NEW k \in NamesOf(w) PROVE Holds(View(o), k) <=> k \in NamesOf(View(o))
  <2>1. ~Inherits(o, k)
    BY DEF Crossed
  <2> QED BY <1>1, <2>1, KeyedFacts
<1>3. ASSUME NEW k \in NamesOf(View(o)) PROVE Holds(w, k) <=> k \in NamesOf(w)
  <2>1. PICK i \in 1..Len(o) : o[i][1] = k
    BY <1>1, OwnFacts
  <2>2. i \in DOMAIN o
    BY PropFacts, OwnFacts
  <2>3. ~(w.kind = "proxyKeys" /\ Inherits(w.props, k))
    BY <2>1, <2>2 DEF Crossed
  <2> QED BY <2>3, KeyedFacts
<1> QED BY <1>2, <1>3 DEF Exact

LEMMA IntersectGives ==
    ASSUME NEW o, NEW l, NEW q, l.props \in OwnProps, q.props \in OwnProps,
           ~Undefined(l.props), ~Undefined(q.props), Exact(l, q), Exact(q, l)
    PROVE  JSObjectKeysProxy_intersect(o, l, q) = Ok(o, NamesOf(l) \cap NamesOf(q))
<1> DEFINE this == IF IsView(l) THEN l ELSE q
           other == IF IsView(l) THEN q ELSE l
           len_self == IF this.kind = "proxyKeys" THEN JSObjectKeysProxy_length(this) ELSE dictview_len(this)
           swap == IsView(other) /\ dictview_len(other) > len_self
           from == IF swap THEN this ELSE other
           into == IF swap THEN other ELSE this
           keysOf(w) == {w.props[i][1] : i \in DOMAIN w.props}
           few == other.kind = "set" /\ len_self <= Len(other.props)
<1>1. JSObjectKeysProxy_intersect(o, l, q) =
        IF few THEN Ok(o, keysOf(other) \cap keysOf(this)) ELSE Ok(o, {k \in keysOf(from) : Holds(into, k)})
  BY DEF JSObjectKeysProxy_intersect
<1>2. (this = l /\ other = q) \/ (this = q /\ other = l)
  OBVIOUS
<1>3. (from = this /\ into = other) \/ (from = other /\ into = this)
  OBVIOUS
<1>4. keysOf(l) = NamesOf(l) /\ keysOf(q) = NamesOf(q)
  BY KeyedFacts
<1>5. /\ \A k \in NamesOf(q) : Holds(l, k) <=> k \in NamesOf(l)
      /\ \A k \in NamesOf(l) : Holds(q, k) <=> k \in NamesOf(q)
  BY DEF Exact
<1> DEFINE both == NamesOf(l) \cap NamesOf(q)
<1> HIDE DEF this, other, from, into, few, keysOf, swap, len_self
<1>6. keysOf(other) \cap keysOf(this) = both
  BY <1>2, <1>4
<1>7. {k \in keysOf(from) : Holds(into, k)} = both
  <2>1. (from = l /\ into = q) \/ (from = q /\ into = l)
    BY <1>2, <1>3
  <2>2. CASE from = l /\ into = q
    BY <1>4, <1>5, <2>2
  <2>3. CASE from = q /\ into = l
    BY <1>4, <1>5, <2>3
  <2> QED BY <2>1, <2>2, <2>3
<1> HIDE DEF both
<1>8. JSObjectKeysProxy_intersect(o, l, q) = Ok(o, both)
  BY <1>1, <1>6, <1>7, Zenon
<1> QED BY <1>8 DEF both

\* `and`, `rand`: one of the operands is the view of the object.
LEMMA AndAnswers ==
    ASSUME NEW o \in OwnProps, NEW x, x[1] \in KeyedLike, NEW op \in {"and", "rand"}
    PROVE  Answers(op, x, o)
<1> DEFINE w == x[1]
           c == [op |-> op, args |-> x]
           d == Mapping(o)
           r == Perform(op, o, x)
           both == DOMAIN d \cap NamesOf(w)
<1>1. r = IF op = "and" THEN JSObjectKeysProxy_intersect(o, View(o), w)
          ELSE JSObjectKeysProxy_intersect(o, w, View(o))
  BY DEF Perform
<1>2. Failure(c, d) = "none" /\ Edited(c, d) = d /\ Answer(c, d) = both
  BY DEF Failure, Edited, Answer
<1>3. InOrder(o, o)
  BY StaysInOrder
<1>4. w.props \in OwnProps /\ ~Undefined(w.props)
  BY KeyedKinds
<1>5. View(o).props = o /\ NamesOf(View(o)) = DOMAIN d
  BY ViewFacts
<1> HIDE DEF r, c, w
<1>6. r.obj = o /\ r.err = "none"
  BY <1>1 DEF JSObjectKeysProxy_intersect, Ok
<1>7. ~Undefined(o) /\ ~Crossed(o, w) => r.ret = both
  <2> SUFFICES ASSUME ~Undefined(o), ~Crossed(o, w) PROVE r.ret = both
    OBVIOUS
  <2>a. Exact(View(o), w) /\ Exact(w, View(o))
    BY <1>4, ExactUnlessCrossed
  <2>1. JSObjectKeysProxy_intersect(o, View(o), w) = Ok(o, DOMAIN d \cap NamesOf(w))
    BY <1>4, <1>5, <2>a, IntersectGives
  <2>2. JSObjectKeysProxy_intersect(o, w, View(o)) = Ok(o, NamesOf(w) \cap DOMAIN d)
    BY <1>4, <1>5, <2>a, IntersectGives
  <2>3. NamesOf(w) \cap DOMAIN d = both
    OBVIOUS
  <2> HIDE DEF both
  <2>4. r = Ok(o, both)
    BY <1>1, <2>1, <2>2, <2>3 DEF both
  <2> QED BY <2>4 DEF Ok
<1> HIDE DEF both, d
<1>8. ~Exempt(op, x, o) => ~Undefined(o) /\ ~Crossed(o, w)
  BY DEF Exempt, w
<1>9. Reply(op, r) = r.ret
  BY DEF Reply
<1> QED BY <1>2, <1>3, <1>6, <1>7, <1>8, <1>9 DEF Answers, Meets, r, c, d

LEMMA DisjointAnswers ==
    ASSUME NEW o \in OwnProps, NEW x, x[1] \in KeyedLike
    PROVE  Answers("isdisjoint", x, o)
<1> DEFINE w == x[1]
           u == View(o)
           c == [op |-> "isdisjoint", args |-> x]
           d == Mapping(o)
           r == Perform("isdisjoint", o, x)
           swap == w.kind \in {"set", "dictKeys", "proxyKeys"} /\ Len(w.props) > JSObjectKeysProxy_length(u)
           from == IF swap THEN u ELSE w
           into == IF swap THEN w ELSE u
           none == \A i \in DOMAIN from.props : ~Holds(into, from.props[i][1])
<1>1. r = Ok(o, none)
  BY DEF Perform, JSObjectKeysProxy_isDisjoint
<1>2. Failure(c, d) = "none" /\ Edited(c, d) = d /\ Answer(c, d) = (DOMAIN d \cap NamesOf(w) = {})
  BY DEF Failure, Edited, Answer
<1>3. InOrder(o, o)
  BY StaysInOrder
<1>4. w.props \in OwnProps /\ ~Undefined(w.props)
  BY KeyedKinds
<1>5. u.props = o /\ NamesOf(u) = DOMAIN d
  BY ViewFacts
<1>6. (from = u /\ into = w) \/ (from = w /\ into = u)
  OBVIOUS
<1>a. none \in BOOLEAN
  OBVIOUS
<1> HIDE DEF r, c, w, u, swap, from, into
<1>7. ~Undefined(o) /\ ~Crossed(o, w) => (none <=> DOMAIN d \cap NamesOf(w) = {})
  <2> SUFFICES ASSUME ~Undefined(o), ~Crossed(o, w) PROVE none <=> DOMAIN d \cap NamesOf(w) = {}
    OBVIOUS
  <2>a. /\ \A k \in NamesOf(w) : Holds(u, k) <=> k \in NamesOf(u)
        /\ \A k \in NamesOf(u) : Holds(w, k) <=> k \in NamesOf(w)
    BY <1>4, ExactUnlessCrossed DEF Exact, u
  <2>1. /\ \A i \in DOMAIN w.props : w.props[i][1] \in NamesOf(w)
        /\ \A k \in NamesOf(w) : \E i \in DOMAIN w.props : w.props[i][1] = k
    BY <1>4, KeyedFacts
  <2>2. /\ \A i \in DOMAIN u.props : u.props[i][1] \in NamesOf(u)
        /\ \A k \in NamesOf(u) : \E i \in DOMAIN u.props : u.props[i][1] = k
    <3>1. u.props \in OwnProps /\ ~Undefined(u.props)
      BY <1>5
    <3> QED BY <3>1, KeyedFacts
  <2>3. CASE from = u /\ into = w
    <3>1. none <=> \A k \in NamesOf(u) : k \notin NamesOf(w)
      BY <2>2, <2>3, <2>a
    <3> QED BY <1>5, <3>1
  <2>4. CASE from = w /\ into = u
    <3>1. none <=> \A k \in NamesOf(w) : k \notin NamesOf(u)
      BY <2>1, <2>4, <2>a
    <3> QED BY <1>5, <3>1
  <2> QED BY <1>6, <2>3, <2>4
<1> HIDE DEF none, d
<1>8. r.obj = o /\ r.err = "none" /\ r.ret = none
  BY <1>1 DEF Ok
<1>9. ~Exempt("isdisjoint", x, o) => ~Undefined(o) /\ ~Crossed(o, w)
  BY DEF Exempt, w
<1>10. Reply("isdisjoint", r) = r.ret
  BY DEF Reply
<1>11. ~Undefined(o) /\ ~Crossed(o, w) => r.ret = Answer(c, d)
  BY <1>2, <1>7, <1>8, <1>a
<1> QED BY <1>2, <1>3, <1>8, <1>9, <1>10, <1>11 DEF Answers, Meets, r, c, d

-----------------------------------------------------------------------------
(* Every call of the program. *)

LEMMA SomeFacts ==
    ASSUME NEW V, V \subseteq Values \cup {None}, NEW n \in Nat, NEW o \in Some(V, n)
    PROVE  o \in OwnProps /\ o \in Seq(Names \X V)
<1>1. o \in BoundedSeq(Names \X V, n) /\ IsInjective(OwnKeys(o))
  BY DEF Some
<1>2. Names \X V \subseteq PropPairs
  BY DEF PropPairs
<1>3. o \in PropSeqs /\ o \in Seq(Names \X V)
  BY <1>1, <1>2, BoundedIsSeq DEF PropSeqs
<1>4. DOMAIN o = 1..Len(o)
  BY <1>3, PropFacts
<1>5. \A i, j \in DOMAIN o : o[i][1] = o[j][1] => i = j
  BY <1>1 DEF IsInjective, OwnKeys
<1> QED BY <1>3, <1>4, <1>5 DEF OwnProps, OneEach

LEMMA OperandsAre ==
    /\ Dicts \cup Iterables \subseteq DictLike \cup Iterable
    /\ Kwds \subseteq DictLike
    /\ Keyed \subseteq KeyedLike
<1>0. MaxProps \in Nat /\ MaxOperand \in Nat /\ Names # {} /\ Values # {} /\ None \notin Values
  BY ObjectProxyAssumption
<1>1. Dicts \subseteq DictLike
  <2>1. Some(Values \cup {None}, MaxOperand) \subseteq OwnProps
    BY <1>0, SomeFacts
  <2> QED BY <2>1 DEF Dicts, DictLike
<1>2. Iterables \subseteq Iterable
  <2> DEFINE E == (Names \X Values) \cup {NotSequence, <<None>>}
  <2>1. E \subseteq Iterated
    BY DEF Iterated
  <2> HIDE DEF E
  <2>2. BoundedSeq(E, MaxOperand) \subseteq Seq(Iterated)
    <3> SUFFICES ASSUME NEW s \in BoundedSeq(E, MaxOperand) PROVE s \in Seq(Iterated)
      OBVIOUS
    <3> QED BY <1>0, <2>1, BoundedIsSeq
  <2> QED BY <2>2 DEF Iterables, Iterable, E
<1>3. Kwds \subseteq DictLike
  <2> DEFINE p == CHOOSE p \in Names \X Values : TRUE
             s == <<p>>
             e == <<>>
  <2>1. p \in PropPairs
    <3>a. PICK a \in Names, b \in Values : TRUE
      BY <1>0
    <3>b. <<a, b>> \in Names \X Values
      OBVIOUS
    <3>1. \E y \in Names \X Values : TRUE
      BY <3>b
    <3>2. p \in Names \X Values
      BY <3>1
    <3> QED BY <3>2 DEF PropPairs
  <2> HIDE DEF p
  <2>2. s \in PropSeqs /\ Len(s) = 1
    BY <2>1 DEF PropSeqs
  <2>3. s \in OwnProps
    <3> HIDE DEF s
    <3>1. \A i, j \in 1..Len(s) : i = j
      BY <2>2
    <3> QED BY <2>2, <3>1 DEF OwnProps, OneEach
  <2>4. e \in OwnProps
    BY EmptyMapping
  <2> HIDE DEF s, e
  <2>5. [kind |-> "dict", props |-> s] \in DictLike /\ [kind |-> "dict", props |-> e] \in DictLike
    BY <2>3, <2>4 DEF DictLike
  <2> QED BY <2>5 DEF Kwds, NoKwds, s, e, p
<1>4. Keyed \subseteq KeyedLike
  <2> DEFINE a == CHOOSE v \in Values : TRUE
             V == {a}
  <2>1. a \in Values /\ a # None
    BY <1>0
  <2> HIDE DEF a
  <2>2. V \subseteq Values \cup {None} /\ \A v \in V : v # None
    BY <2>1
  <2> HIDE DEF V
  <2>3. ASSUME NEW o \in Some(V, MaxProps) PROVE o \in OwnProps /\ ~Undefined(o)
    <3>1. o \in OwnProps /\ o \in Seq(Names \X V)
      BY <1>0, <2>2, SomeFacts
    <3>2. \A i \in DOMAIN o : o[i] \in Names \X V
      BY <3>1
    <3>3. \A i \in DOMAIN o : o[i][2] \in V
      BY <3>2
    <3> QED BY <2>2, <3>1, <3>3 DEF Undefined
  <2>4. Keyed = [kind : {"set", "dictKeys", "proxyKeys", "list"}, props : Some(V, MaxProps)]
    BY DEF Keyed, V, a
  <2> QED BY <2>3, <2>4 DEF KeyedLike
<1> QED BY <1>1, <1>2, <1>3, <1>4

LEMMA EveryCallAnswers ==
    ASSUME NEW o \in OwnProps, NEW op \in Operations, NEW x \in Arguments(op)
    PROVE  Answers(op, x, o)
<1>0. op \in {"len", "getitem", "getattr", "contains", "set", "del", "compare", "or", "ror",
              "ior", "get", "setdefault", "pop", "clear", "copy", "update", "keysCompare",
              "and", "rand", "isdisjoint", "valuesContains"}
  BY ObjectProxyAssumption
<1>1. CASE op \in {"getitem", "getattr", "contains", "valuesContains"}
  BY <1>1, LookAnswers
<1>2. CASE op = "del"
  BY <1>2, DelAnswers
<1>3. CASE op \in {"set", "get", "setdefault"}
  <2>1. x \in Names \X (Values \cup {None})
    BY <1>3 DEF Arguments, Defaults
  <2>2. x[1] \in Names /\ x[2] \in Values \cup {None}
    BY <2>1
  <2> QED BY <1>3, <2>2, SetAnswers, GetAnswers, SetdefaultAnswers
<1>4. CASE op = "pop"
  <2>1. x \in Names \X {<<>>, <<None>>}
    BY <1>4 DEF Arguments
  <2>2. x[2] \in {<<>>, <<None>>}
    BY <2>1
  <2> QED BY <1>4, <2>2, PopAnswers
<1>5. CASE op = "compare"
  <2>1. x \in (Dicts \cup Iterables) \X {"==", "!=", "<"}
    BY <1>5 DEF Arguments
  <2>2. x[1] \in Dicts \cup Iterables /\ x[2] \in {"==", "!=", "<"}
    BY <2>1
  <2>3. x[1] \in DictLike \cup Iterable
    BY <2>2, OperandsAre
  <2> QED BY <1>5, <2>2, <2>3, CompareAnswers
<1>6. CASE op \in {"or", "ror", "ior"}
  <2>1. x \in [1..1 -> Dicts \cup Iterables]
    BY <1>6 DEF Arguments
  <2>2. x[1] \in Dicts \cup Iterables
    BY <2>1
  <2>3. x[1] \in DictLike \cup Iterable
    BY <2>2, OperandsAre
  <2> QED BY <1>6, <2>3, OrAnswers, RorAnswers, IorAnswers
<1>7. CASE op = "update"
  <2>1. x \in (Dicts \cup Iterables) \X Kwds
    BY <1>7 DEF Arguments
  <2>2. x[1] \in Dicts \cup Iterables /\ x[2] \in Kwds
    BY <2>1
  <2>3. x[1] \in DictLike \cup Iterable /\ x[2] \in DictLike
    BY <2>2, OperandsAre
  <2> QED BY <1>7, <2>3, UpdateAnswers
<1>8. CASE op = "keysCompare"
  <2>1. x \in Keyed \X Relations
    BY <1>8 DEF Arguments
  <2>2. x[1] \in Keyed /\ x[2] \in {"==", "!=", "<", "<=", ">", ">="}
    BY <2>1 DEF Relations
  <2>3. x[1] \in KeyedLike
    BY <2>2, OperandsAre
  <2> QED BY <1>8, <2>2, <2>3, KeysCompareAnswers
<1>9. CASE op \in {"and", "rand", "isdisjoint"}
  <2>1. x \in [1..1 -> Keyed]
    BY <1>9 DEF Arguments
  <2>2. x[1] \in Keyed
    BY <2>1
  <2>3. x[1] \in KeyedLike
    BY <2>2, OperandsAre
  <2> QED BY <1>9, <2>3, AndAnswers, DisjointAnswers
<1>10. CASE op \in {"len", "clear", "copy"}
  <2>1. x = <<>>
    BY <1>10 DEF Arguments
  <2> QED BY <1>10, <2>1, LenAnswers, ClearAnswers, CopyAnswers
<1> QED BY <1>0, <1>1, <1>2, <1>3, <1>4, <1>5, <1>6, <1>7, <1>8, <1>9, <1>10

\* Between operations the object is whatever it is; while a result is looked at,
\* there is no iterator, and nothing changes the object.
ObjectOK ==
    /\ obj \in OwnProps
    /\ last # NoCall => objIt = NoObjectIter
    /\ OperationsMeetStandard

LEMMA ObjectStarts == ObjectInit => ObjectOK
<1> SUFFICES ASSUME ObjectInit PROVE ObjectOK
  OBVIOUS
<1>1. obj \in Some(Values \cup {None}, MaxProps) /\ last = NoCall
  BY DEF ObjectInit
<1>2. obj \in OwnProps
  BY <1>1, SomeFacts, ObjectProxyAssumption
<1> QED BY <1>1, <1>2 DEF ObjectOK, OperationsMeetStandard

\* A call that returns.
LEMMA CallKeeps ==
    ASSUME ObjectOK, NEW op \in Operations, NEW x \in Arguments(op), Do(op, x)
    PROVE  ObjectOK'
<1> DEFINE r == Perform(op, obj, x)
<1>1. /\ obj' = r.obj /\ objIt = NoObjectIter /\ objIt' = objIt
      /\ last' = [op |-> op, args |-> x, before |-> obj, ret |-> r.ret, err |-> r.err]
  BY DEF Do, Free
<1>2. obj \in OwnProps /\ Answers(op, x, obj)
  BY EveryCallAnswers DEF ObjectOK
<1> HIDE DEF r
<1>3. last'.op = op /\ last'.args = x /\ last'.before = obj /\ last'.ret = r.ret /\ last'.err = r.err
  BY <1>1
<1>4. obj' \in OwnProps /\ (~Exempt(op, x, obj) => Meets(op, x, obj, r))
  BY <1>1, <1>2 DEF Answers, r
<1>5. Known' = Exempt(op, x, obj)
  BY <1>3 DEF Known, Exempt
<1>6. Result' = Reply(op, r)
  BY <1>3 DEF Result, Reply
<1>7. InOrder(obj, obj') => OrderKept'
  <2>1. DOMAIN obj' = 1..Len(obj')
    BY <1>4, PropFacts, OwnFacts
  <2> QED BY <1>3, <2>1 DEF InOrder, OrderKept
<1>8. OperationsMeetStandard'
  <2> SUFFICES ASSUME ~Known'
               PROVE  LET c == [op |-> last'.op, args |-> last'.args]
                          d == Mapping(last'.before)
                      IN  /\ (IF last'.err = "pending" THEN "none" ELSE last'.err) = Failure(c, d)
                          /\ Mapping(obj') = Edited(c, d)
                          /\ OrderKept'
                          /\ last'.err = "none" => Result' = Answer(c, d)
    BY DEF OperationsMeetStandard
  <2>1. Meets(op, x, obj, r)
    BY <1>4, <1>5
  <2> QED BY <1>1, <1>3, <1>6, <1>7, <2>1 DEF Meets
<1> QED BY <1>1, <1>4, <1>8 DEF ObjectOK

LEMMA ObjectKeeps == ObjectOK /\ [ObjectNext]_objectVars => ObjectOK'
<1> SUFFICES ASSUME ObjectOK, [ObjectNext]_objectVars PROVE ObjectOK'
  OBVIOUS
<1>0. NoObjectIter.state = "none" /\ obj \in OwnProps /\ (last # NoCall => objIt = NoObjectIter)
  BY DEF NoObjectIter, ObjectOK
<1>1. ASSUME obj' \in OwnProps, last' = NoCall PROVE ObjectOK'
  BY <1>1 DEF ObjectOK, OperationsMeetStandard
<1>2. ASSUME NEW op \in Operations, NEW x \in Arguments(op), Do(op, x) PROVE ObjectOK'
  BY <1>2, CallKeeps
<1>3. CASE Consume
  BY <1>0, <1>1, <1>3 DEF Consume
<1>4. CASE Iterate
  <2>1. last' = NoCall /\ obj' = obj
    BY <1>4 DEF Iterate, JSObjectProxy_iter, JSObjectKeysProxy_iter, JSObjectKeysProxy_iter_reverse,
                JSObjectValuesProxy_iter, JSObjectValuesProxy_iter_reverse,
                JSObjectItemsProxy_iter, JSObjectItemsProxy_iter_reverse, ObjectIterator
  <2> QED BY <1>0, <1>1, <2>1
<1>5. CASE \/ IterStep(JSObjectIterProxy_nextkey) \/ IterStep(ReadBeyondCopy)
           \/ IterStep(objNextEnds) \/ IterStep(objNextAgain) \/ IterStep(JSObjectIterProxy_dealloc)
  <2>1. objIt.state \in {"live", "spent"} /\ obj' = obj /\ last' = last
    BY <1>5 DEF IterStep, JSObjectIterProxy_nextkey, ReadBeyondCopy, objNextEnds, objNextAgain,
                JSObjectIterProxy_dealloc, objIterVars
  <2> QED BY <1>0, <1>1, <2>1
<1>6. CASE Assign
  <2>1. PICK k \in Names, v \in Values : Meanwhile(JSObjectProxy_assign(obj, k, v))
    BY <1>6 DEF Assign
  <2>2. objIt.state \in {"live", "spent"} /\ obj' = SetProperty(obj, k, v) /\ last' = last
    BY <2>1 DEF Meanwhile, JSObjectProxy_assign
  <2>3. obj' \in OwnProps
    BY <1>0, <2>2, SetFacts
  <2> QED BY <1>0, <1>1, <2>2, <2>3
<1>7. CASE Delete
  <2>1. PICK k \in Names : Meanwhile(JSObjectProxy_delete(obj, k))
    BY <1>7 DEF Delete
  <2>2. objIt.state \in {"live", "spent"} /\ obj' = DeleteProperty(obj, k) /\ last' = last
    BY <2>1 DEF Meanwhile, JSObjectProxy_delete
  <2>3. obj' \in OwnProps
    BY <1>0, <2>2, DeleteFacts
  <2> QED BY <1>0, <1>1, <2>2, <2>3
<1>8. CASE Restart
  <2>1. objIt.state = "crashed" /\ obj' = <<>> /\ last' = last
    BY <1>8 DEF Restart
  <2>2. obj' \in OwnProps
    BY <2>1, EmptyMapping
  <2> QED BY <1>0, <1>1, <2>1, <2>2
<1>9. CASE UNCHANGED objectVars
  <2>1. obj' = obj /\ objIt' = objIt /\ last' = last
    BY <1>9 DEF objectVars
  <2> QED BY <2>1 DEF ObjectOK, OperationsMeetStandard, OrderKept, Known, Result
<1> QED BY <1>2, <1>3, <1>4, <1>5, <1>6, <1>7, <1>8, <1>9 DEF ObjectNext

\* Of the calls that Known does not name, each one leaves in a JavaScript object,
\* and returns or raises, what Python's dict does, whatever the names and values
\* and however many, whatever the object inherits and the other operands are.
THEOREM DictsMeetStandard == ObjectSpec => []OperationsMeetStandard
<1>1. ObjectOK => OperationsMeetStandard
  BY DEF ObjectOK
<1> QED BY <1>1, ObjectStarts, ObjectKeeps, PTL DEF ObjectSpec

=============================================================================
