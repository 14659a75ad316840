---------------------------- MODULE Lifetimes_proofs ----------------------------
(***************************************************************************)
(* For any number of objects, cells and strings: reference counts are      *)
(* exact, nothing that can be reached stands for what is gone, and no      *)
(* Python string points to where its characters were.                      *)
(***************************************************************************)
EXTENDS Lifetimes, FiniteSetTheorems, TLAPS

Externals(o) == {c \in Standing(o) : is[c] = "external"}

\* The references to an object that are accounted for.
Count(o) == (IF o \in held THEN 1 ELSE 0) + Cardinality(Standing(o)) + Cardinality(Leaks(o))

\* RefsExact, and what is left of it once finalizers leave Python alone: no reference
\* too few.
CountInv == \A o \in Objects : /\ refs[o] >= Count(o)
                               /\ ~finalizing => refs[o] = Count(o)
                               /\ kind[o] = "none" <=> refs[o] = 0

\* A cell has an object from its start, a queued one is a function in the queue, and the
\* proxy of a bytes object has its ArrayBuffer.
CellInv == \A c \in Cells : /\ cell[c] = "none" <=> is[c] = "none"
                            /\ cell[c] # "none" => target[c] \in Objects
                            /\ cell[c] = "queued" <=> c \in queue
                            /\ c \in queue => is[c] = "function"
                            /\ cell[c] = "live" /\ is[c] = "bytes" => bufferOf[c] \in Cells

\* Every JSStringProxy is in the set of those that are updated, and roots its string.
StringInv ==
    /\ jsStringProxies = Proxied /\ stale \subseteq Proxied
    /\ \A s \in Proxied : base[s] # NoCell => cell[base[s]] = "live"

Inv == /\ TypeOK /\ CountInv /\ CellInv /\ StringInv
       /\ StringsFindTheirObject /\ NothingDangles /\ PointersFresh

-----------------------------------------------------------------------------
(* Sets of cells, and the references they hold. *)

LEMMA FiniteCells == IsFiniteSet(Cells) /\ NoObject \notin Objects /\ NoCell \notin Cells
  BY LifetimesAssumption

LEMMA SubsetOfCells ==
    ASSUME NEW A \in SUBSET Cells
    PROVE  IsFiniteSet(A) /\ Cardinality(A) \in Nat /\ (A # {} => Cardinality(A) > 0)
  <1>1. IsFiniteSet(A)
    BY FiniteCells, FS_Subset
  <1> QED  BY <1>1, FS_CardinalityType, FS_EmptySet

LEMMA CellsAdded ==
    ASSUME NEW A \in SUBSET Cells, NEW N \in SUBSET Cells, A \cap N = {}
    PROVE  Cardinality(A \cup N) = Cardinality(A) + Cardinality(N)
  <1>1. IsFiniteSet(A) /\ IsFiniteSet(N)
    BY SubsetOfCells
  <1>2. Cardinality(A \cup N) = Cardinality(A) + Cardinality(N) - Cardinality({})
    BY <1>1, FS_Union
  <1> QED  BY <1>2, SubsetOfCells, FS_EmptySet

LEMMA CellsRemoved ==
    ASSUME NEW A \in SUBSET Cells, NEW R \in SUBSET A
    PROVE  Cardinality(A \ R) = Cardinality(A) - Cardinality(R)
  <1>1. A \ R \in SUBSET Cells /\ R \in SUBSET Cells /\ (A \ R) \cap R = {}
        /\ (A \ R) \cup R = A
    OBVIOUS
  <1>2. Cardinality(A) = Cardinality(A \ R) + Cardinality(R)
    BY <1>1, CellsAdded
  <1> QED  BY <1>1, <1>2, SubsetOfCells

LEMMA Pieces ==
    ASSUME NEW o
    PROVE  /\ Standing(o) \in SUBSET Cells /\ Leaks(o) \in SUBSET Cells
           /\ Externals(o) \in SUBSET Cells
           /\ Cardinality(Standing(o)) \in Nat /\ Cardinality(Leaks(o)) \in Nat
           /\ Cardinality(Externals(o)) \in Nat
           /\ Count(o) \in Nat /\ (o \in held \/ Standing(o) # {} \/ Leaks(o) # {} => Count(o) > 0)
  <1>1. /\ Standing(o) \in SUBSET Cells /\ Leaks(o) \in SUBSET Cells
        /\ Externals(o) \in SUBSET Cells
    BY DEF Standing, Leaks, Externals
  <1>2. /\ Cardinality(Standing(o)) \in Nat /\ Cardinality(Leaks(o)) \in Nat
        /\ Cardinality(Externals(o)) \in Nat
        /\ Standing(o) # {} => Cardinality(Standing(o)) > 0
        /\ Leaks(o) # {} => Cardinality(Leaks(o)) > 0
    BY <1>1, SubsetOfCells
  <1> QED  BY <1>1, <1>2 DEF Count

LEMMA PiecesNext ==
    ASSUME NEW o
    PROVE  /\ Standing(o)' \in SUBSET Cells /\ Leaks(o)' \in SUBSET Cells
           /\ Cardinality(Standing(o)') \in Nat /\ Cardinality(Leaks(o)') \in Nat
           /\ Count(o)' \in Nat /\ (o \in held' \/ Standing(o)' # {} => Count(o)' > 0)
  <1>1. Standing(o)' \in SUBSET Cells /\ Leaks(o)' \in SUBSET Cells
    BY DEF Standing, Leaks
  <1>2. /\ Cardinality(Standing(o)') \in Nat /\ Cardinality(Leaks(o)') \in Nat
        /\ Standing(o)' # {} => Cardinality(Standing(o)') > 0
    BY <1>1, SubsetOfCells
  <1>3. Count(o)' = (IF o \in held' THEN 1 ELSE 0) + Cardinality(Standing(o)')
                    + Cardinality(Leaks(o)')
    BY DEF Count
  <1> QED  BY <1>1, <1>2, <1>3

\* The cells stay what they are.
LEMMA SameCells ==
    ASSUME UNCHANGED <<cell, is, target>>, NEW o
    PROVE  /\ Standing(o)' = Standing(o) /\ Leaks(o)' = Leaks(o)
           /\ Externals(o)' = Externals(o)
  BY DEF Standing, Leaks, Externals, Alive

\* The cells `N` are made for the object `o`.
Makes(N, o) ==
    /\ N \in SUBSET NewCells /\ o \in Objects
    /\ cell' \in [Cells -> {"none", "live", "queued", "gone"}]
    /\ \A c \in Cells : IF c \in N
          THEN cell'[c] = "live" /\ target'[c] = o /\ is'[c] # "none"
          ELSE cell'[c] = cell[c] /\ target'[c] = target[c] /\ is'[c] = is[c]

\* Those of them that leak a reference, and those that are counted.
LeakyIn(N) == {c \in N : is'[c] \in {"iterable", "writable"}}
ExternalIn(N) == {c \in N : is'[c] = "external"}

LEMMA CellsMade ==
    ASSUME Inv, NEW N, NEW o, Makes(N, o), NEW p \in Objects
    PROVE  /\ Cardinality(Standing(p)') =
                Cardinality(Standing(p)) + (IF p = o THEN Cardinality(N) ELSE 0)
           /\ Cardinality(Leaks(p)') =
                Cardinality(Leaks(p)) +
                (IF p = o THEN Cardinality(LeakyIn(N)) ELSE 0)
           /\ Cardinality(Externals(p)') =
                Cardinality(Externals(p)) +
                (IF p = o THEN Cardinality(ExternalIn(N)) ELSE 0)
  <1> DEFINE L == LeakyIn(N)
             E == ExternalIn(N)
  <1>1. N \in SUBSET Cells /\ L \in SUBSET Cells /\ E \in SUBSET Cells
        /\ \A c \in N : cell[c] = "none" /\ is[c] = "none"
    BY DEF Makes, NewCells, Inv, CellInv, LeakyIn, ExternalIn
  <1>2. p # o => /\ Standing(p)' = Standing(p) /\ Leaks(p)' = Leaks(p)
                 /\ Externals(p)' = Externals(p)
    BY <1>1 DEF Makes, Standing, Leaks, Externals, Alive
  <1>3. /\ Standing(o)' = Standing(o) \cup N /\ Standing(o) \cap N = {}
        /\ Leaks(o)' = Leaks(o) \cup L /\ Leaks(o) \cap L = {}
        /\ Externals(o)' = Externals(o) \cup E /\ Externals(o) \cap E = {}
    BY <1>1 DEF Makes, Standing, Leaks, Externals, Alive, LeakyIn, ExternalIn
  <1>4. CASE p # o
    BY <1>2, <1>4, Pieces
  <1>5. CASE p = o
    <2>1. /\ Standing(o) \in SUBSET Cells /\ Leaks(o) \in SUBSET Cells
          /\ Externals(o) \in SUBSET Cells
      BY Pieces
    <2> HIDE DEF L, E
    <2>2. Cardinality(Standing(o) \cup N) = Cardinality(Standing(o)) + Cardinality(N)
      BY <1>1, <1>3, <2>1, CellsAdded
    <2>3. Cardinality(Leaks(o) \cup L) = Cardinality(Leaks(o)) + Cardinality(L)
      BY <1>1, <1>3, <2>1, CellsAdded
    <2>4. Cardinality(Externals(o) \cup E) = Cardinality(Externals(o)) + Cardinality(E)
      BY <1>1, <1>3, <2>1, CellsAdded
    <2> QED  BY <1>3, <1>5, <2>2, <2>3, <2>4 DEF L, E
  <1> QED  BY <1>4, <1>5

-----------------------------------------------------------------------------
(* What the references are after a step. *)

LEMMA Recounted ==
    ASSUME Inv, NEW new \in [Objects -> Int], SetRefs(new),
           \A o \in Objects : /\ new[o] >= Count(o)'
                              /\ ~finalizing' => new[o] = Count(o)'
                              /\ new[o] # 0 => refs[o] # 0
    PROVE  /\ CountInv'
           /\ refs' \in [Objects -> Nat] /\ kind' \in [Objects -> {"none"} \cup Kinds]
           /\ \A o \in Objects : o \in held' \/ Standing(o)' # {} => kind'[o] = kind[o]
  <1>1. \A o \in Objects : Count(o)' \in Nat /\ new[o] \in Nat
    BY PiecesNext
  <1>2. \A o \in Objects : kind[o] = "none" <=> refs[o] = 0
    BY DEF Inv, CountInv
  <1>3. /\ refs' = new
        /\ kind' = [o \in Objects |-> IF new[o] = 0 THEN "none" ELSE kind[o]]
    BY DEF SetRefs
  <1>4. CountInv'
    BY <1>1, <1>2, <1>3 DEF CountInv
  <1>5. kind' \in [Objects -> {"none"} \cup Kinds]
    BY <1>3 DEF Inv, TypeOK
  <1>6. \A o \in Objects : o \in held' \/ Standing(o)' # {} => kind'[o] = kind[o]
    BY <1>1, <1>3, PiecesNext
  <1> QED  BY <1>1, <1>3, <1>4, <1>5, <1>6

\* A cell that was alive and still is stands for what it stood for.
LEMMA SameObject ==
    ASSUME Inv, NEW c \in Cells, Alive(c), Alive(c)', UNCHANGED <<target[c], is[c]>>,
           \A o \in Objects : Standing(o)' # {} => kind'[o] = kind[o]
    PROVE  kind'[target'[c]] = KindOf[is'[c]]
  <1>1. target[c] \in Objects /\ kind[target[c]] = KindOf[is[c]]
    BY DEF Inv, CellInv, NothingDangles, Alive
  <1>2. PICK o \in Objects : o = target[c]
    BY <1>1
  <1>3. c \in Standing(o)'
    BY <1>2 DEF Standing
  <1> QED  BY <1>1, <1>2, <1>3

\* Nothing happens to objects and cells but to what the JavaScript program reaches.
LEMMA HeapsStay ==
    ASSUME Inv, UNCHANGED <<pyVars, cell, is, target, bufferOf, externalStrings, queue>>,
           finalizing => finalizing', \A c \in jsHeld' : c \in Cells /\ cell[c] = "live"
    PROVE  CountInv' /\ CellInv' /\ StringsFindTheirObject' /\ NothingDangles'
  <1>1. \A o \in Objects : Count(o)' = Count(o)
    BY SameCells DEF Count, pyVars
  <1>2. CountInv'
    BY <1>1 DEF Inv, CountInv, pyVars
  <1>3. CellInv'
    BY DEF Inv, CellInv
  <1>4. StringsFindTheirObject'
    BY DEF Inv, StringsFindTheirObject, Standing, Alive
  <1>5. NothingDangles'
    BY DEF Inv, NothingDangles, Alive, pyVars
  <1> QED  BY <1>2, <1>3, <1>4, <1>5

\* Cells made for an object, with a reference each, and one more for those that leak.
MakesFor(N, o) ==
    /\ Makes(N, o) /\ UNCHANGED <<held, queue, finalizing>>
    /\ kind[o] # "none" /\ \A c \in N : KindOf[is'[c]] = kind[o]
    /\ SetRefs(refs') /\ refs' \in [Objects -> Int]
    /\ \A p \in Objects : refs'[p] = refs[p] +
          (IF p = o THEN Cardinality(N) + Cardinality(LeakyIn(N)) ELSE 0)
    /\ \A p \in Objects : externalStrings'[p] = externalStrings[p] +
          (IF p = o THEN Cardinality(ExternalIn(N)) ELSE 0)
    /\ \A c \in Cells : cell'[c] = "live" /\ is'[c] = "bytes" =>
          bufferOf'[c] \in Cells /\ cell'[bufferOf'[c]] = "live"
    /\ \A c \in jsHeld' : cell'[c] = "live"

LEMMA MakesKeeps ==
    ASSUME Inv, NEW N, NEW o, MakesFor(N, o)
    PROVE  /\ CountInv' /\ CellInv' /\ StringsFindTheirObject' /\ NothingDangles'
           /\ refs' \in [Objects -> Nat] /\ kind' \in [Objects -> {"none"} \cup Kinds]
  <1> DEFINE leaky == Cardinality(LeakyIn(N))
             external == Cardinality(ExternalIn(N))
  <1> USE DEF MakesFor
  <1>1. N \in SUBSET Cells /\ o \in Objects /\ \A c \in N : cell[c] = "none"
    BY DEF MakesFor, Makes, NewCells
  <1>2. Cardinality(N) \in Nat /\ leaky \in Nat /\ external \in Nat
    <2>1. LeakyIn(N) \in SUBSET Cells /\ ExternalIn(N) \in SUBSET Cells
      BY <1>1 DEF LeakyIn, ExternalIn
    <2> QED  BY <1>1, <2>1, SubsetOfCells
  <1> HIDE DEF leaky, external
  <1>3. \A p \in Objects :
            Count(p)' = Count(p) + (IF p = o THEN Cardinality(N) + leaky ELSE 0)
    <2> TAKE p \in Objects
    <2>1. /\ Cardinality(Standing(p)') =
               Cardinality(Standing(p)) + (IF p = o THEN Cardinality(N) ELSE 0)
          /\ Cardinality(Leaks(p)') = Cardinality(Leaks(p)) + (IF p = o THEN leaky ELSE 0)
      BY CellsMade DEF leaky
    <2>2. Count(p)' = (IF p \in held THEN 1 ELSE 0) + Cardinality(Standing(p)')
                      + Cardinality(Leaks(p)')
      BY DEF Count
    <2> QED  BY <1>2, <2>1, <2>2, Pieces DEF Count
  <1>4. \A p \in Objects : refs'[p] = refs[p] + (IF p = o THEN Cardinality(N) + leaky ELSE 0)
    BY DEF leaky
  <1>5. \A p \in Objects : /\ refs'[p] >= Count(p)'
                           /\ ~finalizing' => refs'[p] = Count(p)'
                           /\ refs'[p] # 0 => refs[p] # 0
    <2> TAKE p \in Objects
    <2>1. /\ refs[p] \in Nat /\ refs[p] >= Count(p) /\ (~finalizing => refs[p] = Count(p))
          /\ refs[o] # 0
      BY <1>1 DEF Inv, TypeOK, CountInv
    <2> QED  BY <1>2, <1>3, <1>4, <2>1, Pieces
  <1>6. /\ CountInv'
        /\ refs' \in [Objects -> Nat] /\ kind' \in [Objects -> {"none"} \cup Kinds]
        /\ \A p \in Objects : p \in held' \/ Standing(p)' # {} => kind'[p] = kind[p]
    BY <1>5, Recounted
  <1>7. CellInv'
    BY <1>1 DEF Inv, CellInv, Makes
  <1>8. StringsFindTheirObject'
    <2> SUFFICES ASSUME ~finalizing, NEW p \in Objects
                 PROVE  externalStrings'[p] = Cardinality(Externals(p)')
      BY DEF StringsFindTheirObject, Externals
    <2>1. Cardinality(Externals(p)') =
            Cardinality(Externals(p)) + (IF p = o THEN external ELSE 0)
      BY CellsMade DEF external
    <2>2. externalStrings[p] = Cardinality(Externals(p))
      BY DEF Inv, StringsFindTheirObject, Externals
    <2>3. externalStrings'[p] = externalStrings[p] + (IF p = o THEN external ELSE 0)
      BY DEF external
    <2> QED  BY <2>1, <2>2, <2>3
  <1>9. NothingDangles'
    <2>1. ASSUME NEW c \in Cells, Alive(c)' PROVE kind'[target'[c]] = KindOf[is'[c]]
      <3>1. CASE c \in N
        <4>1. c \in Standing(o)'
          BY <2>1, <3>1 DEF Standing, Makes
        <4> QED  BY <1>1, <1>6, <3>1, <4>1 DEF Makes
      <3>2. CASE c \notin N
        <4>1. Alive(c) /\ UNCHANGED <<target[c], is[c]>>
          BY <2>1, <3>2 DEF Makes, Alive
        <4> QED  BY <1>6, <2>1, <4>1, SameObject
      <3> QED  BY <3>1, <3>2
    <2> QED  BY <2>1 DEF NothingDangles
  <1> QED  BY <1>6, <1>7, <1>8, <1>9

-----------------------------------------------------------------------------
(* The steps of the Python program. *)

LEMMA NewObjectKeeps ==
    ASSUME Inv, NEW o \in Objects, NEW k \in Kinds, NewObject(o, k)
    PROVE  Inv'
  <1>1. TypeOK' /\ StringInv' /\ PointersFresh'
    BY DEF NewObject, Inv, TypeOK, StringInv, PointersFresh, Proxied, jsVars, strVars
  <1>2. Count(o) = 0 /\ o \notin held /\ Standing(o) = {}
    BY Pieces DEF NewObject, Inv, TypeOK, CountInv
  <1>3. \A p \in Objects : Count(p)' = Count(p) + (IF p = o THEN 1 ELSE 0)
    <2> TAKE p \in Objects
    <2>1. Count(p)' = (IF p \in held' THEN 1 ELSE 0) + Cardinality(Standing(p))
                      + Cardinality(Leaks(p))
      BY SameCells DEF Count, NewObject, jsVars
    <2> QED  BY <1>2, <2>1, Pieces DEF Count, NewObject
  <1>4. CountInv'
    BY <1>2, <1>3, Pieces DEF NewObject, Inv, TypeOK, CountInv, Kinds
  <1>5. CellInv' /\ StringsFindTheirObject'
    BY DEF NewObject, Inv, CellInv, StringsFindTheirObject, Standing, Alive, jsVars
  <1>6. NothingDangles'
    BY <1>2 DEF NewObject, Inv, TypeOK, CellInv, NothingDangles, Standing, Alive, jsVars
  <1> QED  BY <1>1, <1>4, <1>5, <1>6 DEF Inv

\* The program drops a reference to an object, or gets one.
LEMMA HoldsKeeps ==
    ASSUME Inv, NEW o \in Objects, NEW d \in Int,
           \/ d = -1 /\ o \in held /\ held' = held \ {o}
           \/ d = 1 /\ o \notin held /\ Standing(o) # {} /\ held' = held \cup {o},
           NEW new \in [Objects -> Int], SetRefs(new),
           \A p \in Objects : new[p] = refs[p] + (IF p = o THEN d ELSE 0),
           UNCHANGED <<jsVars, externalStrings, queue, strVars, phase, finalizing>>
    PROVE  Inv'
  <1>2. \A p \in Objects : Count(p)' = Count(p) + (IF p = o THEN d ELSE 0)
    <2> TAKE p \in Objects
    <2>1. Count(p)' = (IF p \in held' THEN 1 ELSE 0) + Cardinality(Standing(p))
                      + Cardinality(Leaks(p))
      BY SameCells DEF Count, jsVars
    <2> QED  BY <2>1, Pieces DEF Count
  <1>3. \A p \in Objects : /\ new[p] >= Count(p)'
                           /\ ~finalizing' => new[p] = Count(p)'
                           /\ new[p] # 0 => refs[p] # 0
    <2> TAKE p \in Objects
    <2>1. refs[p] \in Nat /\ refs[p] >= Count(p) /\ (~finalizing => refs[p] = Count(p))
      BY DEF Inv, TypeOK, CountInv
    <2>2. Count(p) \in Nat /\ (p = o => Count(p) > 0)
      BY Pieces
    <2> QED  BY <1>2, <2>1, <2>2
  <1>4. /\ CountInv'
        /\ refs' \in [Objects -> Nat] /\ kind' \in [Objects -> {"none"} \cup Kinds]
        /\ \A p \in Objects : p \in held' \/ Standing(p)' # {} => kind'[p] = kind[p]
    BY <1>3, Recounted
  <1>5. TypeOK' /\ StringInv' /\ PointersFresh'
    BY <1>4 DEF Inv, TypeOK, StringInv, PointersFresh, Proxied, jsVars, strVars
  <1>6. CellInv' /\ StringsFindTheirObject'
    BY DEF Inv, CellInv, StringsFindTheirObject, Standing, Alive, jsVars
  <1>7. NothingDangles'
    <2>1. ASSUME NEW c \in Cells, Alive(c)' PROVE kind'[target'[c]] = KindOf[is'[c]]
      BY <1>4, <2>1, SameObject DEF Alive, jsVars
    <2> QED  BY <2>1 DEF Inv, NothingDangles, jsVars
  <1> QED  BY <1>4, <1>5, <1>6, <1>7 DEF Inv

LEMMA DropKeeps ==
    ASSUME Inv, NEW o \in Objects, Drop(o)
    PROVE  Inv'
  <1> DEFINE new == [refs EXCEPT ![o] = @ - 1]
  <1>1. /\ new \in [Objects -> Int] /\ SetRefs(new)
        /\ \A p \in Objects : new[p] = refs[p] + (IF p = o THEN -1 ELSE 0)
    BY DEF Drop, Inv, TypeOK
  <1> HIDE DEF new
  <1>2. -1 \in Int
    OBVIOUS
  <1> QED  BY <1>1, <1>2, HoldsKeeps DEF Drop

LEMMA UnwrapKeeps ==
    ASSUME Inv, NEW c \in Cells, Unwrap(c)
    PROVE  Inv'
  <1>1. Alive(c) /\ target[c] \in Objects
    BY DEF Unwrap, Inv, NothingDangles, CellInv, Alive
  <1>2. PICK o \in Objects : o = target[c]
    BY <1>1
  <1>3. c \in Standing(o)
    BY <1>1, <1>2 DEF Standing
  <1> DEFINE new == [refs EXCEPT ![o] = @ + 1]
  <1>4. /\ new \in [Objects -> Int] /\ SetRefs(new)
        /\ \A p \in Objects : new[p] = refs[p] + (IF p = o THEN 1 ELSE 0)
    BY <1>2 DEF Unwrap, Inv, TypeOK
  <1> HIDE DEF new
  <1>5. 1 \in Int
    OBVIOUS
  <1> QED  BY <1>2, <1>3, <1>4, <1>5, HoldsKeeps DEF Unwrap

LEMMA StringDeallocKeeps ==
    ASSUME Inv, NEW s \in Strings, JSStringProxy_dealloc(s)
    PROVE  Inv'
  <1>1. CountInv' /\ CellInv' /\ StringsFindTheirObject' /\ NothingDangles'
    BY HeapsStay DEF JSStringProxy_dealloc, jsVars, Inv, TypeOK, NothingDangles
  <1>2. TypeOK'
    BY DEF JSStringProxy_dealloc, pyVars, jsVars, Inv, TypeOK
  <1>3. Proxied' = Proxied \ {s}
    BY DEF JSStringProxy_dealloc, Inv, TypeOK, Proxied
  <1>4. StringInv' /\ PointersFresh'
    BY <1>3 DEF JSStringProxy_dealloc, jsVars, Inv, TypeOK, StringInv, PointersFresh, Proxied
  <1> QED  BY <1>1, <1>2, <1>4 DEF Inv

-----------------------------------------------------------------------------
(* Values that cross. *)

LEMMA toJSStringKeeps ==
    ASSUME Inv, NEW s \in Strings, toJSString(s)
    PROVE  Inv'
  <1>1. base[s] \in Cells /\ cell[base[s]] = "live"
    BY DEF toJSString, Inv, TypeOK, StringInv
  <1>2. CountInv' /\ CellInv' /\ StringsFindTheirObject' /\ NothingDangles'
    BY <1>1, HeapsStay DEF toJSString, Inv, TypeOK, NothingDangles
  <1>3. TypeOK' /\ StringInv' /\ PointersFresh'
    BY <1>1 DEF toJSString, pyVars, strVars, Inv, TypeOK, StringInv, PointersFresh, Proxied
  <1> QED  BY <1>2, <1>3 DEF Inv

LEMMA getBufferKeeps ==
    ASSUME Inv, NEW c \in Cells, getBuffer(c)
    PROVE  Inv'
  <1>1. bufferOf[c] \in Cells /\ cell[bufferOf[c]] = "live"
    BY DEF getBuffer, Inv, CellInv, NothingDangles
  <1>2. CountInv' /\ CellInv' /\ StringsFindTheirObject' /\ NothingDangles'
    BY <1>1, HeapsStay DEF getBuffer, Inv, TypeOK, NothingDangles
  <1>3. TypeOK' /\ StringInv' /\ PointersFresh'
    BY <1>1 DEF getBuffer, pyVars, strVars, Inv, TypeOK, StringInv, PointersFresh, Proxied
  <1> QED  BY <1>2, <1>3 DEF Inv

LEMMA ForgetKeeps ==
    ASSUME Inv, NEW c \in Cells, Forget(c)
    PROVE  Inv'
  <1>1. CountInv' /\ CellInv' /\ StringsFindTheirObject' /\ NothingDangles'
    BY HeapsStay DEF Forget, Inv, TypeOK, NothingDangles
  <1>2. TypeOK' /\ StringInv' /\ PointersFresh'
    BY DEF Forget, pyVars, strVars, Inv, TypeOK, StringInv, PointersFresh, Proxied
  <1> QED  BY <1>1, <1>2 DEF Inv

LEMMA proxifyStringKeeps ==
    ASSUME Inv, NEW s \in Strings, NEW c \in Cells \cup {NoCell}, proxifyString(s, c)
    PROVE  Inv'
  <1>1. CountInv' /\ CellInv' /\ StringsFindTheirObject' /\ NothingDangles'
    BY HeapsStay DEF proxifyString, jsVars, Inv, TypeOK, NothingDangles
  <1>2. TypeOK'
    BY DEF proxifyString, proxify, pyVars, jsVars, Inv, TypeOK
  <1>3. Proxied' = Proxied \cup {s} /\ s \notin Proxied
    BY DEF proxifyString, proxify, Inv, TypeOK, Proxied
  <1>4. c # NoCell => cell[c] = "live"
    BY DEF proxifyString, Inv, NothingDangles
  <1>5. StringInv' /\ PointersFresh'
    BY <1>3, <1>4 DEF proxifyString, proxify, jsVars, Inv, TypeOK, StringInv, PointersFresh,
       Proxied
  <1> QED  BY <1>1, <1>2, <1>5 DEF Inv

LEMMA MakeOneKeeps ==
    ASSUME Inv, NEW c \in Cells, NEW o \in Objects,
           NEW what \in {"external", "function", "proxy", "iterable", "writable"},
           MakeCell(c, what, o), kind[o] = KindOf[what], kind[o] # "none",
           SetRefs([refs EXCEPT ![o] = @ + (IF what \in {"iterable", "writable"} THEN 2 ELSE 1)]),
           externalStrings' = IF what = "external" THEN [externalStrings EXCEPT ![o] = @ + 1]
                              ELSE externalStrings,
           UNCHANGED <<held, bufferOf, queue, strVars, phase, finalizing>>
    PROVE  Inv'
  <1>1. /\ cell[c] = "none" /\ is'[c] = what /\ target'[c] = o
        /\ \A d \in Cells : d # c => /\ cell'[d] = cell[d] /\ is'[d] = is[d]
                                     /\ target'[d] = target[d]
        /\ cell'[c] = "live"
    BY DEF MakeCell, NewCells, Inv, TypeOK
  <1>2. Makes({c}, o)
    BY <1>1 DEF Makes, MakeCell, NewCells, Inv, TypeOK
  <1>3. Cardinality({c}) = 1 /\ Cardinality({}) = 0
    BY FS_Singleton, FS_EmptySet
  <1>4. /\ LeakyIn({c}) = IF what \in {"iterable", "writable"} THEN {c} ELSE {}
        /\ ExternalIn({c}) = IF what = "external" THEN {c} ELSE {}
    BY <1>1 DEF LeakyIn, ExternalIn
  <1>5. /\ refs' \in [Objects -> Int] /\ SetRefs(refs')
        /\ \A p \in Objects : refs'[p] = refs[p] +
               (IF p = o THEN IF what \in {"iterable", "writable"} THEN 2 ELSE 1 ELSE 0)
    BY DEF SetRefs, Inv, TypeOK
  <1>6. \A p \in Objects : refs'[p] = refs[p] +
            (IF p = o THEN Cardinality({c}) + Cardinality(LeakyIn({c})) ELSE 0)
    <2>1. Cardinality({c}) + Cardinality(LeakyIn({c})) =
            IF what \in {"iterable", "writable"} THEN 2 ELSE 1
      <3>1. CASE what \in {"iterable", "writable"}
        BY <1>3, <1>4, <3>1
      <3>2. CASE what \notin {"iterable", "writable"}
        BY <1>3, <1>4, <3>2
      <3> QED  BY <3>1, <3>2
    <2> QED  BY <1>5, <2>1
  <1>7. \A p \in Objects : externalStrings'[p] = externalStrings[p] +
            (IF p = o THEN Cardinality(ExternalIn({c})) ELSE 0)
    <2>1. externalStrings \in [Objects -> Nat]
      BY DEF Inv, TypeOK
    <2>2. CASE what = "external"
      <3>1. Cardinality(ExternalIn({c})) = 1
        BY <1>3, <1>4, <2>2
      <3> QED  BY <2>1, <2>2, <3>1
    <2>3. CASE what # "external"
      <3>1. Cardinality(ExternalIn({c})) = 0
        BY <1>3, <1>4, <2>3
      <3> QED  BY <2>1, <2>3, <3>1
    <2> QED  BY <2>2, <2>3
  <1>8. \A d \in Cells : cell'[d] = "live" /\ is'[d] = "bytes" =>
            bufferOf'[d] \in Cells /\ cell'[bufferOf'[d]] = "live"
    BY <1>1 DEF Inv, CellInv, NothingDangles
  <1>9. \A d \in jsHeld' : cell'[d] = "live"
    BY <1>1 DEF MakeCell, Inv, TypeOK, NothingDangles
  <1>10. \A d \in {c} : KindOf[is'[d]] = kind[o]
    BY <1>1
  <1>11. /\ CountInv' /\ CellInv' /\ StringsFindTheirObject' /\ NothingDangles'
         /\ refs' \in [Objects -> Nat] /\ kind' \in [Objects -> {"none"} \cup Kinds]
    <2>1. MakesFor({c}, o)
      BY <1>2, <1>5, <1>6, <1>7, <1>8, <1>9, <1>10 DEF MakesFor
    <2> QED  BY <2>1, MakesKeeps
  <1>12. TypeOK'
    <2>1. externalStrings' \in [Objects -> Nat]
      BY DEF Inv, TypeOK
    <2> QED  BY <1>11, <2>1 DEF MakeCell, strVars, Inv, TypeOK
  <1>13. StringInv' /\ PointersFresh'
    BY <1>1 DEF strVars, Inv, TypeOK, StringInv, PointersFresh, Proxied
  <1> QED  BY <1>11, <1>12, <1>13 DEF Inv

LEMMA toExternalStringKeeps ==
    ASSUME Inv, NEW o \in Objects, NEW c \in Cells, toExternalString(o, c)
    PROVE  Inv'
  <1>1. KindOf["external"] = "str"
    BY DEF KindOf
  <1> QED  BY <1>1, MakeOneKeeps DEF toExternalString, CountExternal

LEMMA toWrapperKeeps ==
    ASSUME Inv, NEW o \in Objects, NEW c \in Cells, toWrapper(o, c)
    PROVE  Inv'
  <1>1. kind[o] \in {"function", "object", "iterator"}
    BY DEF toWrapper, WrapperOf
  <1>2. PICK what \in {"function", "proxy", "iterable"} :
            what = WrapperOf[kind[o]] /\ kind[o] = KindOf[what]
    BY <1>1 DEF WrapperOf, KindOf
  <1>3. MakeCell(c, what, o) /\ SetRefs([refs EXCEPT ![o] = @ + References(what)])
    BY <1>2 DEF toWrapper
  <1>4. References(what) = IF what \in {"iterable", "writable"} THEN 2 ELSE 1
    BY <1>2 DEF References
  <1> QED  BY <1>1, <1>2, <1>3, <1>4, MakeOneKeeps DEF toWrapper

LEMMA toJsTypedArrayKeeps ==
    ASSUME Inv, NEW o \in Objects, NEW c \in Cells, toJsTypedArray(o, c)
    PROVE  Inv'
  <1>1. KindOf["writable"] = "bytearray"
    BY DEF KindOf
  <1>2. [refs EXCEPT ![o] = @ + 1 + 1] = [refs EXCEPT ![o] = @ + 2]
    <2>1. refs[o] \in Nat
      BY DEF Inv, TypeOK
    <2>2. refs[o] + 1 + 1 = refs[o] + 2
      BY <2>1
    <2> QED  BY <2>2
  <1> QED  BY <1>1, <1>2, MakeOneKeeps DEF toJsTypedArray

LEMMA toJsBytesKeeps ==
    ASSUME Inv, NEW o \in Objects, NEW c \in Cells, NEW b \in Cells, toJsBytes(o, c, b)
    PROVE  Inv'
  <1> DEFINE N == {c, b}
  <1>1. /\ c # b /\ cell[c] = "none" /\ cell[b] = "none"
        /\ cell'[c] = "live" /\ is'[c] = "bytes" /\ target'[c] = o /\ bufferOf'[c] = b
        /\ cell'[b] = "live" /\ is'[b] = "buffer" /\ target'[b] = o
        /\ \A d \in Cells : d \notin N => /\ cell'[d] = cell[d] /\ is'[d] = is[d]
                                          /\ target'[d] = target[d] /\ bufferOf'[d] = bufferOf[d]
    BY DEF toJsBytes, NewCells, Inv, TypeOK
  <1>2. Makes(N, o)
    BY <1>1 DEF Makes, toJsBytes, NewCells, Inv, TypeOK
  <1>3. Cardinality(N) = 2 /\ Cardinality({}) = 0
    <2>1. {c} \in SUBSET Cells /\ {b} \in SUBSET Cells /\ {c} \cup {b} = N
      OBVIOUS
    <2>2. \A x \in {c} : x \notin {b}
      BY <1>1
    <2>3. Cardinality({c}) = 1 /\ Cardinality({b}) = 1
      BY FS_Singleton
    <2>4. N = {c} \cup {b} /\ IsFiniteSet({c}) /\ b \notin {c}
      BY <1>1, <2>1, SubsetOfCells
    <2>5. Cardinality({c} \cup {b}) = Cardinality({c}) + 1
      BY <2>4, FS_AddElement
    <2> QED  BY <2>3, <2>4, <2>5, FS_EmptySet
  <1>4. LeakyIn(N) = {} /\ ExternalIn(N) = {}
    BY <1>1 DEF LeakyIn, ExternalIn
  <1>5. /\ refs' \in [Objects -> Int] /\ SetRefs(refs')
        /\ \A p \in Objects : refs'[p] = refs[p] + (IF p = o THEN 2 ELSE 0)
    BY DEF toJsBytes, SetRefs, Inv, TypeOK
  <1>6. KindOf["bytes"] = "bytes" /\ KindOf["buffer"] = "bytes"
    BY DEF KindOf
  <1>7. kind[o] = "bytes" /\ \A d \in N : KindOf[is'[d]] = kind[o]
    BY <1>1, <1>6 DEF toJsBytes
  <1>8. \A d \in Cells : cell'[d] = "live" /\ is'[d] = "bytes" =>
            bufferOf'[d] \in Cells /\ cell'[bufferOf'[d]] = "live"
    BY <1>1 DEF Inv, CellInv, NothingDangles
  <1>9. \A d \in jsHeld' : cell'[d] = "live"
    BY <1>1 DEF toJsBytes, Inv, TypeOK, NothingDangles
  <1> HIDE DEF N
  <1>10. \A p \in Objects : refs'[p] = refs[p] +
            (IF p = o THEN Cardinality(N) + Cardinality(LeakyIn(N)) ELSE 0)
    BY <1>3, <1>4, <1>5
  <1>11. \A p \in Objects : externalStrings'[p] = externalStrings[p] +
            (IF p = o THEN Cardinality(ExternalIn(N)) ELSE 0)
    BY <1>3, <1>4 DEF toJsBytes, Inv, TypeOK
  <1>12. /\ CountInv' /\ CellInv' /\ StringsFindTheirObject' /\ NothingDangles'
         /\ refs' \in [Objects -> Nat] /\ kind' \in [Objects -> {"none"} \cup Kinds]
    <2>1. UNCHANGED <<held, queue, finalizing>>
      BY DEF toJsBytes
    <2>2. MakesFor(N, o)
      BY <1>2, <1>5, <1>7, <1>8, <1>9, <1>10, <1>11, <2>1 DEF MakesFor
    <2> QED  BY <2>2, MakesKeeps
  <1>13. TypeOK'
    BY <1>12 DEF toJsBytes, strVars, Inv, TypeOK
  <1>14. StringInv' /\ PointersFresh'
    BY <1>1 DEF N, toJsBytes, strVars, Inv, TypeOK, StringInv, PointersFresh, Proxied
  <1> QED  BY <1>12, <1>13, <1>14 DEF Inv

-----------------------------------------------------------------------------
(* The collector. *)

\* The cells `R`, and no others, are no longer alive: each gives a reference back.
Gone(R, o) == {c \in R : target[c] = o}

Unmakes(R) ==
    /\ R \in SUBSET Cells /\ \A c \in R : Alive(c)
    /\ \A c \in Cells : Alive(c)' <=> Alive(c) /\ c \notin R
    /\ UNCHANGED <<held, is, target, bufferOf, jsHeld, finalizing>>

LEMMA CellsUnmade ==
    ASSUME NEW R, Unmakes(R), NEW o
    PROVE  /\ Cardinality(Gone(R, o)) \in Nat
           /\ Count(o)' = Count(o) - Cardinality(Gone(R, o))
           /\ Externals(o)' = Externals(o) \ R
  <1>1. Gone(R, o) \in SUBSET Standing(o) /\ Gone(R, o) \in SUBSET Cells
    BY DEF Unmakes, Gone, Standing
  <1>2. /\ Standing(o)' = Standing(o) \ Gone(R, o) /\ Leaks(o)' = Leaks(o)
        /\ Externals(o)' = Externals(o) \ R
    BY DEF Unmakes, Gone, Standing, Leaks, Externals
  <1>3. Cardinality(Standing(o)') = Cardinality(Standing(o)) - Cardinality(Gone(R, o))
    BY <1>1, <1>2, Pieces, CellsRemoved
  <1>4. Cardinality(Gone(R, o)) \in Nat
    BY <1>1, SubsetOfCells
  <1>5. Count(o)' = (IF o \in held THEN 1 ELSE 0) + Cardinality(Standing(o)')
                    + Cardinality(Leaks(o))
    BY <1>2 DEF Count, Unmakes
  <1> QED  BY <1>2, <1>3, <1>4, <1>5, Pieces DEF Count

\* What JavaScript reaches, and the ArrayBuffer of a bytes proxy, are not among them.
LEMMA UnmakesKeeps ==
    ASSUME Inv, NEW R, Unmakes(R), SetRefs(refs'), refs' \in [Objects -> Int],
           \A o \in Objects : \/ refs'[o] = refs[o] - Cardinality(Gone(R, o))
                              \/ finalizing /\ \E n \in 0..Cardinality(Gone(R, o)) :
                                                refs'[o] = refs[o] - n,
           \A c \in jsHeld : cell'[c] = "live",
           \A c \in Cells : cell'[c] = "live" =>
               cell[c] = "live" /\ (is[c] = "bytes" => cell'[bufferOf[c]] = "live")
    PROVE  /\ CountInv' /\ NothingDangles'
           /\ refs' \in [Objects -> Nat] /\ kind' \in [Objects -> {"none"} \cup Kinds]
  <1>1. \A o \in Objects : /\ refs'[o] >= Count(o)'
                           /\ ~finalizing' => refs'[o] = Count(o)'
                           /\ refs'[o] # 0 => refs[o] # 0
    <2> TAKE o \in Objects
    <2>1. /\ Cardinality(Gone(R, o)) \in Nat
          /\ Count(o)' = Count(o) - Cardinality(Gone(R, o))
      BY CellsUnmade
    <2>2. refs[o] \in Nat /\ refs[o] >= Count(o) /\ (~finalizing => refs[o] = Count(o))
      BY DEF Inv, TypeOK, CountInv
    <2>3. Count(o) \in Nat /\ Count(o)' \in Nat /\ finalizing' = finalizing
      BY Pieces, PiecesNext DEF Unmakes
    <2>4. CASE refs'[o] = refs[o] - Cardinality(Gone(R, o))
      BY <2>1, <2>2, <2>3, <2>4
    <2>5. ASSUME finalizing, NEW n \in 0..Cardinality(Gone(R, o)), refs'[o] = refs[o] - n
          PROVE  refs'[o] >= Count(o)' /\ (refs'[o] # 0 => refs[o] # 0)
      BY <2>1, <2>2, <2>3, <2>5
    <2> QED  BY <2>3, <2>4, <2>5
  <1>2. /\ CountInv'
        /\ refs' \in [Objects -> Nat] /\ kind' \in [Objects -> {"none"} \cup Kinds]
        /\ \A o \in Objects : o \in held' \/ Standing(o)' # {} => kind'[o] = kind[o]
    BY <1>1, Recounted
  <1>3. NothingDangles'
    <2>1. ASSUME NEW c \in Cells, Alive(c)' PROVE kind'[target'[c]] = KindOf[is'[c]]
      BY <1>2, <2>1, SameObject DEF Unmakes
    <2> QED  BY <2>1 DEF NothingDangles, Unmakes
  <1> QED  BY <1>2, <1>3

LEMMA CollectKeeps ==
    ASSUME Inv, NEW S \in SUBSET Garbage, NEW moved \in SUBSET Proxied, Collect(S, moved)
    PROVE  Inv'
  <1> DEFINE R == {c \in S : is[c] # "function"}
  <1>1. /\ S \in SUBSET Cells /\ \A c \in S : cell[c] = "live" /\ ~Rooted(c)
        /\ \A c \in Cells : cell'[c] = IF c \notin S THEN cell[c]
                                       ELSE IF is[c] = "function" THEN "queued" ELSE "gone"
        /\ queue' = queue \cup {c \in S : is[c] = "function"}
        /\ UNCHANGED <<held, is, target, bufferOf, jsHeld, proxy, base, jsStringProxies,
                       finalizing>>
    BY DEF Garbage, Collect, finalize, queueFinalizationRegistryCallback
  <1>2. Unmakes(R)
    BY <1>1 DEF Unmakes, Alive
  <1>3. \A o \in Objects : /\ Finalized(S, o) \in SUBSET Gone(R, o)
                           /\ ~finalizing => Finalized(S, o) = Gone(R, o)
    BY DEF Finalized, GivesBack, Gone
  <1>4. \A c \in Cells : Rooted(c) /\ cell[c] = "live" => cell'[c] = "live"
    BY <1>1
  <1>5. \A c \in jsHeld : cell'[c] = "live"
    BY <1>4 DEF Rooted, Inv, TypeOK, NothingDangles
  <1>6. \A c \in Cells : cell'[c] = "live" =>
            cell[c] = "live" /\ (is[c] = "bytes" => cell'[bufferOf[c]] = "live")
    BY <1>1, <1>4 DEF Rooted, Inv, CellInv, NothingDangles
  <1>7. /\ SetRefs(refs') /\ refs' \in [Objects -> Int]
        /\ \A o \in Objects : \/ refs'[o] = refs[o] - Cardinality(Gone(R, o))
                              \/ finalizing /\ \E n \in 0..Cardinality(Gone(R, o)) :
                                                refs'[o] = refs[o] - n
    <2> HIDE DEF R
    <2>1. SetRefs([o \in Objects |-> refs[o] - Cardinality(Finalized(S, o))])
      BY DEF Collect, finalize
    <2>2. refs' = [o \in Objects |-> refs[o] - Cardinality(Finalized(S, o))]
      BY <2>1 DEF SetRefs
    <2>3. ASSUME NEW o \in Objects
          PROVE  /\ Cardinality(Finalized(S, o)) \in Nat
                 /\ Cardinality(Gone(R, o)) \in Nat
                 /\ Cardinality(Finalized(S, o)) <= Cardinality(Gone(R, o))
      <3>1. Gone(R, o) \in SUBSET Cells /\ Finalized(S, o) \in SUBSET Gone(R, o)
        BY <1>2, <1>3 DEF Unmakes, Gone
      <3>2. IsFiniteSet(Gone(R, o)) /\ Cardinality(Gone(R, o)) \in Nat
        BY <3>1, SubsetOfCells, FS_Subset, LifetimesAssumption
      <3> QED  BY <3>1, <3>2, FS_Subset, FS_CardinalityType
    <2>4. \A o \in Objects : refs[o] \in Nat
      BY DEF Inv, TypeOK
    <2>5. refs' \in [Objects -> Int]
      BY <2>2, <2>3, <2>4
    <2>6. ASSUME NEW o \in Objects
          PROVE  \/ refs'[o] = refs[o] - Cardinality(Gone(R, o))
                 \/ finalizing /\ \E n \in 0..Cardinality(Gone(R, o)) : refs'[o] = refs[o] - n
      <3>1. refs'[o] = refs[o] - Cardinality(Finalized(S, o))
        BY <2>2
      <3>2. CASE finalizing
        <4>1. Cardinality(Finalized(S, o)) \in 0..Cardinality(Gone(R, o))
          BY <2>3
        <4> QED  BY <3>1, <3>2, <4>1
      <3>3. CASE ~finalizing
        BY <1>3, <3>1, <3>3
      <3> QED  BY <3>2, <3>3
    <2> QED  BY <2>1, <2>2, <2>5, <2>6
  <1>8. /\ CountInv' /\ NothingDangles'
        /\ refs' \in [Objects -> Nat] /\ kind' \in [Objects -> {"none"} \cup Kinds]
    <2> HIDE DEF R
    <2> QED  BY <1>2, <1>5, <1>6, <1>7, UnmakesKeeps
  <1>9. CellInv'
    BY <1>1 DEF Inv, CellInv
  <1>10. externalStrings' \in [Objects -> Nat] /\ StringsFindTheirObject'
    <2>1. CASE finalizing
      BY <1>1, <2>1 DEF Collect, finalize, Inv, TypeOK, StringsFindTheirObject
    <2>2. CASE ~finalizing
      <3> DEFINE E(o) == {c \in S : is[c] = "external" /\ target[c] = o}
      <3>1. externalStrings' = [o \in Objects |-> externalStrings[o] - Cardinality(E(o))]
        BY <2>2 DEF Collect, finalize, finalizeStrings
      <3>2. ASSUME NEW o \in Objects
            PROVE  externalStrings[o] - Cardinality(E(o)) = Cardinality(Externals(o)')
                   /\ Cardinality(Externals(o)') \in Nat
        <4>1. E(o) \in SUBSET Externals(o) /\ Externals(o) \ R = Externals(o) \ E(o)
          BY <1>1 DEF Externals, Standing, Alive
        <4>2. Externals(o)' = Externals(o) \ R
          BY <1>2, CellsUnmade
        <4>3. externalStrings[o] = Cardinality(Externals(o))
          BY <2>2 DEF Inv, StringsFindTheirObject, Externals
        <4>4. Externals(o) \in SUBSET Cells /\ Externals(o) \ E(o) \in SUBSET Cells
          BY Pieces
        <4> HIDE DEF R, E
        <4>5. Cardinality(Externals(o) \ E(o)) = Cardinality(Externals(o)) - Cardinality(E(o))
          BY <4>1, <4>4, CellsRemoved
        <4>6. Cardinality(Externals(o) \ E(o)) \in Nat
          BY <4>4, SubsetOfCells
        <4> QED  BY <4>1, <4>2, <4>3, <4>5, <4>6
      <3> HIDE DEF E
      <3>3. \A o \in Objects : externalStrings'[o] = Cardinality(Externals(o)')
                               /\ Cardinality(Externals(o)') \in Nat
        BY <3>1, <3>2
      <3> QED  BY <3>1, <3>2, <3>3 DEF StringsFindTheirObject, Externals
    <2> QED  BY <2>1, <2>2
  <1>11. StringInv' /\ PointersFresh'
    <2>1. \A s \in Proxied : base[s] # NoCell => cell'[base[s]] = "live"
      BY <1>4 DEF Rooted, Inv, TypeOK, StringInv, Proxied
    <2>2. Proxied' = Proxied /\ stale' = stale \cup moved /\ phase' = "ending"
      BY DEF Proxied, Collect
    <2> QED  BY <1>1, <2>1, <2>2 DEF Inv, StringInv, PointersFresh
  <1>12. TypeOK'
    <2>1. cell' \in [Cells -> {"none", "live", "queued", "gone"}]
      BY DEF Collect, finalize, Inv, TypeOK
    <2>2. stale' \subseteq Strings /\ phase' = "ending"
      BY DEF Collect, Proxied, Inv, TypeOK
    <2> QED  BY <1>1, <1>8, <1>10, <2>1, <2>2 DEF Inv, TypeOK
  <1> QED  BY <1>8, <1>9, <1>10, <1>11, <1>12 DEF Inv

LEMMA functionRegistryCallbackKeeps ==
    ASSUME Inv, NEW c \in Cells, functionRegistryCallback(c)
    PROVE  Inv'
  <1>1. /\ cell[c] = "queued" /\ is[c] = "function" /\ target[c] \in Objects
        /\ cell' = [cell EXCEPT ![c] = "gone"] /\ queue' = queue \ {c}
        /\ \A d \in Cells : cell'[d] = IF d = c THEN "gone" ELSE cell[d]
        /\ UNCHANGED <<held, is, target, bufferOf, jsHeld, externalStrings, strVars, phase,
                       finalizing>>
    BY DEF functionRegistryCallback, Inv, TypeOK, CellInv
  <1>2. Unmakes({c})
    BY <1>1 DEF Unmakes, Alive
  <1>3. ASSUME NEW o \in Objects
        PROVE  Cardinality(Gone({c}, o)) = IF target[c] = o THEN 1 ELSE 0
    <2>1. Gone({c}, o) = IF target[c] = o THEN {c} ELSE {}
      BY DEF Gone
    <2>2. CASE target[c] = o
      BY <2>1, <2>2, FS_Singleton
    <2>3. CASE target[c] # o
      BY <2>1, <2>3, FS_EmptySet
    <2> QED  BY <2>2, <2>3
  <1>4. /\ SetRefs(refs') /\ refs' \in [Objects -> Int]
        /\ \A o \in Objects : refs'[o] = refs[o] - Cardinality(Gone({c}, o))
    <2>1. SetRefs([refs EXCEPT ![target[c]] = @ - 1])
      BY DEF functionRegistryCallback
    <2>2. refs' = [refs EXCEPT ![target[c]] = @ - 1]
      BY <2>1 DEF SetRefs
    <2>3. \A o \in Objects : refs'[o] = refs[o] - (IF target[c] = o THEN 1 ELSE 0)
      BY <1>1, <2>2 DEF Inv, TypeOK
    <2>4. refs' \in [Objects -> Int]
      BY <1>1, <2>2 DEF Inv, TypeOK
    <2> QED  BY <1>3, <2>1, <2>2, <2>3, <2>4
  <1>5. \A d \in jsHeld : cell'[d] = "live"
    BY <1>1 DEF Inv, TypeOK, NothingDangles
  <1>6. \A d \in Cells : cell'[d] = "live" =>
            cell[d] = "live" /\ (is[d] = "bytes" => cell'[bufferOf[d]] = "live")
    BY <1>1 DEF Inv, CellInv, NothingDangles
  <1>7. /\ CountInv' /\ NothingDangles'
        /\ refs' \in [Objects -> Nat] /\ kind' \in [Objects -> {"none"} \cup Kinds]
    BY <1>2, <1>4, <1>5, <1>6, UnmakesKeeps
  <1>8. TypeOK' /\ CellInv'
    BY <1>1, <1>7 DEF strVars, Inv, TypeOK, CellInv
  <1>9. StringsFindTheirObject'
    <2>1. \A o \in Objects : Externals(o)' = Externals(o)
      BY <1>1, <1>2, CellsUnmade DEF Externals
    <2> QED  BY <1>1, <2>1 DEF Inv, StringsFindTheirObject, Externals
  <1>10. StringInv' /\ PointersFresh'
    BY <1>1 DEF strVars, Inv, TypeOK, StringInv, PointersFresh, Proxied
  <1> QED  BY <1>7, <1>8, <1>9, <1>10 DEF Inv

\* The characters move, and the JSStringProxies in the set are updated.
LEMMA CollectNurseryKeeps ==
    ASSUME Inv, NEW moved \in SUBSET Proxied, CollectNursery(moved)
    PROVE  Inv'
  <1>1. CountInv' /\ CellInv' /\ StringsFindTheirObject' /\ NothingDangles'
    BY HeapsStay DEF CollectNursery, jsVars, Inv, TypeOK, NothingDangles
  <1>2. TypeOK' /\ StringInv' /\ PointersFresh'
    BY DEF CollectNursery, updateCharBufferPointers, pyVars, jsVars, Inv, TypeOK, StringInv,
       PointersFresh, Proxied
  <1> QED  BY <1>1, <1>2 DEF Inv

LEMMA EndCollectKeeps ==
    ASSUME Inv, EndCollect
    PROVE  Inv'
  <1>1. CountInv' /\ CellInv' /\ StringsFindTheirObject' /\ NothingDangles'
    BY HeapsStay DEF EndCollect, jsVars, Inv, TypeOK, NothingDangles
  <1>2. TypeOK' /\ StringInv' /\ PointersFresh'
    BY DEF EndCollect, updateCharBufferPointers, pyVars, jsVars, Inv, TypeOK, StringInv,
       PointersFresh, Proxied
  <1> QED  BY <1>1, <1>2 DEF Inv

LEMMA FinalizeKeeps ==
    ASSUME Inv, Finalize
    PROVE  Inv'
  <1>1. CountInv' /\ CellInv' /\ StringsFindTheirObject' /\ NothingDangles'
    BY HeapsStay DEF Finalize, jsVars, Inv, TypeOK, NothingDangles
  <1>2. TypeOK' /\ StringInv' /\ PointersFresh'
    BY DEF Finalize, pyVars, jsVars, strVars, Inv, TypeOK, StringInv, PointersFresh, Proxied
  <1> QED  BY <1>1, <1>2 DEF Inv

LEMMA StutterKeeps ==
    ASSUME Inv, UNCHANGED vars
    PROVE  Inv'
  <1>1. CountInv' /\ CellInv' /\ StringsFindTheirObject' /\ NothingDangles'
    BY HeapsStay DEF vars, jsVars, Inv, TypeOK, NothingDangles
  <1>2. TypeOK' /\ StringInv' /\ PointersFresh'
    BY DEF vars, pyVars, jsVars, strVars, Inv, TypeOK, StringInv, PointersFresh, Proxied
  <1> QED  BY <1>1, <1>2 DEF Inv

-----------------------------------------------------------------------------
(* The invariant, and what follows from it. *)

LEMMA InitInv == Init => Inv
  <1> SUFFICES ASSUME Init PROVE Inv
    OBVIOUS
  <1>1. TypeOK
    BY DEF Init, TypeOK
  <1>2. \A o \in Objects : Standing(o) = {} /\ Leaks(o) = {} /\ Externals(o) = {}
    BY DEF Init, Standing, Leaks, Externals, Alive
  <1>3. Cardinality({}) = 0
    BY FS_EmptySet
  <1>4. CountInv
    BY <1>2, <1>3 DEF Init, CountInv, Count
  <1>5. StringsFindTheirObject
    BY <1>2, <1>3 DEF Init, StringsFindTheirObject, Externals
  <1>6. CellInv /\ StringInv /\ NothingDangles /\ PointersFresh
    BY DEF Init, CellInv, StringInv, NothingDangles, PointersFresh, Proxied, Alive
  <1> QED  BY <1>1, <1>4, <1>5, <1>6 DEF Inv

LEMMA NextInv == Inv /\ [Next]_vars => Inv'
  <1> SUFFICES ASSUME Inv, [Next]_vars PROVE Inv'
    OBVIOUS
  <1>1. ASSUME NEW o \in Objects, Drop(o) \/ \E k \in Kinds : NewObject(o, k)
        PROVE  Inv'
    BY <1>1, DropKeeps, NewObjectKeeps
  <1>2. ASSUME NEW s \in Strings, JSStringProxy_dealloc(s) \/ toJSString(s)
        PROVE  Inv'
    BY <1>2, StringDeallocKeeps, toJSStringKeeps
  <1>3. ASSUME NEW o \in Objects, NEW c \in Cells,
               toExternalString(o, c) \/ toWrapper(o, c) \/ toJsTypedArray(o, c)
        PROVE  Inv'
    BY <1>3, toExternalStringKeeps, toWrapperKeeps, toJsTypedArrayKeeps
  <1>4. ASSUME NEW o \in Objects, NEW c \in Cells, NEW b \in Cells, toJsBytes(o, c, b)
        PROVE  Inv'
    BY <1>4, toJsBytesKeeps
  <1>5. ASSUME NEW c \in Cells,
               Unwrap(c) \/ getBuffer(c) \/ Forget(c) \/ functionRegistryCallback(c)
        PROVE  Inv'
    BY <1>5, UnwrapKeeps, getBufferKeeps, ForgetKeeps, functionRegistryCallbackKeeps
  <1>6. ASSUME NEW s \in Strings, NEW c \in Cells \cup {NoCell}, proxifyString(s, c)
        PROVE  Inv'
    BY <1>6, proxifyStringKeeps
  <1>7. ASSUME NEW S \in SUBSET Garbage, NEW moved \in SUBSET Proxied, Collect(S, moved)
        PROVE  Inv'
    BY <1>7, CollectKeeps
  <1>8. ASSUME NEW moved \in SUBSET Proxied, CollectNursery(moved)
        PROVE  Inv'
    BY <1>8, CollectNurseryKeeps
  <1>9. CASE UNCHANGED vars
    BY <1>9, StutterKeeps
  <1> QED
    BY <1>1, <1>2, <1>3, <1>4, <1>5, <1>6, <1>7, <1>8, <1>9, EndCollectKeeps, FinalizeKeeps
       DEF Next

LEMMA Invariance == Spec => []Inv
  BY InitInv, NextInv, PTL DEF Spec

\* Counts are counts, and every set is one of the things it is a set of: no reference
\* count, and no entry of the map of external strings, is ever counted below zero.
THEOREM TypeCorrect == Spec => []TypeOK
  <1>1. Inv => TypeOK
    BY DEF Inv
  <1> QED  BY <1>1, Invariance, PTL

\* Until Python is finalizing, an object has exactly one reference from the program,
\* one from each cell that stands for it, and one from each of the two conversions that
\* leak (an iterator's, a writable buffer's); it is freed with the last.
THEOREM ReferencesExact == Spec => []RefsExact
  <1>1. Inv => RefsExact
    BY DEF Inv, CountInv, Count, RefsExact
  <1> QED  BY <1>1, Invariance, PTL

\* externalStringObjToRefCountMap has, for every str, as many entries as external
\* strings use its buffer, so that a string that is handed back finds its own object.
THEOREM StringsFound == Spec => []StringsFindTheirObject
  <1>1. Inv => StringsFindTheirObject
    BY DEF Inv
  <1> QED  BY <1>1, Invariance, PTL

\* Whatever the two programs let go of, and also when Python is finalizing, what
\* JavaScript can reach stands for a Python object that is still the one it was made
\* for.
THEOREM NoneDangles == Spec => []NothingDangles
  <1>1. Inv => NothingDangles
    BY DEF Inv
  <1> QED  BY <1>1, Invariance, PTL

\* Until Python is finalizing, no Python string outside the callback at the end of a
\* collection points to where its characters were, and each keeps its string alive.
THEOREM FreshPointers == Spec => []PointersFresh
  <1>1. Inv => PointersFresh
    BY DEF Inv
  <1> QED  BY <1>1, Invariance, PTL
=================================================================================
