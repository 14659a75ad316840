------------------------------- MODULE ArrayIter -------------------------------
(***************************************************************************)
(* The iterators of src/src/JSArrayIterProxy.cc over a JavaScript Array,   *)
(* in a program that may change the array in any way between two calls of  *)
(* next().  An iterator reads the array itself, element by element: it     *)
(* keeps a place in it, and no copy.                                       *)
(*                                                                         *)
(* `arrIt` has three fields of the code's, and a history: how long the     *)
(* array was when the iterator was made, how many items it gave, whether   *)
(* the array shrank meanwhile, whether an item was given from a place that *)
(* had gone, and whether the iterator ended before its time.               *)
(***************************************************************************)
EXTENDS Integers, Sequences

CONSTANT Items    \* what an array may hold

VARIABLES arr, arrIt

arrIterVars == <<arr, arrIt>>

ArrayIterator(state, reversed, place) ==
    [state |-> state, reversed |-> reversed, index |-> place, start |-> Len(arr),
     given |-> 0, shrunk |-> FALSE, stale |-> FALSE, short |-> FALSE]
NoArrayIter == [state |-> "none", reversed |-> FALSE, index |-> 0, start |-> 0,
                given |-> 0, shrunk |-> FALSE, stale |-> FALSE, short |-> FALSE]

JSArrayProxy_iter == /\ arrIt = NoArrayIter
                     /\ arrIt' = ArrayIterator("live", FALSE, 0)
                     /\ UNCHANGED arr

JSArrayProxy_iter_reverse == /\ arrIt = NoArrayIter
                             /\ arrIt' = ArrayIterator("live", TRUE, Len(arr) - 1)
                             /\ UNCHANGED arr

\* Mutant of AtArrayEnd
LengthAtStart == IF arrIt.reversed THEN arrIt.index < 0 ELSE arrIt.index >= arrIt.start
AtArrayEnd == IF arrIt.reversed THEN arrIt.index < 0 ELSE arrIt.index >= Len(arr)

JSArrayIterProxy_next ==
    /\ arrIt.state = "live" /\ ~AtArrayEnd
    /\ arrIt' = [arrIt EXCEPT !.index = IF arrIt.reversed THEN @ - 1 ELSE @ + 1,
                              !.given = @ + 1,
                              !.stale = @ \/ arrIt.index >= Len(arr)]
    /\ UNCHANGED arr

\* StopIteration: the iterator lets go of the array.
arrNextEnds ==
    /\ arrIt.state = "live" /\ AtArrayEnd
    /\ arrIt' = [arrIt EXCEPT !.state = "spent",
                              !.short = IF arrIt.reversed THEN arrIt.given # arrIt.start
                                        ELSE arrIt.given < Len(arr)]
    /\ UNCHANGED arr

\* A call of next() after that.
SeqNotCleared == /\ arrIt.state = "spent"     \* mutant of arrNextAgain
                 /\ arrIt' = [arrIt EXCEPT !.state = IF AtArrayEnd THEN "spent" ELSE "live"]
                 /\ UNCHANGED arr
arrNextAgain == /\ arrIt.state = "spent"
                /\ UNCHANGED arrIterVars

JSArrayIterProxy_dealloc == arrIt.state # "none" /\ arrIt' = NoArrayIter /\ UNCHANGED arr

\* The history of a change of the array.
ArrayNoticed == arrIt' = IF arrIt.state = "none" THEN arrIt
                         ELSE [arrIt EXCEPT !.shrunk = @ \/ Len(arr') < Len(arr)]
ChangeArray == arr' \in Seq(Items) /\ ArrayNoticed

ArrayIterInit == arr \in Seq(Items) /\ arrIt = NoArrayIter

ArrayIterNext == \/ JSArrayProxy_iter \/ JSArrayProxy_iter_reverse
                 \/ JSArrayIterProxy_next \/ arrNextEnds \/ arrNextAgain
                 \/ JSArrayIterProxy_dealloc
                 \/ ChangeArray

ArrayIterSpec == ArrayIterInit /\ [][ArrayIterNext]_arrIterVars

-----------------------------------------------------------------------------
(* Properties. *)

\* An iterator gives each place once: forward, it ends only when it has been to
\* every place there is; backward, to every place there was at the start.  What it
\* gives is in the array, unless the array has shrunk under a backward iterator.
IterationIsFaithful ==
    /\ ~arrIt.short
    /\ arrIt.stale => arrIt.shrunk /\ arrIt.reversed

\* An iterator that has said StopIteration says so for ever, even when the array
\* grows afterwards.
SpentStaysSpent == [][arrIt.state = "spent" => arrIt'.state \in {"spent", "none"}]_arrIterVars
================================================================================
