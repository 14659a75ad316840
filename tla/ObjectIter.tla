------------------------------- MODULE ObjectIter -------------------------------
(***************************************************************************)
(* The iterators of src/src/JSObjectIterProxy.cc over the keys, values or  *)
(* items of a JavaScript object, in a program that may change the object   *)
(* in any way between two calls of next().  An iterator copies the keys    *)
(* when it is made, but counts up to the present length of the object: it  *)
(* reads beyond its copy when the object has more properties than then.    *)
(*                                                                         *)
(* `objIt` has the fields of the code's, and a history: the number of      *)
(* items given, the last of them, and whether the object has had more or   *)
(* fewer properties than the copy.                                         *)
(***************************************************************************)
EXTENDS ObjectMethods

CONSTANT Values    \* what a property may be, besides None

VARIABLES obj, objIt

objIterVars == <<obj, objIt>>

Kinds == {"keys", "values", "items"}
Objects == Seq(Names \X (Values \cup {None}))

NoObjectIter == [state |-> "none", kind |-> "keys", reversed |-> FALSE, index |-> 0, props |-> <<>>,
                 given |-> 0, out |-> <<>>, grown |-> FALSE, lessened |-> FALSE]

ObjectIterator(kind, reversed, place) ==
    /\ objIt = NoObjectIter
    /\ objIt' = [NoObjectIter EXCEPT !.state = "live", !.kind = kind, !.reversed = reversed,
                            !.index = place, !.props = OwnKeys(obj)]
    /\ UNCHANGED obj

\* iter() of the object or of a view, and reversed() of a view.
JSObjectProxy_iter == ObjectIterator("keys", FALSE, 0)
JSObjectKeysProxy_iter == ObjectIterator("keys", FALSE, 0)
JSObjectValuesProxy_iter == ObjectIterator("values", FALSE, 0)
JSObjectItemsProxy_iter == ObjectIterator("items", FALSE, 0)
\* Mutant of JSObjectKeysProxy_iter_reverse
FromLength == ObjectIterator("keys", TRUE, JSObjectProxy_length(obj))
JSObjectKeysProxy_iter_reverse == ObjectIterator("keys", TRUE, JSObjectProxy_length(obj) - 1)
JSObjectValuesProxy_iter_reverse == ObjectIterator("values", TRUE, JSObjectValuesProxy_length(obj) - 1)
JSObjectItemsProxy_iter_reverse == ObjectIterator("items", TRUE, JSObjectItemsProxy_length(obj) - 1)

\* Mutant of AtObjectEnd
CountSnapshot == IF objIt.reversed THEN objIt.index < 0 ELSE objIt.index >= Len(objIt.props) - 1
AtObjectEnd == IF objIt.reversed THEN objIt.index < 0 ELSE objIt.index >= JSObjectProxy_length(obj)
InCopy == objIt.index < Len(objIt.props)

Item(key) == CASE objIt.kind = "keys" -> <<key>>
               [] objIt.kind = "values" -> <<GetProperty(obj, key)>>
               [] objIt.kind = "items" -> <<key, GetProperty(obj, key)>>

JSObjectIterProxy_nextkey ==
    /\ objIt.state = "live" /\ ~AtObjectEnd /\ InCopy
    /\ objIt' = [objIt EXCEPT !.index = IF objIt.reversed THEN @ - 1 ELSE @ + 1,
                              !.given = @ + 1, !.out = Item(objIt.props[objIt.index + 1])]
    /\ UNCHANGED obj

\* it.props is a vector without a check of its bounds.
ReadBeyondCopy ==
    /\ objIt.state = "live" /\ ~AtObjectEnd /\ ~InCopy
    /\ objIt' = [objIt EXCEPT !.state = "crashed"]
    /\ UNCHANGED obj

\* StopIteration, now and at every further call.
objNextEnds ==
    /\ objIt.state = "live" /\ AtObjectEnd
    /\ objIt' = [objIt EXCEPT !.state = "spent", !.out = <<>>]
    /\ UNCHANGED obj
objNextAgain == objIt.state = "spent" /\ UNCHANGED objIterVars

JSObjectIterProxy_dealloc == objIt.state \in {"live", "spent"} /\ objIt' = NoObjectIter /\ UNCHANGED obj

\* The history of a change of the object.
ObjectNoticed == objIt' = IF objIt.state = "none" THEN objIt
                          ELSE [objIt EXCEPT !.grown = @ \/ Len(obj') > Len(objIt.props),
                                             !.lessened = @ \/ Len(obj') < Len(objIt.props)]
ChangeObject == objIt.state # "crashed" /\ obj' \in Objects /\ ObjectNoticed

ObjectIterInit == obj \in Objects /\ objIt = NoObjectIter

ObjectIterNext == \/ JSObjectProxy_iter \/ JSObjectKeysProxy_iter \/ JSObjectKeysProxy_iter_reverse
                  \/ JSObjectValuesProxy_iter \/ JSObjectValuesProxy_iter_reverse
                  \/ JSObjectItemsProxy_iter \/ JSObjectItemsProxy_iter_reverse
                  \/ JSObjectIterProxy_nextkey \/ ReadBeyondCopy \/ objNextEnds \/ objNextAgain
                  \/ JSObjectIterProxy_dealloc
                  \/ ChangeObject

ObjectIterSpec == ObjectIterInit /\ [][ObjectIterNext]_objIterVars

-----------------------------------------------------------------------------
(* Properties. *)

\* An iterator reads within its copy of the keys unless properties were added
\* to the object in the meantime, and backward it always does.
IterationIsSafe == objIt.state = "crashed" => objIt.grown /\ ~objIt.reversed

\* An iterator that ends has been to every key there was at the start, unless
\* properties were removed under a forward iterator; and to none twice.
IterationIsComplete ==
    /\ objIt.given <= Len(objIt.props)
    /\ (objIt.state = "spent" /\ (objIt.reversed \/ ~objIt.lessened)) => objIt.given = Len(objIt.props)
=================================================================================
