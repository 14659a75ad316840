------------------------------- MODULE ArrayProxy -------------------------------
(***************************************************************************)
(* A JavaScript Array in the hands of a Python program, through            *)
(* src/src/JSArrayProxy.cc.  An operation of ArrayMethods is one step.     *)
(* Iteration, with the iterators of ArrayIter, is a step for each item,    *)
(* and in between the program, in either language, may change the array.   *)
(* `last` is the operation that has just returned, until the program has   *)
(* looked at its result.                                                   *)
(***************************************************************************)
EXTENDS ListStandard, ArrayIter

CONSTANTS Operations,   \* the operations the program uses
          Starts, Stops, Steps,   \* of the slices it uses, Missing for none
          Factors,      \* of the repetitions it asks for
          MaxOperand,   \* bound: elements of an operand
          MaxLen,       \* bound: length of the array before an operation
          MaxGrown      \* bound: length of the array afterwards

ASSUME ArrayAssumption ==
    /\ None \in Items /\ Items \ {None} \subseteq Int
    /\ MaxOperand \in Nat /\ MaxLen \in Nat /\ MaxGrown \in Nat /\ MaxLen <= MaxGrown
    /\ Factors \subseteq Int
    /\ Starts \cup Stops \subseteq Int \cup {Missing} /\ Steps \subseteq Int \ {0}
    /\ Operations \subseteq {"len", "get", "set", "del", "getslice", "setslice", "delslice", "compare",
                            "concat", "repeat", "iadd", "imul", "contains", "clear", "copy", "append",
                            "insert", "extend", "pop", "remove", "index", "count", "reverse", "sort"}

VARIABLE last

vars == <<arr, arrIt, last>>

Values == Items \ {None}
NoCall == [op |-> "none"]

Init == /\ arr \in BoundedSeq(Items, MaxLen)
        /\ arrIt = NoArrayIter
        /\ last = NoCall

-----------------------------------------------------------------------------
(* The operations of the list. *)

Slices == [start : Starts, stop : Stops, step : Steps]
Operands == {[kind |-> k, items |-> s] : k \in {"list", "tuple", "proxy"}, s \in BoundedSeq(Values, MaxOperand)}
              \cup {[kind |-> "self", items |-> <<>>]}
Lists == {v \in Operands : v.kind # "tuple"}
Indices == (-(MaxLen + 1))..(MaxLen + 1)
Sortings == {"none", "jsStyle", "notCallable"} \cup Keys

Arguments(op) ==
    CASE op \in {"get", "del"} -> [1..1 -> Indices]
      [] op = "pop" -> [1..1 -> Indices]
      [] op \in {"set", "insert"} -> Indices \X Values
      [] op \in {"getslice", "delslice"} -> [1..1 -> Slices]
      [] op = "setslice" -> Slices \X Operands
      [] op = "compare" -> Operands \X (Orders \cup {"==", "!="})
      [] op \in {"concat", "extend"} -> [1..1 -> Operands]
      [] op = "iadd" -> [1..1 -> Lists]
      [] op \in {"repeat", "imul"} -> [1..1 -> Factors]
      [] op \in {"contains", "append", "remove", "count"} -> [1..1 -> Items]
      [] op = "index" -> Items \X Indices \X (Indices \cup {Missing})
      [] op = "sort" -> Sortings \X BOOLEAN
      [] OTHER -> {<<>>}

Perform(op, a, x) ==
    CASE op = "len" -> Ok(a, Len(a))
      [] op = "get" -> GetIndex(a, x[1])
      [] op = "set" -> SetIndex(a, x[1], x[2])
      [] op = "del" -> DelIndex(a, x[1])
      [] op = "getslice" -> GetSlice(a, x[1])
      [] op = "setslice" -> SetSlice(a, x[1], x[2])
      [] op = "delslice" -> DelSlice(a, x[1])
      [] op = "compare" -> richcompare(a, x[1], x[2])
      [] op = "concat" -> concat(a, x[1])
      [] op = "repeat" -> repeat(a, x[1])
      [] op = "iadd" -> inplace_concat(a, x[1])
      [] op = "imul" -> inplace_repeat(a, x[1])
      [] op = "contains" -> contains(a, x[1])
      [] op = "clear" -> clear_method(a)
      [] op = "copy" -> copy(a)
      [] op = "append" -> append(a, x[1])
      [] op = "insert" -> insert(a, x[1], x[2])
      [] op = "extend" -> extend(a, x[1])
      [] op = "pop" -> pop(a, x[1])
      [] op = "remove" -> remove(a, x[1])
      [] op = "index" -> index(a, x[1], x[2], x[3])
      [] op = "count" -> count(a, x[1])
      [] op = "reverse" -> reverse(a)
      [] op = "sort" -> sort(a, x[1], x[2])

\* Bound: one operation from every array, no iterator being there.  Python
\* compares keys with <, so None is not sorted.
Do(op, args) ==
    /\ last = NoCall /\ arrIt = NoArrayIter /\ Len(arr) <= MaxLen
    /\ op = "sort" => None \notin Range(arr)
    /\ LET r == Perform(op, arr, args)
       IN  /\ Len(r.arr) <= MaxGrown
           /\ arr' = r.arr
           /\ last' = [op |-> op, args |-> args, before |-> arr,
                       ret |-> r.ret, err |-> r.err, fresh |-> r.fresh]
    /\ UNCHANGED arrIt

\* The program has used the result.
Consume == last # NoCall /\ last' = NoCall /\ UNCHANGED <<arr, arrIt>>

\* Bound: an array that has grown too long is emptied.
Empty == /\ last = NoCall /\ arrIt = NoArrayIter /\ Len(arr) > MaxLen
         /\ arr' = clear_method(arr).arr
         /\ UNCHANGED <<arrIt, last>>

-----------------------------------------------------------------------------
(* Iterators. *)

Iterate == /\ last = NoCall /\ Len(arr) <= MaxLen
           /\ JSArrayProxy_iter \/ JSArrayProxy_iter_reverse
           /\ UNCHANGED last
IterStep(A) == A /\ UNCHANGED last

\* JavaScript, or a proxy in Python, changes the array in the meantime.
Meanwhile(a) ==
    /\ arrIt.state # "none" /\ Len(a) <= MaxLen
    /\ arr' = a
    /\ ArrayNoticed
    /\ UNCHANGED last

Push == \E x \in Values : Meanwhile(append(arr, x).arr)
Pop == arr # <<>> /\ Meanwhile(pop(arr, -1).arr)
Shift == arr # <<>> /\ Meanwhile(pop(arr, 0).arr)

Next == \/ \E op \in Operations : \E args \in Arguments(op) : Do(op, args)
        \/ Consume \/ Empty
        \/ Iterate
        \/ IterStep(JSArrayIterProxy_next) \/ IterStep(arrNextEnds) \/ IterStep(arrNextAgain)
        \/ IterStep(JSArrayIterProxy_dealloc)
        \/ Push \/ Pop \/ Shift

Spec == Init /\ [][Next]_vars

-----------------------------------------------------------------------------
(* Properties. *)

\* What is known to be otherwise: a slice that grows in front of a tail longer than
\* the growth; s[::k] = s; += of another JS array; s + [], which is s itself and
\* no copy; < and the like between two JS arrays, where the comparison
\* dereferences a NULL pointer.
Grows == LET sl == last.args[1]
             s == last.before
             d == Len(OperandItems(last.args[2], s)) - Cardinality(Places(sl, s))
             after == Len(s) - Gap(sl, s) - Cardinality(Places(sl, s))
         IN  sl.step = 1 /\ d > 0 /\ after > d
Known == CASE last.op = "setslice" -> Grows \/ (last.args[1].step # 1 /\ last.args[2].kind = "self")
           [] last.op = "iadd" -> IsProxy(last.args[1])
           [] last.op = "concat" -> OperandItems(last.args[1], last.before) = <<>>
           [] last.op = "compare" -> last.err = "crash"
           [] OTHER -> FALSE

\* Every operation leaves in the array, and returns or raises, what Python's list
\* does, whatever the signs and sizes of indices, slices and operands, and
\* whether an operand is a list, a tuple, another JS array or the array itself;
\* and what should be a new list is one.
OperationsMeetStandard ==
    (last # NoCall /\ ~Known) =>
        LET c == [op |-> last.op, args |-> last.args]
        IN  /\ last.err = Failure(c, last.before)
            /\ arr = Edited(c, last.before)
            /\ last.err = "none" => last.ret = Answer(c, last.before)
            /\ last.op \in {"getslice", "concat", "repeat", "copy"} => last.fresh
=================================================================================
