------------------------------ MODULE ListMethods ------------------------------
(***************************************************************************)
(* The methods that src/src/PyListProxyHandler.cc gives a Python list when *)
(* JavaScript sees it as an Array, as functions of a heap.  A heap is the  *)
(* list, the reference counts of the items, the Python list a method       *)
(* makes (`out`), its result, and whether a method has used an item after  *)
(* its last reference was dropped.                                         *)
(*                                                                         *)
(* An item is the identity of a Python object.  Some are containers, a     *)
(* list or an array with contents.  `args` is the sequence of the          *)
(* arguments, numbers where the method wants numbers: a missing argument   *)
(* is an absent element, and Undefined stands for an explicit undefined.   *)
(***************************************************************************)
EXTENDS Integers, SequencesExt, FiniteSetsExt

CONSTANTS Items,      \* objects a list may hold
          None,       \* Python's None
          Undefined,  \* JavaScript's undefined
          Contents    \* the containers among the items, with what they hold

ASSUME ItemsAssumption == None \in Items /\ Undefined \notin Items /\ Undefined \notin Int \cup {"-"}
ASSUME ContentsAssumption ==
    /\ DOMAIN Contents \subseteq Items
    /\ \A c \in DOMAIN Contents : Contents[c] \in Seq(Items)

Containers == DOMAIN Contents
MaxDepth == 3   \* bound: containers nest no deeper

-----------------------------------------------------------------------------
(* The C API of lists, and the two conversions, by their effect on         *)
(* reference counts.  Indices count from 0.                                *)

Incref(h, x) == [h EXCEPT !.refs[x] = @ + 1]
Decref(h, x) == [h EXCEPT !.refs[x] = @ - 1]
Count(s, x) == Cardinality({i \in DOMAIN s : s[i] = x})
Hold(h, s) == [h EXCEPT !.refs = [x \in Items |-> @[x] + Count(s, x)]]
Drop(h, s) == [h EXCEPT !.refs = [x \in Items |-> @[x] - Count(s, x)]]

Size(h) == Len(h.list)
GetItem(h, i) == h.list[i + 1]
SetItem(h, i, x) == Decref([h EXCEPT !.list[i + 1] = x], GetItem(h, i))  \* steals x
ListAppend(h, x) == Incref([h EXCEPT !.list = Append(@, x)], x)
ListInsert(h, i, x) == Incref([h EXCEPT !.list = InsertAt(@, i + 1, x)], x)
DelItem(h, i) == Decref([h EXCEPT !.list = RemoveAt(@, i + 1)], GetItem(h, i))
GetSlice(h, a, b) == LET s == SubSeq(h.list, a + 1, b)
                     IN  Hold([h EXCEPT !.out = s], s)
SetSlice(h, a, b, s) ==
    LET old == h.list
    IN  Drop(Hold([h EXCEPT !.list = SubSeq(old, 1, a) \o s \o SubSeq(old, b + 1, Len(old))], s),
             SubSeq(old, a + 1, b))

ToPython(h, x) == Incref(h, x)                                       \* pyTypeFactory
ToJS(h, x) == [h EXCEPT !.ret = x, !.freed = @ \/ h.refs[x] = 0]     \* jsTypeFactory
Return(h, v) == [h EXCEPT !.ret = v]
ReturnSelf(h) == Return(h, "self")
ReturnList(h) == Return(h, "list")     \* the Python list `out`, wrapped
ReturnArray(h, s) == Return(h, s)      \* a new JS array
NewArray(n) == [i \in 1..n |-> Undefined]     \* n holes, which read as undefined

Arg(args, k, default) == IF k <= Len(args) THEN args[k] ELSE default
Least(a, b) == IF a < b THEN a ELSE b
Most(a, b) == IF a > b THEN a ELSE b
Upto(a, b) == [k \in 1..Most(b - a, 0) |-> a + k - 1]     \* for (i = a; i < b; i++)
Downto(b, a) == [k \in 1..Most(b - a + 1, 0) |-> b - k + 1]   \* for (i = b; i >= a; i--)
\* The body of a loop over s, from h on.
Walk(Body(_, _), h, s) ==
    LET after[n \in 0..Len(s)] == IF n = 0 THEN h ELSE Body(after[n - 1], s[n])
    IN  after[Len(s)]

-----------------------------------------------------------------------------
(* Methods that change the list. *)

array_reverse(h, args) == ReturnSelf([h EXCEPT !.list = Reverse(@)])

array_pop(h, args) ==
    IF Size(h) = 0 THEN Return(h, Undefined)
    ELSE LET x == GetItem(h, Size(h) - 1)
         IN  Decref(ToJS([h EXCEPT !.list = Front(@)], x), x)

array_push(h, args) ==
    LET Push(g, v) == Decref(ListAppend(ToPython(g, v), v), v)
        pushed == Walk(Push, h, args)
    IN  Return(pushed, Size(pushed))

\* The item is converted after the list has let go of it.
array_shift(h, args) ==
    IF Size(h) = 0 THEN Return(h, Undefined) ELSE ToJS(DelItem(h, 0), GetItem(h, 0))

array_unshift(h, args) ==
    LET Unshift(g, v) == Decref(ListInsert(ToPython(g, v), 0, v), v)
        shifted == Walk(Unshift, h, Reverse(args))
    IN  Return(shifted, Size(shifted))

NotFromTheEnd(value, length) == Most(Least(value, length), 0)

normalizeSliceTerm(value, length) ==
    IF value < 0 THEN Most(value + length, 0) ELSE Least(value, length)

array_slice(h, args) ==
    LET start == normalizeSliceTerm(args[1], Size(h))
        stop  == IF Arg(args, 2, Undefined) = Undefined THEN Size(h)
                 ELSE normalizeSliceTerm(args[2], Size(h))
    IN  ReturnList(GetSlice(h, start, stop))

ActualIndex(relative, length) ==
    IF relative < 0 THEN Most(length + relative, 0) ELSE Least(relative, length)

\* The list `inserted` that the new items are passed in is never released.
array_splice(h, args) ==
    LET start    == ActualIndex(Arg(args, 1, 0), Size(h))
        inserted == SubSeq(args, 3, Len(args))
        rest     == Size(h) - start
        deleteCount == CASE Len(args) = 0 -> 0
                         [] Len(args) = 1 -> rest
                         [] OTHER -> Least(Most(0, args[2]), rest)
        deleted  == GetSlice(h, start, start + deleteCount)
        built    == Hold(deleted, inserted)
    IN  ReturnList(SetSlice(built, start, start + deleteCount, inserted))

FillWithoutIncref(h, args) ==
    LET start == ActualIndex(Arg(args, 2, 0), Size(h))
        end   == ActualIndex(Arg(args, 3, Size(h)), Size(h))
        Fill(g, i) == SetItem(g, i, args[1])
    IN  ReturnSelf(Decref(Walk(Fill, ToPython(h, args[1]), Upto(start, end)), args[1]))

array_fill(h, args) ==
    LET start == ActualIndex(Arg(args, 2, 0), Size(h))
        end   == ActualIndex(Arg(args, 3, Size(h)), Size(h))
        v     == args[1]
        Fill(g, i) == SetItem(Incref(g, v), i, v)
    IN  ReturnSelf(Decref(Walk(Fill, ToPython(h, v), Upto(start, end)), v))

\* SetItem is given the reference that GetItem only lends.
array_copyWithin(h, args) ==
    LET target == ActualIndex(Arg(args, 1, 0), Size(h))
        start  == ActualIndex(Arg(args, 2, 0), Size(h))
        end    == ActualIndex(Arg(args, 3, Size(h)), Size(h))
        count  == Least(end - start, Size(h) - target)
        overlap == start < target /\ target < start + count
        Copy(g, i) == SetItem(g, target + i, GetItem(g, start + i))
    IN  ReturnSelf(Walk(Copy, h, IF overlap THEN Downto(count - 1, 0) ELSE Upto(0, count)))

LengthKey == -1    \* the property name "length", among the indices

\* list[index] = v.  Beyond the end, PyList_SetItem has released v when it fails.
defineProperty(h, args) ==
    LET v == args[2]
        given == ToPython(h, v)
        filled == Walk(LAMBDA g, i : ListAppend(g, None), Decref(given, v),
                       Upto(Size(h), args[1]))
    IN  CASE args[1] = LengthKey -> Return(h, FALSE)
          [] args[1] \in 0..(Size(h) - 1) -> Return(SetItem(given, args[1], v), TRUE)
          [] OTHER -> Return(ListAppend([filled EXCEPT !.freed = @ \/ filled.refs[v] = 0], v), TRUE)

\* delete list[index]: None is given away without a reference of its own.
delete_(h, args) ==
    IF args[1] \in 0..(Size(h) - 1) THEN Return(SetItem(h, args[1], None), TRUE)
    ELSE Return(h, FALSE)

-----------------------------------------------------------------------------
(* Methods that read the list. *)

ListIndex(h, v, start) ==
    LET found == {i \in start..(Size(h) - 1) : GetItem(h, i) = v}
    IN  IF found = {} THEN -1 ELSE Min(found)

array_indexOf(h, args) ==
    LET n == Arg(args, 2, 0)
    IN  Return(h, IF Size(h) = 0 \/ n >= Size(h) THEN -1
                  ELSE ListIndex(h, args[1], IF n >= 0 THEN n ELSE Most(Size(h) + n, 0)))

array_lastIndexOf(h, args) ==
    LET n     == Arg(args, 2, Size(h) - 1)
        start == IF n < 0 THEN Size(h) + n ELSE Least(n, Size(h) - 1)
        found == {i \in 0..start : GetItem(h, i) = args[1]}
    IN  Return(h, IF Size(h) = 0 \/ found = {} THEN -1 ELSE Max(found))

array_includes(h, args) == Return(h, array_indexOf(h, args).ret >= 0)

array_concat(h, args) ==
    LET Add(g, v) == LET s == IF v \in Containers THEN Contents[v] ELSE <<v>>
                     IN  Hold([g EXCEPT !.out = @ \o s], s)
    IN  ReturnList(Walk(Add, GetSlice(h, 0, Size(h)), args))

\* FlattenIntoArray: what an element becomes in the result at each depth.
FlattenIntoArray[depth \in 0..MaxDepth] ==
    [x \in Items |->
        IF depth = 0 \/ x \notin Containers THEN <<x>>
        ELSE FlattenSeq([i \in DOMAIN Contents[x] |-> FlattenIntoArray[depth - 1][Contents[x][i]]])]

\* toInt32() takes the low half of what is no int32, a double or undefined, for a
\* number: such a depth is Undefined, followed by that half.  A negative one is
\* huge when it is stored without its sign.
DepthNum(args) ==
    LET n == IF args = <<>> THEN 1 ELSE IF args[1] = Undefined THEN args[2] ELSE args[1]
    IN  IF n < 0 THEN MaxDepth ELSE Least(n, MaxDepth)

\* The result is made with as many holes as the list has items.
array_flat(h, args) ==
    LET flat == FlattenSeq([i \in DOMAIN h.list |-> FlattenIntoArray[DepthNum(args)][h.list[i]]])
    IN  ReturnArray(h, flat \o NewArray(Most(Size(h) - Len(flat), 0)))

\* The string is the sequence of its parts; "," is the default separator.
array_join(h, args) ==
    LET sep == IF Arg(args, 1, Undefined) = Undefined THEN "," ELSE args[1]
        Write(writer, i) == writer \o (IF i > 0 THEN <<sep>> ELSE <<>>)
                                   \o (IF GetItem(h, i) = None THEN <<>> ELSE <<GetItem(h, i)>>)
    IN  Return(h, Walk(Write, <<>>, Upto(0, Size(h))))

array_toString(h, args) == array_join(h, args)
array_toLocaleString(h, args) == array_join(h, <<>>)
array_valueOf(h, args) == ReturnSelf(h)

ownPropertyKeys(h, args) == Return(h, Append(Upto(0, Size(h)), LengthKey))

getOwnPropertyDescriptor(h, args) ==
    CASE args[1] = LengthKey -> Return(h, Size(h))
      [] args[1] \in 0..(Size(h) - 1) -> ToJS(h, GetItem(h, args[1]))
      [] OTHER -> Return(h, Undefined)

-----------------------------------------------------------------------------
\* array_methods[] and the property traps.
Call(m, h, args) ==
    CASE m = "reverse" -> array_reverse(h, args)
      [] m = "pop" -> array_pop(h, args)
      [] m = "push" -> array_push(h, args)
      [] m = "shift" -> array_shift(h, args)
      [] m = "unshift" -> array_unshift(h, args)
      [] m = "concat" -> array_concat(h, args)
      [] m = "slice" -> array_slice(h, args)
      [] m = "indexOf" -> array_indexOf(h, args)
      [] m = "lastIndexOf" -> array_lastIndexOf(h, args)
      [] m = "splice" -> array_splice(h, args)
      [] m = "fill" -> array_fill(h, args)
      [] m = "copyWithin" -> array_copyWithin(h, args)
      [] m = "includes" -> array_includes(h, args)
      [] m = "flat" -> array_flat(h, args)
      [] m = "join" -> array_join(h, args)
      [] m = "toString" -> array_toString(h, args)
      [] m = "toLocaleString" -> array_toLocaleString(h, args)
      [] m = "valueOf" -> array_valueOf(h, args)
      [] m = "get" -> getOwnPropertyDescriptor(h, args)
      [] m = "set" -> defineProperty(h, args)
      [] m = "delete" -> delete_(h, args)
      [] m = "ownKeys" -> ownPropertyKeys(h, args)

Editors == {"reverse", "pop", "push", "shift", "unshift", "splice", "fill",
            "copyWithin", "set", "delete"}
Readers == {"concat", "slice", "indexOf", "lastIndexOf", "includes", "flat", "join",
            "toString", "toLocaleString", "valueOf", "get", "ownKeys"}
==============================================================================
