------------------------------ MODULE ArrayMethods ------------------------------
(***************************************************************************)
(* The operations that src/src/JSArrayProxy.cc gives a JavaScript Array    *)
(* when Python sees it as a list.  Each is a function of the array, a      *)
(* sequence of values, and of its arguments; it gives the array afterwards *)
(* and the result, or the exception.  None stands for undefined, for a     *)
(* hole and for Python's None alike: Python cannot tell them apart.        *)
(*                                                                         *)
(* An operand is [kind, items]: an exact list, a tuple, a proxy of another *)
(* JS array, or the proxy itself ("self").  A proxy is a list whose own    *)
(* storage is empty: PyList's macros see a length of 0 and no items.       *)
(***************************************************************************)
EXTENDS Integers, SequencesExt, FiniteSetsExt

CONSTANT None    \* undefined, a hole, Python's None

Ok(a, ret) == [arr |-> a, ret |-> ret, err |-> "none", fresh |-> TRUE]
Err(a, name) == [arr |-> a, ret |-> None, err |-> name, fresh |-> TRUE]
OkSelf(a) == [Ok(a, a) EXCEPT !.fresh = FALSE]    \* the result is the proxy itself

Least(a, b) == IF a < b THEN a ELSE b
Most(a, b) == IF a > b THEN a ELSE b
Upto(a, b) == [k \in 1..Most(0, b - a) |-> a + k - 1]

\* The body of a loop over s, from x on.
Walk(Body(_, _), x, s) ==
    LET after[n \in 0..Len(s)] == IF n = 0 THEN x ELSE Body(after[n - 1], s[n])
    IN  after[Len(s)]

-----------------------------------------------------------------------------
(* SpiderMonkey's side. *)

SetArrayLength(a, n) == [i \in 1..n |-> IF i <= Len(a) THEN a[i] ELSE None]
GetElement(a, i) == IF i \in 0..(Len(a) - 1) THEN a[i + 1] ELSE None
SetElement(a, i, v) == [SetArrayLength(a, Most(Len(a), i + 1)) EXCEPT ![i + 1] = v]
JSSlice(a, from, to) == SubSeq(a, from + 1, to)
\* One by one, from the left: the elements from..to-1 move by d places, or the
\* elements of s go to the places at, at+step, ...
Moved(a, from, to, d) == Walk(LAMBDA b, i : SetElement(b, i + d, GetElement(b, i)), a, Upto(from, to))
Stored(a, at, step, s) ==
    Walk(LAMBDA b, k : SetElement(b, at + k * step, s[k + 1]), a, Upto(0, Len(s)))
JSSplice(a, at, n, s) == SubSeq(a, 1, at) \o s \o SubSeq(a, at + n + 1, Len(a))

\* Array.prototype.sort: stable, and undefined comes last, uncompared.
JSSort(a, cmp) ==
    LET Before(i, j) == CASE a[i] = None \/ a[j] = None -> a[j] = None /\ (a[i] # None \/ i < j)
                          [] OTHER -> cmp[<<a[i], a[j]>>] < 0 \/ (cmp[<<a[i], a[j]>>] = 0 /\ i < j)
        place == [i \in DOMAIN a |-> 1 + Cardinality({j \in DOMAIN a : Before(j, i)})]
    IN  [k \in DOMAIN a |-> a[CHOOSE i \in DOMAIN a : place[i] = k]]

-----------------------------------------------------------------------------
(* Python's side. *)

\* A slice object, unpacked; Missing for an absent start or stop.
CONSTANT Missing

Adjusted(i, len, low, high) == Least(Most(IF i < 0 THEN i + len ELSE i, low), high)

\* PySlice_AdjustIndices: start, stop and the number of places.
AdjustIndices(sl, len) ==
    LET down == sl.step < 0
        low  == IF down THEN -1 ELSE 0
        high == IF down THEN len - 1 ELSE len
        start == IF sl.start = Missing THEN (IF down THEN high ELSE low)
                 ELSE Adjusted(sl.start, len, low, high)
        stop  == IF sl.stop = Missing THEN (IF down THEN low ELSE high)
                 ELSE Adjusted(sl.stop, len, low, high)
        n == IF down THEN (IF stop < start THEN (start - stop - 1) \div (-sl.step) + 1 ELSE 0)
             ELSE (IF start < stop THEN (stop - start - 1) \div sl.step + 1 ELSE 0)
    IN  [start |-> start, stop |-> stop, n |-> n]

IsProxy(v) == v.kind \in {"proxy", "self"}
OperandItems(v, a) == IF v.kind = "self" THEN a ELSE v.items
PySize(v) == IF IsProxy(v) THEN 0 ELSE Len(v.items)    \* Py_SIZE, PyList_GET_SIZE

-----------------------------------------------------------------------------
(* Subscripts. *)

FromEnd(i, a) == IF i < 0 THEN i + Len(a) ELSE i
InRange(i, a) == i \in 0..(Len(a) - 1)

GetIndex(a, index) ==
    LET i == FromEnd(index, a)
    IN  IF InRange(i, a) THEN Ok(a, GetElement(a, i)) ELSE Err(a, "IndexError")

GetSlice(a, sl) ==
    LET adj == AdjustIndices(sl, Len(a))
    IN  CASE adj.n <= 0 -> Ok(a, <<>>)
          [] adj.n > 0 /\ sl.step = 1 -> Ok(a, JSSlice(a, adj.start, adj.stop))
          [] OTHER -> Ok(a, [k \in 1..adj.n |-> GetElement(a, adj.start + (k - 1) * sl.step)])

\* del array[i] is JavaScript's: it leaves a hole.
SetIndex(a, index, v) ==
    LET i == FromEnd(index, a)
    IN  IF InRange(i, a) THEN Ok(SetElement(a, i, v), None) ELSE Err(a, "IndexError")
DelIndex(a, index) == SetIndex(a, index, None)

\* The elements behind the slice move from the left, whichever way they go.
list_ass_slice(a, low, high, items) ==
    LET ilow  == Least(Most(low, 0), Len(a))
        ihigh == Least(Most(high, ilow), Len(a))
        d == Len(items) - (ihigh - ilow)
        long  == IF d > 0 THEN SetArrayLength(a, Len(a) + d) ELSE a
        moved == Moved(long, ihigh, Len(a), d)
        sized == IF d < 0 THEN SetArrayLength(moved, Len(a) + d) ELSE moved
    IN  Stored(sized, ilow, 1, items)

SetSlice(a, sl, v) ==
    LET adj == AdjustIndices(sl, Len(a))
        size == IF v.kind = "self" THEN 0 ELSE Len(v.items)  \* a copy of self is still a proxy
    IN  CASE sl.step = 1 -> Ok(list_ass_slice(a, adj.start, adj.stop, OperandItems(v, a)), None)
          [] sl.step # 1 /\ size # adj.n -> Err(a, "ValueError")
          [] OTHER -> Ok(Stored(a, adj.start, sl.step, v.items), None)

\* Each run of elements between two deleted ones moves left by the number of
\* those deleted so far, and then the tail.
DelSlice(a, sl) ==
    LET adj   == AdjustIndices(sl, Len(a))
        step  == IF sl.step < 0 THEN -sl.step ELSE sl.step
        start == IF sl.step < 0 THEN adj.start + sl.step * (adj.n - 1) ELSE adj.start
        Run(b, i) ==
            LET cur == start + i * step
                lim == Least(step - 1, Len(a) - cur - 1)
            IN  Moved(b, cur + 1, cur + 1 + lim, -(i + 1))
        runs  == Walk(Run, a, Upto(0, adj.n))
        moved == Moved(runs, start + adj.n * step, Len(a), -adj.n)
    IN  CASE sl.step = 1 -> Ok(list_ass_slice(a, adj.start, adj.stop, <<>>), None)
          [] sl.step # 1 /\ adj.n <= 0 -> Ok(a, None)
          [] OTHER -> Ok(SetArrayLength(moved, Len(a) - adj.n), None)

-----------------------------------------------------------------------------
(* Comparison. *)

Decide(op, x, y) == CASE op = "==" -> x = y
                      [] op = "!=" -> x # y
                      [] op = "<" -> x < y
                      [] op = "<=" -> x <= y
                      [] op = ">" -> x > y
                      [] op = ">=" -> x >= y

\* The items that differ are compared anew, and the right one is taken from the
\* storage that a proxy does not have.
richcompare(a, v, op) ==
    LET b == OperandItems(v, a)
        differ == {i \in 1..Least(Len(a), Len(b)) : a[i] # b[i]}
        first == Min(differ)
    IN  CASE v.kind = "tuple" -> Err(a, "NotImplemented")
          [] v.kind = "self" /\ op \in {"==", "!="} -> Ok(a, op = "==")
          [] v.kind # "tuple" /\ Len(a) # Len(b) /\ op \in {"==", "!="} -> Ok(a, op = "!=")
          [] v.kind # "tuple" /\ differ = {} -> Ok(a, Decide(op, Len(a), Len(b)))
          [] v.kind # "tuple" /\ differ # {} /\ op \in {"==", "!="} -> Ok(a, op = "!=")
          [] OTHER -> IF IsProxy(v) THEN Err(a, "crash")
                      ELSE IF None \in {a[first], b[first]} THEN Err(a, "TypeError")
                      ELSE Ok(a, Decide(op, a[first], b[first]))

-----------------------------------------------------------------------------
(* Sequence operations. *)

concat(a, v) ==
    IF v.kind = "tuple" THEN Err(a, "TypeError")
    ELSE LET b == OperandItems(v, a)
         IN  IF b = <<>> /\ a # <<>> THEN OkSelf(a) ELSE Ok(a, a \o b)

Repeated(a, n) == [k \in 1..(Len(a) * n) |-> a[((k - 1) % Len(a)) + 1]]
repeat(a, n) == Ok(a, IF a = <<>> \/ n <= 0 THEN <<>> ELSE Repeated(a, n))

\* In place: element i goes to every place that is i modulo the old length.
inplace_repeat(a, n) ==
    LET Spread(b, i) == Stored(b, i, Len(a), [k \in 1..n |-> GetElement(b, i)])
    IN  CASE a = <<>> \/ n = 1 -> OkSelf(a)
          [] a # <<>> /\ n < 1 -> OkSelf(<<>>)
          [] OTHER -> OkSelf(Walk(Spread, SetArrayLength(a, Len(a) * n), Upto(0, Len(a))))

\* The length of the operand is Py_SIZE, 0 for a proxy.
inplace_concat(a, v) == OkSelf(a \o SubSeq(OperandItems(v, a), 1, PySize(v)))

contains(a, x) == Ok(a, \E i \in DOMAIN a : a[i] = x)
clear_method(a) == Ok(SetArrayLength(a, 0), None)
copy(a) == Ok(a, JSSlice(a, 0, Len(a)))
append(a, x) == Ok(SetElement(SetArrayLength(a, Len(a) + 1), Len(a), x), None)
insert(a, index, x) == Ok(JSSplice(a, Least(Most(FromEnd(index, a), 0), Len(a)), 0, <<x>>), None)
extend(a, v) == Ok(Walk(LAMBDA b, x : append(b, x).arr, a, OperandItems(v, a)), None)

pop(a, index) ==
    LET i == FromEnd(index, a)
    IN  IF InRange(i, a) THEN Ok(JSSplice(a, i, 1, <<>>), GetElement(a, i)) ELSE Err(a, "IndexError")

remove(a, x) ==
    LET at == {i \in DOMAIN a : a[i] = x}
    IN  IF at = {} THEN Err(a, "ValueError") ELSE Ok(JSSplice(a, Min(at) - 1, 1, <<>>), None)

StopUnadjusted(a, x, from, to) ==    \* mutant of index
    LET start == Most(FromEnd(from, a), 0)
        stop  == IF to = Missing THEN Len(a) ELSE to
        at == {i \in start..(Least(stop, Len(a)) - 1) : GetElement(a, i) = x}
    IN  IF at = {} THEN Err(a, "ValueError") ELSE Ok(a, Min(at))

index(a, x, from, to) ==
    LET start == Most(FromEnd(from, a), 0)
        stop  == IF to = Missing THEN Len(a) ELSE Most(FromEnd(to, a), 0)
        at == {i \in start..(Least(stop, Len(a)) - 1) : GetElement(a, i) = x}
    IN  IF at = {} THEN Err(a, "ValueError") ELSE Ok(a, Min(at))

count(a, x) == Ok(a, Cardinality({i \in DOMAIN a : a[i] = x}))
reverse(a) == Ok(Reverse(a), None)

-----------------------------------------------------------------------------
(* sort(key=..., reverse=...) *)

\* A comparison of keys by < and then ==, as JavaScript wants it.
sort_compare(x, y, backwards) ==
    CASE x < y -> IF backwards THEN 1 ELSE -1
      [] x = y -> 0
      [] OTHER -> IF backwards THEN -1 ELSE 1

\* The keys the program uses: a Python function of one argument, or a built-in.
Key(how, x) == CASE how = "constant" -> 0
                 [] how = "negative" -> -x
                 [] OTHER -> x
sort_compare_key_func(how, x, y, backwards) == sort_compare(Key(how, x), Key(how, y), backwards)
sort_compare_default(x, y, backwards) == sort_compare(x, y, backwards)

Keys == {"constant", "negative"}
sort(a, how, backwards) ==
    LET default == [p \in Int \X Int |-> sort_compare_default(p[1], p[2], backwards)]
        keyed   == [p \in Int \X Int |-> sort_compare_key_func(how, p[1], p[2], backwards)]
        js      == [p \in Int \X Int |-> p[2] - p[1]]
    IN  CASE how = "none" -> Ok(JSSort(a, default), None)
          [] how \in Keys -> Ok(JSSort(a, keyed), None)
          [] how = "jsStyle" -> Ok(IF backwards THEN Reverse(JSSort(a, js)) ELSE JSSort(a, js), None)
          [] OTHER -> IF Len(a) > 1 THEN Err(a, "TypeError") ELSE Ok(a, None)   \* not callable
==============================================================================
