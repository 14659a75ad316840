------------------------------- MODULE ListProxy -------------------------------
(***************************************************************************)
(* A Python list in the hands of a JavaScript program, through             *)
(* src/src/PyListProxyHandler.cc.  The methods of ListMethods are one step *)
(* each.  Those that call a function of the program are a step up to the   *)
(* call and a step after it, and in between the program may change the     *)
(* list.  Nothing protects the native code from that: PyList_GetItem gives *)
(* NULL for an index that is gone, and what follows dereferences it.       *)
(*                                                                         *)
(* `frame` is the native frame that is on the stack, if any.  `last` is    *)
(* the call that has just returned, with its result, until the program     *)
(* has looked at it.                                                       *)
(***************************************************************************)
EXTENDS ArrayStandard

CONSTANTS Primitives,   \* items that JavaScript copies and no one else refers to
          Elements,     \* items the program puts into the list
          Calls,        \* the methods the program uses
          EditCalls,    \* what a callback may do to the list, <<method, args>>
          MaxLen,       \* bound: length of the list
          MaxEdits,     \* bound: calls a callback makes during one method
          Rank          \* the order that toString() gives the items

ASSUME ListAssumption ==
    /\ Primitives \subseteq Items /\ Elements \subseteq Items
    /\ MaxLen \in Nat /\ MaxEdits \in Nat
    /\ Rank \in [Items -> Int]

VARIABLES list, refs, freed, frame, last

vars == <<list, refs, freed, frame, last>>

Idle == [m |-> "idle"]
NoCall == [m |-> "none", out |-> <<>>]

\* Objects that are not primitives are kept alive by the program.
Kept(x) == IF x \in Primitives THEN 0 ELSE 1
Fresh(s) == [x \in Items |-> Count(s, x) + Kept(x)]

Heap == [list |-> list, refs |-> refs, out |-> <<>>, ret |-> Undefined, freed |-> freed]
Become(h) == list' = h.list /\ refs' = h.refs /\ freed' = h.freed
Unchanged == UNCHANGED <<list, refs, freed>>

Init == /\ list \in BoundedSeq(Elements, MaxLen)
        /\ refs = Fresh(list)
        /\ freed = FALSE
        /\ frame = Idle
        /\ last = NoCall

-----------------------------------------------------------------------------
(* Calls that run to their end at once. *)

Indices == (-(MaxLen + 1))..(MaxLen + 1)
Keys == 0..MaxLen
Tuples(S, n) == [1..n -> S]

Arguments(m) ==
    CASE m \in {"push", "unshift", "concat"} -> BoundedSeq(Elements, 2)
      [] m = "slice" -> Tuples(Indices, 1) \cup {<<i, j>> : i \in Indices, j \in Indices \cup {Undefined}}
      [] m \in {"indexOf", "includes", "lastIndexOf"} ->
           Tuples(Elements, 1) \cup (Elements \X Indices)
      [] m = "splice" -> BoundedSeq(Indices, 2) \cup (Indices \X Indices \X Elements)
      [] m = "fill" -> Tuples(Elements, 1) \cup (Elements \X Indices)
                         \cup (Elements \X Indices \X Indices)
      [] m = "copyWithin" -> BoundedSeq(Indices, 3)
      [] m = "flat" -> BoundedSeq(Indices, 1) \cup ({Undefined} \X Indices)
      [] m = "join" -> {<<>>, <<"-">>}
      [] m \in {"get", "delete"} -> Tuples(Keys \cup {LengthKey}, 1)
      [] m = "set" -> (Keys \cup {LengthKey}) \X Elements
      [] OTHER -> {<<>>}

ASSUME EditAssumption == \A e \in EditCalls :
                            e[1] \in Editors \cup Readers /\ e[2] \in Arguments(e[1])

Invoke(m, args) ==
    /\ frame = Idle /\ last = NoCall
    /\ LET h == Call(m, Heap, args)
       IN  /\ Len(h.list) <= MaxLen
           /\ Become(h)
           /\ last' = [m |-> m, args |-> args, before |-> list, ret |-> h.ret, out |-> h.out]
    /\ UNCHANGED frame

\* Calls that leave the reference counts wrong, or read an item that is gone.
Overruns == /\ last.m = "set" /\ last.args[1] >= Len(last.before)
Miscounts == \/ last.m = "splice" /\ Len(last.args) > 2
             \/ last.m = "copyWithin"
             \/ last.m = "delete" /\ last.ret
             \/ Overruns
Unsafe == \/ Miscounts
          \/ last.m = "shift"
          \/ last.m = "flatMap" /\ last.went.leaked # <<>>

\* The program has used the result.  A list that was made for it is released.
Consume ==
    /\ last # NoCall /\ ~Unsafe
    /\ refs' = Drop(Heap, last.out).refs
    /\ last' = NoCall
    /\ UNCHANGED <<list, freed, frame>>

StartOver == /\ list' = <<>> /\ refs' = Fresh(<<>>) /\ freed' = FALSE
             /\ frame' = Idle /\ last' = NoCall

\* Bound: a list with wrong counts is given up, for a new one.
GiveUp == last # NoCall /\ Unsafe /\ StartOver

-----------------------------------------------------------------------------
(* Methods that call a function for each item. *)

Iterators == {"entries", "keys", "values"}
Reducers == {"reduce", "reduceRight"}
Loops == Iterators \cup Reducers \cup {"forEach", "map", "filter", "some", "every", "find",
                                       "findIndex", "flatMap"}

\* What the method makes of the value `r` of one call.
array_forEach(f, r) == f
array_map(f, r) == [f EXCEPT !.acc = Append(@, r)]
array_filter(f, r) == [f EXCEPT !.acc = IF r THEN Append(@, Last(f.seen)) ELSE @]
array_reduce(f, r) == [f EXCEPT !.acc = r]
array_reduceRight(f, r) == [f EXCEPT !.acc = r]
array_some(f, r) == [f EXCEPT !.result = IF r THEN <<TRUE>> ELSE @]
array_every(f, r) == [f EXCEPT !.result = IF r THEN @ ELSE <<FALSE>>]
array_find(f, r) == [f EXCEPT !.result = IF r THEN <<Last(f.seen)>> ELSE @]
array_findIndex(f, r) == [f EXCEPT !.result = IF r THEN <<f.k - 1>> ELSE @]

\* The result array is `acc`, the elements below targetIndex, and `rest`.
Store(f, s) == [f EXCEPT !.acc = @ \o s, !.rest = SubSeq(@, Len(s) + 1, Len(@))]

\* At depth 1 a container is gone through: the function is called again for each
\* thing it holds.
FlattenIntoArrayWithCallBack(f, r) ==
    IF f.depth = 1 /\ r \in Containers THEN [f EXCEPT !.nest = Contents[r]]
    ELSE Store(f, <<r>>)

AfterCall(f, r) ==
    LET g == [f EXCEPT !.inside = FALSE, !.rets = Append(@, r)]
    IN  CASE f.m = "forEach" \/ f.m \in Iterators -> array_forEach(g, r)
          [] f.m = "map" -> array_map(g, r)
          [] f.m = "filter" -> array_filter(g, r)
          [] f.m = "reduce" -> array_reduce(g, r)
          [] f.m = "reduceRight" -> array_reduceRight(g, r)
          [] f.m = "some" -> array_some(g, r)
          [] f.m = "every" -> array_every(g, r)
          [] f.m = "find" -> array_find(g, r)
          [] f.m = "findIndex" -> array_findIndex(g, r)
          [] f.m = "flatMap" -> FlattenIntoArrayWithCallBack(g, r)

AtEnd(f) ==
    CASE f.m = "some" -> FALSE
      [] f.m = "every" -> TRUE
      [] f.m = "findIndex" -> -1
      [] f.m = "flatMap" -> f.acc \o f.rest
      [] f.m \in Reducers \cup {"map", "filter"} -> f.acc
      [] OTHER -> Undefined

Testers == {"filter", "some", "every", "find", "findIndex"}

\* What the program's function may return.
Returns(m) == CASE m \in Testers -> BOOLEAN \cup Elements \cup {Undefined}
                [] m \in {"map", "flatMap", "reduce", "reduceRight"} -> Elements
                [] OTHER -> {Undefined}

\* What the method takes it for: rval.toBoolean() looks at one bit of the value,
\* and it is the value of a Boolean, but not the truth of anything else.
Taken(m, r) == IF m \in Testers /\ r \notin BOOLEAN THEN BOOLEAN ELSE {r}

Running == frame # Idle /\ frame.m # "crashed"
InLoop == frame.m \in Loops
Crashed(f) == [m |-> "crashed", shrunk |-> f.shrunk, by |-> f.m]

\* The call is over: it returned `ret`, or it threw.
Finish(f, how, ret) ==
    /\ last' = [m |-> f.m, how |-> how, ret |-> ret, out |-> <<>>, went |-> f]
    /\ frame' = Idle
Throw(f) == Finish(f, "thrown", Undefined)

NewLoop(m, first, skipped) ==
    [m |-> m, k |-> skipped, len |-> Len(list), initial |-> first, skipped |-> skipped,
     acc |-> IF m \in Reducers THEN first ELSE <<>>,
     seen |-> <<>>, rets |-> <<>>, result |-> <<>>, nest |-> <<>>, depth |-> 1,
     rest |-> IF m = "flatMap" THEN NewArray(Len(list)) ELSE <<>>, leaked |-> <<>>,
     lost |-> FALSE, inside |-> FALSE, edits |-> 0, shrunk |-> FALSE]

\* Without an initial value a reduction starts from the first item it meets,
\* and refuses an empty list.
StartLoop(m, given) ==
    /\ frame = Idle /\ last = NoCall
    /\ given => m \in Reducers
    /\ IF m \in Reducers /\ ~given
       THEN IF list = <<>> THEN Throw([m |-> m])
            ELSE /\ frame' = NewLoop(m, IF m = "reduce" THEN list[1] ELSE Last(list), 1)
                 /\ UNCHANGED last
       ELSE frame' = NewLoop(m, None, 0) /\ UNCHANGED last
    /\ Unchanged

FixedBound(f) == f.len                                       \* mutant of Bound
Bound(f) == IF f.m \in Iterators THEN Len(list) ELSE f.len   \* an iterator looks anew
More(f) == f.nest # <<>> \/ (f.result = <<>> /\ f.k < Bound(f))
\* What iterator_next() gives for an index, by the kind of the iterator.
Reported(m, i) == CASE m = "keys" -> i
                    [] m = "entries" -> <<i, list[i + 1]>>
                    [] OTHER -> list[i + 1]
FromLength(f) == IF f.m = "reduceRight" THEN f.len - f.k ELSE f.k     \* mutant of Index
Index(f) == IF f.m = "reduceRight" THEN f.len - 1 - f.k ELSE f.k

\* Up to the call of the function.
Visit ==
    /\ InLoop /\ ~frame.inside /\ More(frame)
    /\ LET f == [frame EXCEPT !.inside = TRUE]
       IN  frame' = IF f.nest # <<>>
                    THEN [f EXCEPT !.seen = Append(@, Head(f.nest)), !.nest = Tail(@), !.depth = 0]
                    ELSE IF Index(f) >= Len(list) THEN Crashed(f)
                    ELSE [f EXCEPT !.seen = Append(@, Reported(f.m, Index(f))), !.k = @ + 1, !.depth = 1]
    /\ UNCHANGED <<list, refs, freed, last>>

\* A container that a nested call returns: it is copied, and ends the recursion.
Nested == frame.m = "flatMap" /\ frame.depth = 0

CallReturns(r) ==
    /\ InLoop /\ frame.inside
    /\ ~(Nested /\ r \in Containers)
    /\ frame' = AfterCall(frame, r)
    /\ UNCHANGED <<list, refs, freed, last>>

\* The early return forgets the reference to the container.
ReturnsEarly(r) ==
    /\ InLoop /\ frame.inside /\ Nested /\ r \in Containers
    /\ frame' = [Store(frame, Contents[r]) EXCEPT
                    !.rets = Append(@, r), !.nest = <<>>, !.leaked = Append(@, r), !.inside = FALSE]
    /\ refs' = Incref(Heap, r).refs
    /\ UNCHANGED <<list, freed, last>>

EndLoop ==
    /\ InLoop /\ ~frame.inside /\ ~More(frame)
    /\ Finish(frame, "returned", IF frame.result # <<>> THEN frame.result[1] ELSE AtEnd(frame))
    /\ Unchanged

-----------------------------------------------------------------------------
(* sort() *)

SwapHalf(h, i, j) ==                                     \* mutant of swapItems
    IF i = j THEN h ELSE SetItem(Incref(h, GetItem(h, j)), i, GetItem(h, j))

\* An index that is gone makes a NULL of the item.
swapItems(h, i, j) ==
    LET x == GetItem(h, i)
        y == GetItem(h, j)
    IN  IF i = j THEN h ELSE SetItem(SetItem(Incref(Incref(h, x), y), i, y), j, x)
Gone(i, j) == i # j /\ (i >= Len(list) \/ j >= Len(list))

Sign(n) == IF n < 0 THEN -1 ELSE IF n > 0 THEN 1 ELSE 0

js_sort_compare_default(x, y) ==
    CASE x = None -> IF y = None THEN 0 ELSE 1
      [] x # None /\ y = None -> -1
      [] OTHER -> Sign(Rank[x] - Rank[y])

\* The program's function is consistent, with answers that are int32 ("reverse") or
\* with doubles ("doubles"), or it returns what it likes.
Comparators == {"default", "reverse", "doubles", "any"}
Consistent == {"default", "reverse"}
Compare(by, x, y) == IF by = "default" THEN js_sort_compare_default(x, y)
                     ELSE Sign(Rank[y] - Rank[x])

InSort == frame.m = "sort"

array_sort(by) ==
    /\ frame = Idle /\ last = NoCall
    /\ LET f == [m |-> "sort", by |-> by, before |-> list, todo |-> <<<<0, Len(list) - 1>>>>,
                 range |-> <<>>, pivot |-> None, item |-> None, end |-> 0, k |-> 0, inside |-> FALSE,
                 edits |-> 0, shrunk |-> FALSE, failed |-> FALSE]
       IN  IF Len(list) > 1 THEN frame' = f /\ UNCHANGED last ELSE Finish(f, "returned", "self")
    /\ Unchanged

\* quickSort() begins: the middle item becomes the pivot.
quickSort ==
    /\ InSort /\ frame.range = <<>> /\ frame.todo # <<>>
    /\ LET left  == frame.todo[1][1]
           right == frame.todo[1][2]
           mid   == (left + right) \div 2
           f     == [frame EXCEPT !.todo = Tail(@)]
       IN  IF left >= right THEN frame' = f /\ Unchanged
           ELSE IF Gone(left, mid) \/ left >= Len(list) THEN frame' = Crashed(frame) /\ Unchanged
           ELSE /\ Become(swapItems(Heap, left, mid))
                /\ frame' = [f EXCEPT !.range = <<left, right>>, !.end = left, !.k = left + 1,
                                      !.pivot = GetItem(Heap, mid)]
    /\ UNCHANGED last

\* Up to the call of the compare function, unless it is native.
invokeCallBack ==
    /\ InSort /\ frame.range # <<>> /\ ~frame.inside /\ frame.k <= frame.range[2]
    /\ frame' = IF frame.k >= Len(list) THEN Crashed(frame)
                ELSE [frame EXCEPT !.inside = TRUE, !.item = GetItem(Heap, frame.k)]
    /\ UNCHANGED <<list, refs, freed, last>>

\* toInt32() reads the low half of a double, whatever the number is.
Verdicts(f) == IF f.by \in Consistent THEN {Compare(f.by, f.item, f.pivot)} ELSE -1..1

\* The compare function returns a number; quickSort() goes on, or, after an
\* earlier failure, leaves the range.
CompareReturns(r) ==
    /\ InSort /\ frame.inside
    /\ LET f == [frame EXCEPT !.inside = FALSE, !.k = @ + 1]
           end == frame.end + 1
       IN  IF f.failed THEN frame' = [f EXCEPT !.range = <<>>] /\ Unchanged
           ELSE IF r >= 0 THEN frame' = f /\ Unchanged
           ELSE IF Gone(end, frame.k) THEN frame' = Crashed(frame) /\ Unchanged
           ELSE Become(swapItems(Heap, end, frame.k)) /\ frame' = [f EXCEPT !.end = end]
    /\ UNCHANGED last

\* It returns something else: TypeError.  The ranges that wait are still begun.
CompareRefused ==
    /\ InSort /\ frame.inside /\ frame.by = "any"
    /\ frame' = [frame EXCEPT !.inside = FALSE, !.failed = TRUE, !.range = <<>>]
    /\ UNCHANGED <<list, refs, freed, last>>

EndPartition ==
    /\ InSort /\ frame.range # <<>> /\ ~frame.inside /\ frame.k > frame.range[2]
    /\ LET left == frame.range[1]
       IN  IF Gone(left, frame.end) THEN frame' = Crashed(frame) /\ Unchanged
           ELSE /\ Become(swapItems(Heap, left, frame.end))
                /\ frame' = [frame EXCEPT !.range = <<>>,
                       !.todo = <<<<left, frame.end - 1>>, <<frame.end + 1, frame.range[2]>>>> \o @]
    /\ UNCHANGED last

EndSort ==
    /\ InSort /\ frame.range = <<>> /\ frame.todo = <<>>
    /\ IF frame.failed THEN Throw(frame) ELSE Finish(frame, "returned", "self")
    /\ Unchanged

-----------------------------------------------------------------------------
(* What the program's function does while it runs. *)

InCallback == Running /\ frame.inside

\* A call on the same list.  Its result is dropped.
Edit(m, args) ==
    /\ InCallback /\ frame.edits < MaxEdits
    /\ InSort => frame.by # "default"
    /\ LET h == Call(m, Heap, args)
       IN  /\ Len(h.list) <= MaxLen
           /\ Become(Drop(h, h.out))
           /\ frame' = [frame EXCEPT !.edits = @ + 1,
                            !.shrunk = @ \/ Len(h.list) < Len(list)]
    /\ UNCHANGED last

\* It throws: the method gives up, and the list stays as it is.
CallThrows == /\ InCallback /\ frame.m # "flatMap"
              /\ Throw(frame)
              /\ Unchanged

\* flatMap() goes on as if nothing were pending.  A nested call gives FALSE for the
\* place to go on at, which is 0; the first call ends with the array as it is.
NestedThrows == /\ InCallback /\ Nested
                /\ frame' = [frame EXCEPT !.inside = FALSE, !.nest = <<>>, !.lost = TRUE,
                                          !.acc = <<>>, !.rest = frame.acc \o @]
                /\ UNCHANGED <<list, refs, freed, last>>
FlatMapThrows == /\ InCallback /\ frame.m = "flatMap" /\ ~Nested
                 /\ Finish([frame EXCEPT !.lost = TRUE], "returned", AtEnd(frame))
                 /\ Unchanged

\* A crash takes the process with it.
Restart == frame.m = "crashed" /\ StartOver

Next == \/ \E m \in Calls \cap (Editors \cup Readers) : \E args \in Arguments(m) : Invoke(m, args)
        \/ Consume
        \/ GiveUp
        \/ \E m \in Calls \cap Loops, given \in BOOLEAN : StartLoop(m, given)
        \/ Visit
        \/ InLoop /\ \E r \in Returns(frame.m) : \E v \in Taken(frame.m, r) : CallReturns(v)
        \/ InLoop /\ \E r \in Returns(frame.m) : ReturnsEarly(r)
        \/ EndLoop
        \/ "sort" \in Calls /\ \E by \in Comparators : array_sort(by)
        \/ quickSort
        \/ invokeCallBack
        \/ InSort /\ frame.inside /\ \E r \in Verdicts(frame) : CompareReturns(r)
        \/ CompareRefused
        \/ EndPartition
        \/ EndSort
        \/ \E e \in EditCalls : Edit(e[1], e[2])
        \/ CallThrows
        \/ NestedThrows
        \/ FlatMapThrows
        \/ Restart

Spec == Init /\ [][Next]_vars

-----------------------------------------------------------------------------
(* Properties. *)

Result == CASE last.m \in {"reverse", "fill", "copyWithin", "valueOf"} -> list
            [] last.m \in {"slice", "splice", "concat"} -> last.out
            [] OTHER -> last.ret

\* A depth of flat() that is negative, or no int32, is not what it says.
FlatDeparts(s, args) ==
    \/ args # <<>> /\ (args[1] = Undefined \/ args[1] < 0)
    \/ Len(Answer("flat", s, args)) < Len(s)

\* The calls that are not what ECMAScript says.
Departs(m, s, args) ==
    \/ m \in {"set", "delete"} /\ args[1] = LengthKey
    \/ m = "delete" /\ args[1] >= Len(s)
    \/ m = "flat" /\ FlatDeparts(s, args)

\* Every method leaves in the list, and returns, what ECMAScript asks of an Array,
\* whatever the signs and sizes of its arguments, but for the calls that Departs
\* names.
MethodsMeetStandard ==
    (last.m \in Editors \cup Readers /\ ~Departs(last.m, last.before, last.args))
    => /\ list = Edited(last.m, last.before, last.args)
       /\ Result = Answer(last.m, last.before, last.args)

Returned == last.m \in Loops \cup {"sort"} /\ last.how = "returned"

\* A method that calls a function calls it as often as ECMAScript says, and its
\* result follows from what the calls saw and what it took their answers for, even
\* when they changed the list.  An iterator reports each index once, up to the
\* present end of the list.  (flatMap() departs from it where a call returns a
\* container, or throws.)
CallbacksMeetStandard ==
    (Returned /\ last.m # "sort") =>
        LET f == last.went
        IN  IF f.m \in Iterators
            THEN /\ Len(f.seen) >= Len(list)
                 /\ f.m = "keys" => \A i \in DOMAIN f.seen : f.seen[i] = i - 1
                 /\ (f.m = "values" /\ f.edits = 0) => f.seen = list
            ELSE (f.m = "flatMap" => ~f.lost /\ \A i \in DOMAIN f.rets : f.rets[i] \notin Containers)
                 => /\ last.ret = Outcome(f.m, f.seen, f.rets, f.initial)
                    /\ Len(f.rets) = CallsDue(f.m, f.rets, f.len - f.skipped)

\* sort() neither loses nor doubles an item, at any moment: not between two
\* compare calls, not when the compare function throws or answers at random.
\* When it returns from a consistent compare function that answers with int32
\* numbers, or from none, the list is in order.
SortMeetsStandard ==
    /\ \A f \in {frame} \cup (IF last.m = "sort" THEN {last.went} ELSE {}) :
         (f.m = "sort" /\ f.edits = 0) =>
             \A x \in Items : Count(list, x) = Count(f.before, x)
    /\ (Returned /\ last.m = "sort" /\ last.went.edits = 0 /\ last.went.by \in Consistent) =>
         \A i, j \in DOMAIN list : i < j => Compare(last.went.by, list[i], list[j]) <= 0

Leaked == IF frame.m = "flatMap" THEN frame.leaked
          ELSE IF last.m = "flatMap" THEN last.went.leaked ELSE <<>>

\* Reference counts are exact: one for each place in the list, one for each place
\* in the list that a method returned, one for the program's own, and one, never
\* released, for each container that a nested call of flatMap() returned.  (Four
\* calls are known to get them wrong: Miscounts.)  And none uses an item after it
\* has dropped what may be its last reference, but shift() and an assignment
\* beyond the end.
RefsExact ==
    /\ (frame.m # "crashed" /\ (last = NoCall \/ ~Miscounts)) =>
         \A x \in Items : refs[x] = Kept(x) + Count(list, x) + Count(last.out, x) + Count(Leaked, x)
    /\ freed => (last.m = "shift" \/ Overruns)

\* The process crashes only if the program's function took items out of the list
\* that a method with a fixed length was going through; never in a for-of loop.
CrashOnlyIfShrunk ==
    frame.m = "crashed" => frame.shrunk /\ frame.by \notin Iterators
==============================================================================
