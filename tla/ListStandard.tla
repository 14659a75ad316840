------------------------------ MODULE ListStandard ------------------------------
(***************************************************************************)
(* What the Python reference promises of a mutable sequence, stated over   *)
(* the list before the operation (`s`) and its arguments, by the set of    *)
(* the places an operation is about and without loops: the yardstick for   *)
(* ArrayMethods.  Edited is the list afterwards, Answer the result and     *)
(* Failure the exception.                                                  *)
(***************************************************************************)
EXTENDS ArrayMethods

\* The places of s[i:j:k], from 0: x = i + n*k with 0 <= n < (j - i)/k, after
\* i and j have been brought into the list.
Bound(i, default, s, low, high) ==
    IF i = Missing THEN default ELSE Min({high, Max({low, i + (IF i < 0 THEN Len(s) ELSE 0)})})

Places(sl, s) ==
    LET n == Len(s)
        up == sl.step > 0
        i == IF up THEN Bound(sl.start, 0, s, 0, n) ELSE Bound(sl.start, n - 1, s, -1, n - 1)
        j == IF up THEN Bound(sl.stop, n, s, 0, n) ELSE Bound(sl.stop, -1, s, -1, n - 1)
    IN  {x \in 0..(n - 1) : /\ IF up THEN i <= x /\ x < j ELSE j < x /\ x <= i
                            /\ (x - i) % (IF up THEN sl.step ELSE -sl.step) = 0}

\* Where s[i:j] = t puts t: at the place i, even when j is before it.
Gap(sl, s) == Bound(sl.start, 0, s, 0, Len(s))

\* The places in the order the slice visits them, and the rest of the list.
Rank(x, S) == Cardinality({y \in S : y < x}) + 1
Kth(S, k) == CHOOSE x \in S : Rank(x, S) = k
Visited(sl, s) == LET P == Places(sl, s)
                      up == [k \in 1..Cardinality(P) |-> Kth(P, k)]
                  IN  IF sl.step > 0 THEN up ELSE Reverse(up)
Without(s, P) == LET rest == (0..(Len(s) - 1)) \ P
                 IN  [k \in 1..Cardinality(rest) |-> s[Kth(rest, k) + 1]]

At(i, s) == IF i < 0 THEN i + Len(s) ELSE i
Has(i, s) == At(i, s) \in 0..(Len(s) - 1)
Where(s, x) == {i \in 0..(Len(s) - 1) : s[i + 1] = x}
Times(s, n) == IF n <= 0 THEN <<>> ELSE [k \in 1..(n * Len(s)) |-> s[1 + ((k - 1) % Len(s))]]

\* A permutation of s whose keys ascend, or descend, and which leaves equal
\* keys in their order.
Sorted(s, t, how, down) ==
    \E p \in Bijection(DOMAIN s, DOMAIN s) :
        /\ \A i \in DOMAIN s : t[i] = s[p[i]]
        /\ \A i, j \in DOMAIN s : i < j =>
             LET x == Key(how, t[i])
                 y == Key(how, t[j])
             IN  (IF down THEN x > y ELSE x < y) \/ (x = y /\ p[i] < p[j])
PythonSort(s, how, down) ==
    CHOOSE t \in [DOMAIN s -> {s[i] : i \in DOMAIN s}] : Sorted(s, t, how, down)

Range0(from, to, s) == {i \in 0..(Len(s) - 1) : /\ Max({0, At(from, s)}) <= i
                                               /\ (to = Missing \/ i < At(to, s))}

\* Lists compare like words: by the first place where they differ, or else by
\* length.
Differing(s, t) == {k \in DOMAIN s \cap DOMAIN t : s[k] # t[k]}
Compare(op, s, t) ==
    LET D == Differing(s, t)
    IN  CASE op = "==" -> s = t
          [] op = "!=" -> s # t
          [] OTHER -> IF D = {} THEN Decide(op, Len(s), Len(t))
                      ELSE Decide(op, s[Min(D)], t[Min(D)])
Orders == {"<", "<=", ">", ">="}
Unordered(s, t) == LET D == Differing(s, t)
                   IN  D # {} /\ None \in {s[Min(D)], t[Min(D)]}

\* call = [op, args]; operands are [kind, items].
Failure(c, s) ==
    LET a == c.args
    IN  CASE c.op \in {"get", "set", "del", "pop"} /\ ~Has(a[1], s) -> "IndexError"
          [] c.op = "setslice" /\ a[1].step # 1
               /\ Len(OperandItems(a[2], s)) # Cardinality(Places(a[1], s)) -> "ValueError"
          [] c.op = "remove" /\ Where(s, a[1]) = {} -> "ValueError"
          [] c.op = "index" /\ Where(s, a[1]) \cap Range0(a[2], a[3], s) = {} -> "ValueError"
          [] c.op = "concat" /\ a[1].kind = "tuple" -> "TypeError"
          [] c.op = "compare" /\ a[1].kind = "tuple" -> "NotImplemented"
          [] c.op = "compare" /\ a[1].kind # "tuple"
               /\ a[2] \in Orders /\ Unordered(s, OperandItems(a[1], s)) -> "TypeError"
          [] c.op = "sort" /\ a[1] = "notCallable" /\ Len(s) > 1 -> "TypeError"
          [] OTHER -> "none"

Edited(c, s) ==
    LET a == c.args
        Put(x, v) == [k \in DOMAIN s |-> IF k = x + 1 THEN v ELSE s[k]]
        Given(v) == OperandItems(v, s)
        Insert(i, t) == SubSeq(s, 1, i) \o t \o SubSeq(s, i + 1, Len(s))
        gap == Gap(a[1], s)
    IN  IF Failure(c, s) # "none" THEN s ELSE
        CASE c.op = "set" -> Put(At(a[1], s), a[2])
          [] c.op = "del" -> Put(At(a[1], s), None)      \* tests/python/test_lists.py:153-157
          [] c.op = "delslice" -> Without(s, Places(a[1], s))
          [] c.op = "setslice" /\ a[1].step = 1 ->
               SubSeq(s, 1, gap) \o Given(a[2])
                 \o SubSeq(s, gap + Cardinality(Places(a[1], s)) + 1, Len(s))
          [] c.op = "setslice" /\ a[1].step # 1 ->
               LET v == Visited(a[1], s)
               IN  [k \in DOMAIN s |-> IF \E q \in DOMAIN v : v[q] = k - 1
                                       THEN Given(a[2])[CHOOSE q \in DOMAIN v : v[q] = k - 1]
                                       ELSE s[k]]
          [] c.op \in {"extend", "iadd"} -> s \o Given(a[1])
          [] c.op = "imul" -> Times(s, a[1])
          [] c.op = "clear" -> <<>>
          [] c.op = "append" -> Append(s, a[1])
          [] c.op = "insert" -> Insert(Max({0, Min({Len(s), At(a[1], s)})}), <<a[2]>>)
          [] c.op = "pop" -> Without(s, {At(a[1], s)})
          [] c.op = "remove" -> Without(s, {Min(Where(s, a[1]))})
          [] c.op = "reverse" -> [k \in DOMAIN s |-> s[Len(s) + 1 - k]]
          [] c.op = "sort" /\ a[1] = "jsStyle" ->    \* by (x, y) => y - x, and then reversed
               LET t == PythonSort(s, "negative", FALSE) IN IF a[2] THEN Reverse(t) ELSE t
          [] c.op = "sort" /\ a[1] # "jsStyle" -> PythonSort(s, a[1], a[2])
          [] OTHER -> s

Answer(c, s) ==
    LET a == c.args
    IN  CASE c.op = "len" -> Len(s)
          [] c.op = "get" -> s[At(a[1], s) + 1]
          [] c.op = "getslice" -> LET v == Visited(a[1], s)
                                  IN  [k \in DOMAIN v |-> s[v[k] + 1]]
          [] c.op = "compare" -> Compare(a[2], s, OperandItems(a[1], s))
          [] c.op = "concat" -> s \o OperandItems(a[1], s)
          [] c.op = "repeat" -> Times(s, a[1])
          [] c.op \in {"iadd", "imul"} -> Edited(c, s)
          [] c.op = "contains" -> Where(s, a[1]) # {}
          [] c.op = "copy" -> s
          [] c.op = "pop" -> s[At(a[1], s) + 1]
          [] c.op = "index" -> Min(Where(s, a[1]) \cap Range0(a[2], a[3], s))
          [] c.op = "count" -> Cardinality(Where(s, a[1]))
          [] OTHER -> None
================================================================================
