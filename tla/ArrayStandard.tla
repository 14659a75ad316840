----------------------------- MODULE ArrayStandard -----------------------------
(***************************************************************************)
(* What ECMAScript promises of Array.prototype, stated over the list       *)
(* before the call (`s`) and the arguments, without loops: the yardstick   *)
(* for ListMethods.  Edited is the array afterwards, Answer the result.    *)
(* A hole and null do not occur: an absent value is None.                  *)
(***************************************************************************)
EXTENDS ListMethods

\* A relative index as a position between elements: ToIntegerOrInfinity, then
\* the clamp that slice, splice, fill and copyWithin share.
Position(n, s) == LET fromEnd == n + (IF n < 0 THEN Len(s) ELSE 0)
                  IN  Min({Len(s), Max({0, fromEnd})})

From(args, k, s) == IF k <= Len(args) THEN Position(args[k], s) ELSE 0
Until(args, k, s) == IF k <= Len(args) /\ args[k] # Undefined THEN Position(args[k], s)
                     ELSE Len(s)
Within(i, a, b) == a < i /\ i <= b        \* element i lies between two positions

Deleted(s, args) ==
    CASE args = <<>> -> 0
      [] Len(args) = 1 -> Len(s) - From(args, 1, s)
      [] OTHER -> Min({Len(s) - From(args, 1, s), Max({0, args[2]})})

Edited(m, s, args) ==
    LET a == From(args, 1, s)
    IN  CASE m = "reverse" -> [i \in DOMAIN s |-> s[Len(s) + 1 - i]]
          [] m = "pop" -> SubSeq(s, 1, Len(s) - 1)
          [] m = "push" -> s \o args
          [] m = "shift" -> SubSeq(s, 2, Len(s))
          [] m = "unshift" -> args \o s
          [] m = "splice" -> SubSeq(s, 1, a) \o SubSeq(args, 3, Len(args))
                               \o SubSeq(s, a + Deleted(s, args) + 1, Len(s))
          [] m = "fill" ->
               [i \in DOMAIN s |-> IF Within(i, From(args, 2, s), Until(args, 3, s))
                                   THEN args[1] ELSE s[i]]
          [] m = "copyWithin" ->
               LET move == From(args, 2, s) - a
               IN  [i \in DOMAIN s |->
                      IF a < i /\ Within(i + move, From(args, 2, s), Until(args, 3, s))
                      THEN s[i + move] ELSE s[i]]
          [] m = "set" -> [i \in 1..Max({Len(s), args[1] + 1}) |->
                             IF i = args[1] + 1 THEN args[2]
                             ELSE IF i \in DOMAIN s THEN s[i] ELSE None]
          [] m = "delete" -> [i \in DOMAIN s |-> IF i = args[1] + 1 THEN None ELSE s[i]]
          [] OTHER -> s

Positions(s, x) == {i \in DOMAIN s : s[i] = x}
Spread(s) == FlattenSeq([i \in DOMAIN s |-> IF s[i] \in Containers THEN Contents[s[i]] ELSE <<s[i]>>])
Flattened(s, depth) == CASE depth <= 0 -> s
                         [] depth = 1 -> Spread(s)
                         [] depth = 2 -> Spread(Spread(s))
                         [] OTHER -> Spread(Spread(Spread(s)))
Joined(s, sep) == FlattenSeq([i \in DOMAIN s |->
    (IF i = 1 THEN <<>> ELSE <<sep>>) \o (IF s[i] = None THEN <<>> ELSE <<s[i]>>)])
LastOr(s, default) == IF s = <<>> THEN default ELSE s[Len(s)]

\* The result of a method; `list` results are the sequence of their elements.
Answer(m, s, args) ==
    LET after == Edited(m, s, args)
        found == {i \in Positions(s, args[1]) : i > From(args, 2, s)}
        before == {i \in Positions(s, args[1]) :
                     \/ Len(args) < 2
                     \/ i <= 1 + (IF args[2] < 0 THEN Len(s) + args[2] ELSE args[2])}
    IN  CASE m = "pop" -> LastOr(s, Undefined)
          [] m = "shift" -> IF s = <<>> THEN Undefined ELSE s[1]
          [] m \in {"push", "unshift"} -> Len(after)
          [] m \in {"reverse", "fill", "copyWithin", "valueOf"} -> after
          [] m = "splice" -> SubSeq(s, From(args, 1, s) + 1, From(args, 1, s) + Deleted(s, args))
          [] m = "slice" -> SubSeq(s, From(args, 1, s) + 1, Until(args, 2, s))
          [] m = "concat" -> s \o Spread(args)
          [] m = "indexOf" -> IF found = {} THEN -1 ELSE Min(found) - 1
          [] m = "includes" -> found # {}
          [] m = "lastIndexOf" -> IF before = {} THEN -1 ELSE Max(before) - 1
          [] m = "flat" -> Flattened(s, IF args = <<>> THEN 1 ELSE args[1])
          [] m = "join" -> Joined(s, IF args = <<>> THEN "," ELSE args[1])
          [] m \in {"toString", "toLocaleString"} -> Joined(s, ",")
          [] m \in {"set", "delete"} -> TRUE
          [] m = "get" -> IF args[1] = LengthKey THEN Len(s)
                          ELSE IF args[1] + 1 \in DOMAIN s THEN s[args[1] + 1] ELSE Undefined
          [] m = "ownKeys" -> [i \in 1..(Len(s) + 1) |-> IF i <= Len(s) THEN i - 1 ELSE LengthKey]

(***************************************************************************)
(* The methods that call a function, from what the calls saw: `seen` is    *)
(* the sequence of the items passed and `rets` of what the calls returned. *)
(***************************************************************************)
Chosen(seen, rets) == {i \in DOMAIN rets : rets[i] = TRUE}

Outcome(m, seen, rets, initial) ==
    LET chosen == Chosen(seen, rets)
    IN  CASE m = "forEach" -> Undefined
          [] m = "map" -> rets
          [] m = "flatMap" -> Spread(rets)
          [] m = "filter" -> [k \in 1..Cardinality(chosen) |->
                                seen[CHOOSE i \in chosen : Cardinality({j \in chosen : j <= i}) = k]]
          [] m = "some" -> chosen # {}
          [] m = "every" -> chosen = DOMAIN rets
          [] m = "find" -> IF chosen = {} THEN Undefined ELSE seen[Min(chosen)]
          [] m = "findIndex" -> IF chosen = {} THEN -1 ELSE Min(chosen) - 1
          [] m \in {"reduce", "reduceRight"} -> LastOr(rets, initial)

\* How many calls there must have been over a list of length n.
CallsDue(m, rets, n) ==
    LET stop == CASE m \in {"some", "find", "findIndex"} -> Chosen(rets, rets)
                  [] m = "every" -> DOMAIN rets \ Chosen(rets, rets)
                  [] OTHER -> {}
    IN  IF stop = {} THEN n ELSE Min(stop)
==============================================================================
