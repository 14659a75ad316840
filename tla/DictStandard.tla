------------------------------ MODULE DictStandard ------------------------------
(***************************************************************************)
(* What Python promises of a dict and of the view of its keys, stated over *)
(* the mapping before the operation: the yardstick for ObjectMethods.  A   *)
(* property that is undefined is in the mapping, with the value None: it   *)
(* counts for the length and in iteration, and Has says of it, as of a key *)
(* that is not there, that the mapping does not have it.                   *)
(***************************************************************************)
EXTENDS ObjectMethods

\* The last pair of a key wins.
Mapping(props) ==
    [k \in {props[i][1] : i \in DOMAIN props} |->
        props[Max({i \in DOMAIN props : props[i][1] = k})][2]]

Has(d, k) == k \in DOMAIN d /\ d[k] # None
Overlay(d, e) == [k \in DOMAIN d \cup DOMAIN e |-> IF k \in DOMAIN e THEN e[k] ELSE d[k]]
With(d, k, v) == Overlay(d, [x \in {k} |-> v])
Without(d, k) == [x \in DOMAIN d \ {k} |-> d[x]]
NamesOf(w) == DOMAIN Mapping(w.props)

\* An iterable is merged up to the first element that is no pair.
Bad(v) == {i \in DOMAIN v.props : v.props[i] = NotSequence \/ Len(v.props[i]) # 2}
Merged(v) == IF IsDict(v) \/ Bad(v) = {} THEN Mapping(v.props)
             ELSE Mapping(SubSeq(v.props, 1, Min(Bad(v)) - 1))

\* A call is [op, args].
Failure(c, d) ==
    LET a == c.args
    IN  CASE c.op = "pop" /\ ~Has(d, a[1]) /\ a[2] = <<>> -> "KeyError"
          [] c.op \in {"or", "ror"} /\ ~IsDict(a[1]) -> "NotImplemented"
          [] c.op \in {"ior", "update"} /\ ~IsDict(a[1]) /\ Bad(a[1]) # {} ->
               (IF a[1].props[Min(Bad(a[1]))] = NotSequence THEN "TypeError" ELSE "ValueError")
          [] c.op = "compare" /\ a[2] = "<" -> "NotImplemented"
          [] c.op = "keysCompare" /\ a[1].kind = "list" -> "NotImplemented"
          [] OTHER -> "none"

Edited(c, d) ==
    LET a == c.args
    IN  CASE c.op = "set" -> With(d, a[1], a[2])
          [] c.op = "del" -> Without(d, a[1])
          [] c.op = "ior" -> Overlay(d, Merged(a[1]))
          [] c.op = "update" -> IF Failure(c, d) # "none" THEN Overlay(d, Merged(a[1]))
                                ELSE Overlay(Overlay(d, Merged(a[1])), Mapping(a[2].props))
          [] c.op = "setdefault" -> IF Has(d, a[1]) THEN d ELSE With(d, a[1], a[2])
          [] c.op = "pop" -> IF Has(d, a[1]) THEN Without(d, a[1]) ELSE d
          [] c.op = "clear" -> Mapping(<<>>)
          [] OTHER -> d

Relation(op, S, T) == CASE op = "==" -> S = T
                        [] op = "!=" -> S # T
                        [] op = "<=" -> S \subseteq T
                        [] op = "<" -> S \subseteq T /\ S # T
                        [] op = ">=" -> T \subseteq S
                        [] op = ">" -> T \subseteq S /\ S # T

\* A result that is a mapping is given as one.
Answer(c, d) ==
    LET a == c.args
    IN  CASE c.op = "len" -> Cardinality(DOMAIN d)
          [] c.op = "getitem" -> (IF Has(d, a[1]) THEN d[a[1]]
                                  ELSE IF a[1] \in Methods THEN BoundMethod ELSE None)
          [] c.op = "getattr" -> (IF a[1] \in Methods THEN BoundMethod
                                  ELSE IF Has(d, a[1]) THEN d[a[1]] ELSE None)
          [] c.op = "contains" -> Has(d, a[1])
          [] c.op = "compare" -> Relation(a[2], d, Mapping(a[1].props))
          [] c.op = "or" -> Overlay(d, Mapping(a[1].props))
          [] c.op = "ror" -> Overlay(Mapping(a[1].props), d)
          [] c.op = "ior" -> "self"
          [] c.op = "get" -> IF Has(d, a[1]) THEN d[a[1]] ELSE a[2]
          [] c.op = "setdefault" -> IF Has(d, a[1]) THEN d[a[1]] ELSE a[2]
          [] c.op = "pop" -> IF Has(d, a[1]) THEN d[a[1]] ELSE a[2][1]
          [] c.op = "copy" -> d
          [] c.op = "keysCompare" -> Relation(a[2], DOMAIN d, NamesOf(a[1]))
          [] c.op \in {"and", "rand"} -> DOMAIN d \cap NamesOf(a[1])
          [] c.op = "isdisjoint" -> DOMAIN d \cap NamesOf(a[1]) = {}
          [] OTHER -> None
=================================================================================
