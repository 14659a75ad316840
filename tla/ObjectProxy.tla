------------------------------- MODULE ObjectProxy -------------------------------
(***************************************************************************)
(* A JavaScript object in the hands of a Python program, through           *)
(* src/src/JSObjectProxy.cc and the views of its keys, values and items.   *)
(* An operation of ObjectMethods is one step.  Iteration, with the         *)
(* iterators of ObjectIter, is a step for each item, and in between the    *)
(* program, in either language, may change the object.  `last` is the      *)
(* operation that has just returned, until the program has looked at its   *)
(* result.                                                                 *)
(***************************************************************************)
EXTENDS DictStandard, ObjectIter

CONSTANTS Operations,   \* the operations the program uses
          MaxProps,     \* bound: properties of the object
          MaxOperand    \* bound: properties or elements of an operand

ASSUME ObjectProxyAssumption ==
    /\ MaxProps \in Nat /\ MaxOperand \in Nat
    /\ Names # {} /\ Values # {} /\ None \notin Values /\ BoundMethod \notin Values \cup {None}
    /\ \A k \in DOMAIN Prototype : Prototype[k] \notin Values
    /\ \A k \in Names : Len(Letters[k]) = 2 => Letters[k] \in Names \X Values
    /\ Operations \subseteq {"len", "getitem", "getattr", "contains", "set", "del", "compare", "or", "ror",
                            "ior", "get", "setdefault", "pop", "clear", "copy", "update",
                            "keysCompare", "and", "rand", "isdisjoint", "valuesContains"}

VARIABLE last

objectVars == <<obj, objIt, last>>

NoCall == [op |-> "none"]

\* Objects with up to n properties.
Some(V, n) == {o \in BoundedSeq(Names \X V, n) : IsInjective(OwnKeys(o))}

ObjectInit == /\ obj \in Some(Values \cup {None}, MaxProps)
              /\ objIt = NoObjectIter
              /\ last = NoCall

-----------------------------------------------------------------------------
(* The operations of the dict and of the view of its keys. *)

Dicts == [kind : {"dict", "subclass", "proxy"}, props : Some(Values \cup {None}, MaxOperand)]
Iterables == [kind : {"seq"},
              props : BoundedSeq((Names \X Values) \cup {NotSequence, <<None>>}, MaxOperand)]
Keyed == [kind : {"set", "dictKeys", "proxyKeys", "list"},
          props : Some({CHOOSE v \in Values : TRUE}, MaxProps)]
NoKwds == [kind |-> "dict", props |-> <<>>]
Kwds == {NoKwds, [kind |-> "dict", props |-> <<CHOOSE p \in Names \X Values : TRUE>>]}
Relations == {"==", "!=", "<", "<=", ">", ">="}
Defaults == Values \cup {None}

Arguments(op) ==
    CASE op \in {"getitem", "getattr", "contains", "del", "valuesContains"} -> [1..1 -> Names]
      [] op \in {"set", "get", "setdefault"} -> Names \X Defaults
      [] op = "pop" -> Names \X {<<>>, <<None>>}
      [] op = "compare" -> (Dicts \cup Iterables) \X {"==", "!=", "<"}
      [] op \in {"or", "ror", "ior"} -> [1..1 -> Dicts \cup Iterables]
      [] op = "update" -> (Dicts \cup Iterables) \X Kwds
      [] op = "keysCompare" -> Keyed \X Relations
      [] op \in {"and", "rand", "isdisjoint"} -> [1..1 -> Keyed]
      [] OTHER -> {<<>>}

Perform(op, o, x) ==
    CASE op = "len" -> Ok(o, JSObjectProxy_length(o))
      [] op = "getitem" -> Ok(o, JSObjectProxy_get_subscript(o, x[1]))
      [] op = "getattr" -> Ok(o, JSObjectProxy_get(o, x[1]))
      [] op = "contains" -> Ok(o, JSObjectProxy_contains(o, x[1]))
      [] op = "set" -> Ok(JSObjectProxy_assign(o, x[1], x[2]), None)
      [] op = "del" -> Ok(JSObjectProxy_delete(o, x[1]), None)
      [] op = "compare" -> JSObjectProxy_richcompare(o, x[1], x[2])
      [] op = "or" -> JSObjectProxy_or(o, x[1], FALSE)
      [] op = "ror" -> JSObjectProxy_or(o, x[1], TRUE)
      [] op = "ior" -> JSObjectProxy_ior(o, x[1])
      [] op = "get" -> JSObjectProxy_get_method(o, x[1], x[2])
      [] op = "setdefault" -> JSObjectProxy_setdefault_method(o, x[1], x[2])
      [] op = "pop" -> JSObjectProxy_pop_method(o, x[1], x[2])
      [] op = "clear" -> JSObjectProxy_clear_method(o)
      [] op = "copy" -> JSObjectProxy_copy_method(o)
      [] op = "update" -> JSObjectProxy_update_method(o, x[1], x[2])
      [] op = "keysCompare" -> JSObjectKeysProxy_richcompare(o, x[1], x[2])
      [] op = "and" -> JSObjectKeysProxy_intersect(o, View(o), x[1])
      [] op = "rand" -> JSObjectKeysProxy_intersect(o, x[1], View(o))
      [] op = "isdisjoint" -> JSObjectKeysProxy_isDisjoint(o, x[1])
      [] op = "valuesContains" -> Ok(o, JSObjectValuesProxy_contains(o, x[1]))

\* Bound: one operation from every object, no iterator being there.
Free == last = NoCall /\ objIt = NoObjectIter
Do(op, args) ==
    /\ Free
    /\ LET r == Perform(op, obj, args)
       IN  /\ obj' = r.obj
           /\ last' = [op |-> op, args |-> args, before |-> obj, ret |-> r.ret, err |-> r.err]
    /\ UNCHANGED objIt

\* The program has used the result.
Consume == last # NoCall /\ last' = NoCall /\ UNCHANGED <<obj, objIt>>

-----------------------------------------------------------------------------
(* Iterators. *)

Iterate == /\ last = NoCall
           /\ \/ JSObjectProxy_iter \/ JSObjectKeysProxy_iter \/ JSObjectKeysProxy_iter_reverse
              \/ JSObjectValuesProxy_iter \/ JSObjectValuesProxy_iter_reverse
              \/ JSObjectItemsProxy_iter \/ JSObjectItemsProxy_iter_reverse
           /\ UNCHANGED last
IterStep(A) == A /\ UNCHANGED last

\* JavaScript, or a proxy in Python, changes the object in the meantime.
Meanwhile(o) ==
    /\ objIt.state \in {"live", "spent"}
    /\ obj' = o
    /\ ObjectNoticed
    /\ UNCHANGED last

Assign == \E k \in Names, v \in Values : Meanwhile(JSObjectProxy_assign(obj, k, v))
Delete == \E k \in Names : Meanwhile(JSObjectProxy_delete(obj, k))

\* Bound: after a crash, another program.
Restart == objIt.state = "crashed" /\ objIt' = NoObjectIter /\ obj' = <<>> /\ UNCHANGED last

ObjectNext == \/ Free /\ \E op \in Operations : \E args \in Arguments(op) : Do(op, args)
              \/ Consume
              \/ Iterate
              \/ IterStep(JSObjectIterProxy_nextkey) \/ IterStep(ReadBeyondCopy)
              \/ IterStep(objNextEnds) \/ IterStep(objNextAgain)
              \/ IterStep(JSObjectIterProxy_dealloc)
              \/ Assign \/ Delete
              \/ Restart

ObjectSpec == ObjectInit /\ [][ObjectNext]_objectVars

-----------------------------------------------------------------------------
(* Properties. *)

Undefined(props) == \E i \in DOMAIN props : props[i][2] = None
Extra(v, o) == DOMAIN Mapping(v.props) \ DOMAIN Mapping(o) # {}

\* A key that one side has and the other inherits.
Crossed(o, w) == \/ \E k \in NamesOf(w) : Inherits(o, k)
                 \/ w.kind = "proxyKeys" /\ \E i \in DOMAIN o : Inherits(w.props, o[i][1])

\* What may be otherwise: == with an operand that has keys of its own, or is no
\* mapping; with undefined properties, == and the view of the keys; the view
\* compared with the view of another JS object, or by > or >= with anything;
\* dict | object with undefined properties; get() and setdefault() of a key that
\* is the name of a method; every access to a key that the object inherits, and
\* the intersection of views with such a key; update() with an instance of a
\* subclass of dict; `in` on the view of the values, which looks for a key.
Known ==
    LET a == last.args
        o == last.before
    IN  CASE last.op = "compare" /\ a[2] # "<" ->
               a[1].kind = "seq" \/ Extra(a[1], o) \/ Undefined(o) \/ Undefined(a[1].props)
          [] last.op = "keysCompare" -> Undefined(o) \/ a[1].kind = "proxyKeys" \/ a[2] \in {">", ">="}
          [] last.op \in {"and", "rand", "isdisjoint"} -> Undefined(o) \/ Crossed(o, a[1])
          [] last.op = "ror" -> Undefined(o)
          [] last.op \in {"get", "setdefault"} -> a[1] \in Methods \/ Inherits(o, a[1])
          [] last.op \in {"getitem", "getattr", "contains", "pop"} -> Inherits(o, a[1])
          [] last.op = "update" -> a[1].kind = "subclass" /\ a[1].props # <<>>
          [] last.op = "valuesContains" -> TRUE
          [] OTHER -> FALSE

Result == IF last.op \in {"or", "ror", "copy"} THEN Mapping(last.ret) ELSE last.ret

\* The keys that stay keep their order, and the new ones are behind them.
OrderKept ==
    \A i, j \in DOMAIN obj :
        i < j /\ PlaceOf(last.before, obj[j][1]) # {} =>
            \E p \in PlaceOf(last.before, obj[i][1]), q \in PlaceOf(last.before, obj[j][1]) : p < q

\* Of the calls that Known does not name, each one leaves in the object, and returns
\* or raises, what Python's dict does, whether the other operand is a dict, another
\* JS object or an iterable of pairs that may turn out to be bad half-way; and keys
\* stay in order.  (An == that is False may leave the KeyError of the other dict
\* pending.)
OperationsMeetStandard ==
    (last # NoCall /\ ~Known) =>
        LET c == [op |-> last.op, args |-> last.args]
            d == Mapping(last.before)
        IN  /\ (IF last.err = "pending" THEN "none" ELSE last.err) = Failure(c, d)
            /\ Mapping(obj) = Edited(c, d)
            /\ OrderKept
            /\ last.err = "none" => Result = Answer(c, d)

==================================================================================
