------------------------------ MODULE ObjectMethods ------------------------------
(***************************************************************************)
(* The operations that src/src/JSObjectProxy.cc gives a JavaScript object  *)
(* when Python sees it as a dict, and those of its key and value views,    *)
(* src/src/JSObjectKeysProxy.cc and src/src/JSObjectValuesProxy.cc.  An    *)
(* object is the sequence of its own enumerable properties, <<key,         *)
(* value>>, oldest first; it inherits those of Prototype.  Each operation  *)
(* is a function of the object and of its arguments; it gives the object   *)
(* afterwards and the result, or the exception.                            *)
(*                                                                         *)
(* None stands for undefined and Python's None alike.  Values are          *)
(* primitive: how nested objects compare is left out.  An operand is       *)
(* [kind, props]: a Python "dict", one of a "subclass" of dict, a "proxy"  *)
(* of another JS object, or "seq", any other iterable, whose elements      *)
(* ought to be pairs.                                                      *)
(***************************************************************************)
EXTENDS Integers, SequencesExt, FiniteSetsExt

CONSTANTS None,      \* undefined, Python's None
          Names,     \* property names
          Methods,   \* those among them that are methods of dict as well
          BoundMethod,  \* such a method
          Prototype,    \* what every object inherits, by name
          Letters,      \* the letters of a name, which is an iterable, too
          NotSequence   \* an element of an iterable that is no sequence

ASSUME ObjectMethodsAssumption ==
    /\ Methods \subseteq Names /\ None \notin Names
    /\ DOMAIN Prototype \subseteq Names /\ \A k \in DOMAIN Prototype : Prototype[k] # None
    /\ \A k \in Names : Letters[k] # NotSequence

\* The body of a loop over s, from x on.
Walk(Body(_, _), x, s) ==
    LET after[n \in 0..Len(s)] == IF n = 0 THEN x ELSE Body(after[n - 1], s[n])
    IN  after[Len(s)]

Ok(o, ret) == [obj |-> o, ret |-> ret, err |-> "none"]
Err(o, name) == [obj |-> o, ret |-> None, err |-> name]

-----------------------------------------------------------------------------
(* SpiderMonkey's side. *)

OwnKeys(o) == [i \in DOMAIN o |-> o[i][1]]        \* js::GetPropertyKeys, JSITER_OWNONLY
PlaceOf(o, k) == {i \in DOMAIN o : o[i][1] = k}
OwnProperty(o, k) == IF PlaceOf(o, k) = {} THEN None ELSE o[Min(PlaceOf(o, k))][2]
Inherits(o, k) == PlaceOf(o, k) = {} /\ k \in DOMAIN Prototype
GetProperty(o, k) == IF Inherits(o, k) THEN Prototype[k] ELSE OwnProperty(o, k)
SetProperty(o, k, v) == IF PlaceOf(o, k) = {} THEN Append(o, <<k, v>>)
                        ELSE [o EXCEPT ![Min(PlaceOf(o, k))] = <<k, v>>]
DeleteProperty(o, k) == IF PlaceOf(o, k) = {} THEN o ELSE RemoveAt(o, Min(PlaceOf(o, k)))
ObjectAssign(o, props) == Walk(LAMBDA q, p : SetProperty(q, p[1], p[2]), o, props)

-----------------------------------------------------------------------------
(* Access to one property. *)

JSObjectProxy_length(o) == Len(OwnKeys(o))

\* A method of dict hides a property; a subscript looks at the property first.
getKey(o, key, checkPropertyShadowsMethod) ==
    CASE key \notin Methods -> GetProperty(o, key)
      [] key \in Methods /\ checkPropertyShadowsMethod /\ GetProperty(o, key) # None ->
           GetProperty(o, key)
      [] OTHER -> BoundMethod

JSObjectProxy_get(o, key) == getKey(o, key, FALSE)
JSObjectProxy_get_subscript(o, key) == getKey(o, key, TRUE)
JSObjectProxy_contains(o, key) == GetProperty(o, key) # None

JSObjectProxy_assign(o, key, v) == SetProperty(o, key, v)
JSObjectProxy_delete(o, key) == DeleteProperty(o, key)      \* the same slot, no value

-----------------------------------------------------------------------------
(* Equality goes by the keys of self.  A dict without the key, or a sequence,  *)
(* leaves its exception pending; another JS object says undefined.             *)

GetItem(v, key) == IF v.kind = "proxy" THEN JSObjectProxy_get_subscript(v.props, key)
                   ELSE OwnProperty(v.props, key)
Lacks(v, key) == v.kind = "seq" \/ (v.kind # "proxy" /\ PlaceOf(v.props, key) = {})
Differs(o, v, key) == Lacks(v, key) \/ JSObjectProxy_get_subscript(o, key) # GetItem(v, key)

JSObjectProxy_richcompare_helper(o, v) ==
    LET different == {i \in DOMAIN o : Differs(o, v, o[i][1])}
    IN  IF different # {} /\ Lacks(v, o[Min(different)][1])
        THEN [Ok(o, FALSE) EXCEPT !.err = "pending"]
        ELSE Ok(o, different = {})

JSObjectProxy_richcompare(o, v, op) ==
    LET r == JSObjectProxy_richcompare_helper(o, v)
    IN  IF op \notin {"==", "!="} THEN Err(o, "NotImplemented")
        ELSE [r EXCEPT !.ret = IF op = "==" THEN @ ELSE ~@]

-----------------------------------------------------------------------------
(* Merging. *)

IsDict(v) == v.kind \in {"dict", "subclass", "proxy"}

\* What an operand gives when it is iterated over: a dict gives its keys.
Elements(v) == IF IsDict(v) THEN [i \in DOMAIN v.props |-> Letters[v.props[i][1]]] ELSE v.props

\* One element after another, up to the first that is no pair.
mergeFromSeq2(o, v) ==
    LET Step(r, p) == CASE r.err # "none" -> r
                        [] r.err = "none" /\ p = NotSequence -> [r EXCEPT !.err = "TypeError"]
                        [] r.err = "none" /\ p # NotSequence /\ Len(p) # 2 -> [r EXCEPT !.err = "ValueError"]
                        [] OTHER -> [r EXCEPT !.obj = JSObjectProxy_assign(@, p[1], p[2])]
    IN  Walk(Step, Ok(o, None), Elements(v))

\* object | v, and v | object for a Python dict v, which subscripts the object.
JSObjectProxy_or(o, v, swapped) ==
    CASE ~IsDict(v) -> Err(o, "NotImplemented")
      [] IsDict(v) /\ swapped ->
           Ok(o, ObjectAssign(v.props, [i \in DOMAIN o |-> <<o[i][1], JSObjectProxy_get_subscript(o, o[i][1])>>]))
      [] OTHER -> Ok(o, ObjectAssign(ObjectAssign(<<>>, o), v.props))

JSObjectProxy_ior(o, v) ==
    IF IsDict(v) THEN Ok(ObjectAssign(o, v.props), "self")
    ELSE LET r == mergeFromSeq2(o, v) IN IF r.err = "none" THEN Ok(r.obj, "self") ELSE r

-----------------------------------------------------------------------------
(* Methods. *)

JSObjectProxy_get_method(o, key, default) ==
    Ok(o, IF JSObjectProxy_get(o, key) = None THEN default ELSE JSObjectProxy_get(o, key))

JSObjectProxy_setdefault_method(o, key, default) ==
    LET value == getKey(o, key, TRUE)
    IN  IF value = None THEN Ok(JSObjectProxy_assign(o, key, default), default) ELSE Ok(o, value)

\* <<>> for no default.
JSObjectProxy_pop_method(o, key, default) ==
    CASE GetProperty(o, key) # None -> Ok(JSObjectProxy_delete(o, key), GetProperty(o, key))
      [] GetProperty(o, key) = None /\ default # <<>> -> Ok(o, default[1])
      [] OTHER -> Err(o, "KeyError")

JSObjectProxy_clear_method(o) == Ok(Walk(DeleteProperty, o, OwnKeys(o)), None)
JSObjectProxy_copy_method(o) == Ok(o, ObjectAssign(<<>>, o))

UpdateGoesOn(o, v, kwds) ==                         \* mutant of JSObjectProxy_update_method
    LET r == JSObjectProxy_ior(o, v) IN [r EXCEPT !.obj = JSObjectProxy_ior(@, kwds).obj, !.ret = None]

\* update(v, **kwds).  PyDict_CheckExact is false of a subclass of dict, which is
\* iterated over like anything else.
JSObjectProxy_update_method(o, v, kwds) ==
    LET r == IF v.kind \in {"dict", "proxy"} THEN JSObjectProxy_ior(o, v) ELSE mergeFromSeq2(o, v)
    IN  IF r.err # "none" THEN r ELSE Ok(JSObjectProxy_ior(r.obj, kwds).obj, None)

-----------------------------------------------------------------------------
(* The view of the keys.  The other operand is a "set", the view of a dict,   *)
(* "dictKeys", the view of another JS object, "proxyKeys", or a "list".       *)
(* The view of a dict and PyDictViewSet_Check take either view.               *)

IsView(w) == w.kind \in {"dictKeys", "proxyKeys"}
Holds(w, key) == IF w.kind = "proxyKeys" THEN JSObjectProxy_contains(w.props, key)
                 ELSE PlaceOf(w.props, key) # {}
View(o) == [kind |-> "proxyKeys", props |-> o]

JSObjectKeysProxy_length(w) == JSObjectProxy_length(w.props)
JSObjectKeysProxy_contains(w, key) == JSObjectProxy_contains(w.props, key)

\* What a view of a JS object answers is not looked at.
all_contained_in(w, other) ==
    other.kind = "proxyKeys" \/ \A i \in DOMAIN w.props : Holds(other, w.props[i][1])

\* The length of another JS object is taken from this one.
JSObjectKeysProxy_richcompare(o, other, op) ==
    LET len_self  == JSObjectProxy_length(o)
        len_other == IF other.kind = "proxyKeys" THEN JSObjectProxy_length(o) ELSE Len(other.props)
        within == all_contained_in(View(o), other)
        around == all_contained_in(other, View(o))
    IN  IF other.kind = "list" THEN Err(o, "NotImplemented")
        ELSE Ok(o, CASE op = "==" -> len_self = len_other /\ within
                     [] op = "!=" -> ~(len_self = len_other /\ within)
                     [] op = "<" -> len_self < len_other /\ within
                     [] op = "<=" -> len_self <= len_other /\ within
                     [] op = ">" -> len_self > len_other /\ around
                     [] op = ">=" -> len_self >= len_other /\ around)

\* Of a JS object, ma_used is 0.
dictview_len(w) == IF w.kind = "proxyKeys" THEN 0 ELSE Len(w.props)

\* left & right, one of which is the view: the one on the left counts as self if
\* it is a view at all.
JSObjectKeysProxy_intersect(o, left, right) ==
    LET this == IF IsView(left) THEN left ELSE right
        other == IF IsView(left) THEN right ELSE left
        len_self == IF this.kind = "proxyKeys" THEN JSObjectKeysProxy_length(this)
                    ELSE dictview_len(this)
        swap == IsView(other) /\ dictview_len(other) > len_self
        from == IF swap THEN this ELSE other
        into == IF swap THEN other ELSE this
        keysOf(w) == {w.props[i][1] : i \in DOMAIN w.props}
    IN  IF other.kind = "set" /\ len_self <= Len(other.props)
        THEN Ok(o, keysOf(other) \cap keysOf(this))
        ELSE Ok(o, {k \in keysOf(from) : Holds(into, k)})

JSObjectKeysProxy_isDisjoint(o, other) ==
    LET selfLen == JSObjectKeysProxy_length(View(o))
        swap == other.kind \in {"set", "dictKeys", "proxyKeys"} /\ Len(other.props) > selfLen
        from == IF swap THEN View(o) ELSE other
        into == IF swap THEN other ELSE View(o)
    IN  Ok(o, \A i \in DOMAIN from.props : ~Holds(into, from.props[i][1]))

\* `in` on the view of the values looks for a key.
JSObjectValuesProxy_length(o) == JSObjectProxy_length(o)
JSObjectValuesProxy_contains(o, key) == JSObjectProxy_contains(o, key)
JSObjectItemsProxy_length(o) == JSObjectProxy_length(o)
==================================================================================
