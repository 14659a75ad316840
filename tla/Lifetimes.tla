--------------------------------- MODULE Lifetimes ---------------------------------
(***************************************************************************)
(* What keeps a value alive that two heaps share: src/src/jsTypeFactory.cc *)
(* and pyTypeFactory.cc with the finalizers of what they make.  A cell of  *)
(* the JavaScript heap holds a counted reference to a Python object, which *)
(* its finalizer (or, of a function, a callback of the FinalizationRegis-  *)
(* try) gives back; a Python string that stands for a JavaScript string    *)
(* roots it and points into its buffer, which a collection may move.       *)
(***************************************************************************)
EXTENDS Integers, FiniteSets

CONSTANTS Objects, Cells, Strings, NoObject, NoCell

ASSUME LifetimesAssumption ==
    /\ IsFiniteSet(Objects) /\ IsFiniteSet(Cells) /\ IsFiniteSet(Strings)
    /\ NoObject \notin Objects /\ NoCell \notin Cells

Kinds == {"str", "function", "object", "iterator", "bytes", "bytearray"}

VARIABLES
    kind,             \* kind of the Python object at each address, "none" if it is free
    refs,             \* its reference count
    held,             \* objects the Python program has a reference to
    cell,             \* state of each cell
    is,               \* what it is
    target,           \* the Python object it stands for
    bufferOf,         \* the ArrayBuffer that a bytes proxy keeps
    jsHeld,           \* cells the JavaScript program can reach
    externalStrings,  \* externalStringObjToRefCountMap; 0 is no entry
    queue,            \* functions whose finalization callback is still to run
    proxy,            \* state of each JSStringProxy
    base,             \* the external string its JSString is a part of
    jsStringProxies,  \* JSStringProxies whose pointers are updated
    stale,            \* JSStringProxies that point to where their buffer was
    phase,            \* "ending": in the callback at the end of a collection
    finalizing        \* Py_IsFinalizing()

pyVars == <<kind, refs, held>>
jsVars == <<cell, is, target, bufferOf, jsHeld>>
strVars == <<proxy, base, jsStringProxies, stale>>
vars == <<pyVars, jsVars, externalStrings, queue, strVars, phase, finalizing>>

Init ==
    /\ kind = [o \in Objects |-> "none"] /\ refs = [o \in Objects |-> 0] /\ held = {}
    /\ cell = [c \in Cells |-> "none"] /\ is = [c \in Cells |-> "none"]
    /\ target = [c \in Cells |-> NoObject] /\ bufferOf = [c \in Cells |-> NoCell]
    /\ jsHeld = {} /\ externalStrings = [o \in Objects |-> 0] /\ queue = {}
    /\ proxy = [s \in Strings |-> "none"] /\ base = [s \in Strings |-> NoCell]
    /\ jsStringProxies = {} /\ stale = {}
    /\ phase = "running" /\ finalizing = FALSE

\* New reference counts; what has none left is freed.
SetRefs(new) ==
    /\ refs' = new
    /\ kind' = [o \in Objects |-> IF new[o] = 0 THEN "none" ELSE kind[o]]

NewCells == {c \in Cells : cell[c] = "none"}
Proxied == {s \in Strings : proxy[s] = "live"}

MakeCell(c, what, o) ==
    /\ c \in NewCells
    /\ cell' = [cell EXCEPT ![c] = "live"]
    /\ is' = [is EXCEPT ![c] = what]
    /\ target' = [target EXCEPT ![c] = o]
    /\ jsHeld' = jsHeld \cup {c}

-----------------------------------------------------------------------------
(* The Python program, which ends with the destructors that run as it is finalized, and
   may also run in those that functionRegistryCallback calls. *)

NewObject(o, k) ==
    /\ kind[o] = "none"
    /\ kind' = [kind EXCEPT ![o] = k]
    /\ refs' = [refs EXCEPT ![o] = 1]
    /\ held' = held \cup {o}
    /\ UNCHANGED <<jsVars, externalStrings, queue, strVars, phase, finalizing>>

Drop(o) ==
    /\ o \in held
    /\ held' = held \ {o}
    /\ SetRefs([refs EXCEPT ![o] = @ - 1])
    /\ UNCHANGED <<jsVars, externalStrings, queue, strVars, phase, finalizing>>

\* The last reference to the string that stands for `s`: no longer updated or rooted.
JSStringProxy_dealloc(s) ==
    /\ s \in Proxied
    /\ jsStringProxies' = jsStringProxies \ {s}
    /\ stale' = stale \ {s}
    /\ proxy' = [proxy EXCEPT ![s] = "none"]
    /\ base' = [base EXCEPT ![s] = NoCell]
    /\ UNCHANGED <<pyVars, jsVars, externalStrings, queue, phase, finalizing>>

-----------------------------------------------------------------------------
(* From Python to JavaScript: jsTypeFactory. *)

CountedOnce(o) ==                                            \* mutant of CountExternal
    externalStrings' = [externalStrings EXCEPT ![o] = 1]
CountExternal(o) == externalStrings' = [externalStrings EXCEPT ![o] = @ + 1]

\* An external string that uses the buffer of the str.
toExternalString(o, c) ==
    /\ kind[o] = "str"
    /\ MakeCell(c, "external", o)
    /\ CountExternal(o)
    /\ SetRefs([refs EXCEPT ![o] = @ + 1])
    /\ UNCHANGED <<held, bufferOf, queue, strVars, phase, finalizing>>

WrapperReferences(what) ==                                   \* mutant of References
    IF what = "function" THEN 0 ELSE 1
\* The references a wrapper takes: an iterator gives one of itself to
\* PyObject_GetIter, and another to Py_INCREF.
References(what) == IF what = "iterable" THEN 2 ELSE 1

WrapperOf == [function |-> "function", object |-> "proxy", iterator |-> "iterable"]

\* A function that calls the Python function, registered with its target; a proxy of
\* a dict, a list or another object; a proxy of an iterator.
toWrapper(o, c) ==
    /\ kind[o] \in DOMAIN WrapperOf
    /\ LET what == WrapperOf[kind[o]]
       IN  MakeCell(c, what, o) /\ SetRefs([refs EXCEPT ![o] = @ + References(what)])
    /\ UNCHANGED <<held, bufferOf, externalStrings, queue, strVars, phase, finalizing>>

\* A writable buffer: a reference of its own, and the one of the Py_buffer, for a
\* typed array and its external ArrayBuffer (one cell).
toJsTypedArray(o, c) ==
    /\ kind[o] = "bytearray"
    /\ MakeCell(c, "writable", o)
    /\ SetRefs([refs EXCEPT ![o] = @ + 1 + 1])
    /\ UNCHANGED <<held, bufferOf, externalStrings, queue, strVars, phase, finalizing>>

\* A read-only buffer: the same for a proxy and the external ArrayBuffer it roots.
toJsBytes(o, c, b) ==
    /\ kind[o] = "bytes"
    /\ c # b /\ {c, b} \subseteq NewCells
    /\ cell' = [cell EXCEPT ![c] = "live", ![b] = "live"]
    /\ is' = [is EXCEPT ![c] = "bytes", ![b] = "buffer"]
    /\ target' = [target EXCEPT ![c] = o, ![b] = o]
    /\ bufferOf' = [bufferOf EXCEPT ![c] = b]
    /\ jsHeld' = jsHeld \cup {c}
    /\ SetRefs([refs EXCEPT ![o] = @ + 1 + 1])
    /\ UNCHANGED <<held, externalStrings, queue, strVars, phase, finalizing>>

\* A str that stands for a JavaScript string is handed back as that string.
toJSString(s) ==
    /\ s \in Proxied /\ base[s] # NoCell
    /\ jsHeld' = jsHeld \cup {base[s]}
    /\ UNCHANGED <<pyVars, cell, is, target, bufferOf, externalStrings, queue, strVars, phase,
                   finalizing>>

-----------------------------------------------------------------------------
(* From JavaScript to Python: pyTypeFactory. *)

\* What stands for a Python object is handed back as that object, with a reference
\* (which the program drops if it has one).
Unwrap(c) ==
    /\ c \in jsHeld /\ is[c] \in {"external", "function", "proxy", "iterable", "bytes"}
    /\ target[c] \notin held
    /\ held' = held \cup {target[c]}
    /\ SetRefs([refs EXCEPT ![target[c]] = @ + 1])
    /\ UNCHANGED <<jsVars, externalStrings, queue, strVars, phase, finalizing>>

ProxifiedUnregistered(s) ==                                  \* mutant of proxify
    proxy' = [proxy EXCEPT ![s] = "live"] /\ UNCHANGED jsStringProxies
proxify(s) ==
    /\ proxy' = [proxy EXCEPT ![s] = "live"]
    /\ jsStringProxies' = jsStringProxies \cup {s}

\* A string of JavaScript's own, or a part of an external one, and in place.
proxifyString(s, c) ==
    /\ s \notin Proxied /\ (c = NoCell \/ (c \in jsHeld /\ is[c] = "external"))
    /\ proxify(s)
    /\ base' = [base EXCEPT ![s] = c]
    /\ UNCHANGED <<pyVars, jsVars, externalStrings, queue, stale, phase, finalizing>>

\* bytes.buffer
getBuffer(c) ==
    /\ c \in jsHeld /\ is[c] = "bytes"
    /\ jsHeld' = jsHeld \cup {bufferOf[c]}
    /\ UNCHANGED <<pyVars, cell, is, target, bufferOf, externalStrings, queue, strVars, phase,
                   finalizing>>

Forget(c) ==
    /\ c \in jsHeld
    /\ jsHeld' = jsHeld \ {c}
    /\ UNCHANGED <<pyVars, cell, is, target, bufferOf, externalStrings, queue, strVars, phase,
                   finalizing>>

-----------------------------------------------------------------------------
(* The collector. *)

ArrayBufferUnrooted(c) ==                                    \* mutant of Rooted
    c \in jsHeld \/ \E s \in Proxied : base[s] = c
\* What the program reaches; what a JSStringProxy, or the proxy of a bytes object,
\* keeps with a PersistentRooted.
Rooted(c) ==
    \/ c \in jsHeld
    \/ \E s \in Proxied : base[s] = c
    \/ \E d \in Cells : cell[d] = "live" /\ bufferOf[d] = c

Garbage == {c \in Cells : cell[c] = "live" /\ ~Rooted(c)}

\* Whether the finalizer of a cell gives its reference back.  That of a function only
\* queues a callback.  Once Python is finalizing those of strings and of proxies leave it
\* alone; _releasePyBuffer, which frees the contents of an ArrayBuffer, does not ask.
GivesBack(c) == is[c] # "function" /\ (finalizing => is[c] \in {"writable", "buffer"})
Finalized(S, o) == {c \in S : target[c] = o /\ GivesBack(c)}

ErasedAtOnce(S) ==                                           \* mutant of finalizeStrings
    externalStrings' = [o \in Objects |->
        IF \E c \in S : is[c] = "external" /\ target[c] = o THEN 0 ELSE externalStrings[o]]
\* PythonExternalString::finalize counts down the entry of the object.
finalizeStrings(S) ==
    externalStrings' = [o \in Objects |->
        externalStrings[o] - Cardinality({c \in S : is[c] = "external" /\ target[c] = o})]

queueFinalizationRegistryCallback(S) == queue' = queue \cup {c \in S : is[c] = "function"}

\* The finalizers of the cells `S`.
finalize(S) ==
    /\ cell' = [c \in Cells |-> IF c \notin S THEN cell[c]
                                ELSE IF is[c] = "function" THEN "queued" ELSE "gone"]
    /\ queueFinalizationRegistryCallback(S)
    /\ SetRefs([o \in Objects |-> refs[o] - Cardinality(Finalized(S, o))])
    /\ IF finalizing THEN UNCHANGED externalStrings ELSE finalizeStrings(S)

\* A major collection: any garbage goes, any buffer moves.
Collect(S, moved) ==
    /\ finalize(S)
    /\ stale' = stale \cup moved
    /\ phase' = "ending"
    /\ UNCHANGED <<held, is, target, bufferOf, jsHeld, proxy, base, jsStringProxies, finalizing>>

\* pythonmonkeyGCCallback: functionRegistryCallback of one function; Python code may
\* run that destroys the function.
functionRegistryCallback(c) ==
    /\ phase = "ending" /\ c \in queue
    /\ queue' = queue \ {c}
    /\ cell' = [cell EXCEPT ![c] = "gone"]
    /\ SetRefs([refs EXCEPT ![target[c]] = @ - 1])
    /\ UNCHANGED <<held, is, target, bufferOf, jsHeld, externalStrings, strVars, phase, finalizing>>

updateCharBufferPointers(moved) ==
    stale' = IF finalizing THEN stale \cup moved ELSE (stale \cup moved) \ jsStringProxies

\* The end of pythonmonkeyGCCallback.
EndCollect ==
    /\ phase = "ending" /\ queue = {}
    /\ updateCharBufferPointers({})
    /\ phase' = "running"
    /\ UNCHANGED <<pyVars, jsVars, externalStrings, queue, proxy, base, jsStringProxies, finalizing>>

\* A minor collection ends with nurseryCollectionCallback.
CollectNursery(moved) ==
    /\ updateCharBufferPointers(moved)
    /\ UNCHANGED <<pyVars, jsVars, externalStrings, queue, proxy, base, jsStringProxies, phase,
                   finalizing>>

Finalize ==
    /\ ~finalizing /\ phase = "running"
    /\ finalizing' = TRUE
    /\ UNCHANGED <<pyVars, jsVars, externalStrings, queue, strVars, phase>>

Next ==
    \/ \E o \in Objects : Drop(o) \/ \E k \in Kinds : NewObject(o, k)
    \/ \E s \in Strings : JSStringProxy_dealloc(s) \/ toJSString(s)
    \/ \E o \in Objects, c \in Cells :
         toExternalString(o, c) \/ toWrapper(o, c) \/ toJsTypedArray(o, c)
    \/ \E o \in Objects, c \in Cells, b \in Cells : toJsBytes(o, c, b)
    \/ \E c \in Cells : Unwrap(c) \/ getBuffer(c) \/ Forget(c) \/ functionRegistryCallback(c)
    \/ \E s \in Strings, c \in Cells \cup {NoCell} : proxifyString(s, c)
    \/ \E S \in SUBSET Garbage, moved \in SUBSET Proxied : Collect(S, moved)
    \/ \E moved \in SUBSET Proxied : CollectNursery(moved)
    \/ EndCollect
    \/ Finalize

Spec == Init /\ [][Next]_vars

-----------------------------------------------------------------------------
(* Properties. *)

\* Types.
TypeOK ==
    /\ kind \in [Objects -> {"none"} \cup Kinds]
    /\ refs \in [Objects -> Nat]
    /\ held \subseteq Objects
    /\ cell \in [Cells -> {"none", "live", "queued", "gone"}]
    /\ is \in [Cells -> {"none", "external", "function", "proxy", "iterable", "writable", "bytes",
                         "buffer"}]
    /\ target \in [Cells -> Objects \cup {NoObject}]
    /\ bufferOf \in [Cells -> Cells \cup {NoCell}]
    /\ jsHeld \subseteq Cells /\ queue \subseteq Cells
    /\ externalStrings \in [Objects -> Nat]
    /\ proxy \in [Strings -> {"none", "live"}]
    /\ base \in [Strings -> Cells \cup {NoCell}]
    /\ jsStringProxies \subseteq Strings /\ stale \subseteq Strings
    /\ phase \in {"running", "ending"} /\ finalizing \in BOOLEAN

Alive(c) == cell[c] \in {"live", "queued"}
Standing(o) == {c \in Cells : Alive(c) /\ target[c] = o}
Leaks(o) == {c \in Cells : is[c] \in {"iterable", "writable"} /\ target[c] = o}

\* An object has one reference from the program and one from each cell that stands
\* for it until its finalizer, or its callback, has run, and is freed with the last.
\* Two conversions leak, exactly one reference each: that of an iterator
\* (jsTypeFactory.cc:296), and that of a writable buffer (BufferType.cc:138).
RefsExact ==
    ~finalizing => \A o \in Objects :
        /\ refs[o] = (IF o \in held THEN 1 ELSE 0) + Cardinality(Standing(o)) + Cardinality(Leaks(o))
        /\ kind[o] = "none" <=> refs[o] = 0

\* As long as an external string can be collected or handed back, its object is found
\* by its characters ("this shouldn't be reachable", jsTypeFactory.cc:63), and no other
\* object is.
StringsFindTheirObject ==
    ~finalizing => \A o \in Objects :
        externalStrings[o] = Cardinality({c \in Standing(o) : is[c] = "external"})

KindOf == [external |-> "str", function |-> "function", proxy |-> "object", iterable |-> "iterator",
           writable |-> "bytearray", bytes |-> "bytes", buffer |-> "bytes"]

\* Also when Python is finalizing: what can be reached in JavaScript stands for an
\* object that is still the one it was made for, and a Python string is backed by a
\* string that has not been finalized, however the two programs let go of things.
NothingDangles ==
    /\ \A c \in Cells : Alive(c) => kind[target[c]] = KindOf[is[c]]
    /\ \A c \in jsHeld : cell[c] = "live"
    /\ \A c \in Cells : cell[c] = "live" /\ is[c] = "bytes" => cell[bufferOf[c]] = "live"

\* Outside the callback at the end of a collection no Python string points to where
\* its characters were, and each of them keeps its string.
PointersFresh ==
    ~finalizing =>
        /\ phase = "running" => stale = {}
        /\ \A s \in Proxied : base[s] # NoCell => cell[base[s]] = "live"
==================================================================================
