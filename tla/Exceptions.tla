-------------------------------- MODULE Exceptions --------------------------------
(***************************************************************************)
(* Exceptions on a call stack of both languages.  Each side has an error   *)
(* indicator of its own: the one of the Python thread and the pending      *)
(* exception of the JSContext.  Where a frame of one language returns to a *)
(* frame of the other, the code carries an exception over, leaves it, or   *)
(* gives up on it: setSpiderMonkeyException.cc, ExceptionType.cc,          *)
(* jsTypeFactory.cc (callPyFunc), JSFunctionProxy.cc, JSMethodProxy.cc,    *)
(* PyIterableProxyHandler.cc, JSObjectProxy.cc, pythonmonkey.cc (eval).    *)
(*                                                                         *)
(* An exception is known by the number of the throw or raise it comes from *)
(* and by what it is now.                                                  *)
(***************************************************************************)
EXTENDS Integers, Sequences

CONSTANTS MaxRaised,  \* bound: exceptions in a behaviour
          MaxDepth    \* bound: frames on the stack

ASSUME ExceptionsAssumption == MaxRaised \in Nat /\ MaxDepth \in Nat \ {0}

Throws == 1..MaxRaised

\* What the programs raise and throw; "SystemError" is CPython's own, and
\* "Unconvertible" the TypeError or OverflowError of a type factory.
PyKinds == {"Exception", "SystemExit", "StopIteration"}
JSKinds == {"object", "primitive", "null"}    \* undefined is like null
Kinds == PyKinds \cup JSKinds \cup {"SystemError", "Unconvertible"}

\* In JavaScript: the value thrown, its wrapper object, or an Error that toJsError made.
JSForms == {"thrown", "boxed", "error"}
\* In Python: an exception of Python or a bare SpiderMonkeyError; else a SpiderMonkeyError
\* whose jsError holds such a value, or a proxy of no object.
PyForms == {"own", "null"} \cup JSForms

Exn(id, form) == [id |-> id, form |-> form]
Nothing == Exn(0, "nothing")
\* "Spidermonkey failed, but ... did not set an exception", and the Error made of that.
Bare == Exn(0, "own")
BareError == Exn(0, "error")

Frame(lang, via) == [lang |-> lang, via |-> via]
Frames == {Frame("py", via) : via \in {"main", "function", "iterator"}}
          \cup {Frame("js", via) : via \in {"eval", "call", "getter"}}

VARIABLES
    stack,      \* the activations of Python and of JavaScript, outermost first
    failing,    \* the innermost one returns with a failure
    pyErr,      \* the error indicator of Python
    jsExn,      \* the pending exception of the JSContext
    raised,     \* how many throws and raises there were
    kinds,      \* of what kind each was
    fate,       \* what became of it
    abandoned   \* a getter's failure or the indicator was ignored, or a JS exception
                \* left in the JSContext

vars == <<stack, failing, pyErr, jsExn, raised, kinds, fate, abandoned>>
history == <<raised, kinds, fate>>

Init ==
    /\ stack = <<Frame("py", "main")>> /\ failing = FALSE
    /\ pyErr = Nothing /\ jsExn = Nothing
    /\ raised = 0
    /\ kinds = [i \in Throws |-> "none"] /\ fate = [i \in Throws |-> "none"]
    /\ abandoned = FALSE

Top == stack[Len(stack)]
Calls(frame) ==
    /\ Len(stack) < MaxDepth
    /\ stack' = Append(stack, frame)
Returns ==
    /\ Len(stack) > 1
    /\ stack' = SubSeq(stack, 1, Len(stack) - 1)

PyRuns == Top.lang = "py" /\ ~failing
PyFails == Top.lang = "py" /\ failing
JSRuns == Top.lang = "js" /\ ~failing
JSFails == Top.lang = "js" /\ failing

Kind(e) == IF e.id = 0 THEN "none" ELSE kinds[e.id]
Became(e, what) == [i \in Throws |-> IF i = e.id THEN what ELSE fate[i]]

\* A new exception, over one that may be pending.
New(kind, over, what) ==
    /\ raised < MaxRaised
    /\ raised' = raised + 1
    /\ kinds' = [kinds EXCEPT ![raised + 1] = kind]
    /\ fate' = [Became(over, what) EXCEPT ![raised + 1] = "open"]

PyErr_Set(kind) ==
    /\ New(kind, pyErr, "overlaid")
    /\ pyErr' = Exn(raised + 1, "own")

-----------------------------------------------------------------------------
(* What crosses. *)

\* The jsError of a SpiderMonkeyError: JS_ValueToObject of what was thrown.
DictType_getPyObject(e) ==
    Exn(e.id, CASE Kind(e) = "null" /\ e.form = "thrown" -> "null"
                [] Kind(e) = "primitive" /\ e.form = "thrown" -> "boxed"
                [] OTHER -> e.form)

ConvertedAlways(e) == Exn(e.id, "error")                      \* mutant of toJsError
toJsError(e) ==
    CASE e.form = "null" -> Nothing
      [] e.form = "own" -> Exn(e.id, "error")
      [] OTHER -> e

OverwritesPyErr ==                            \* mutant of setSpiderMonkeyException
    /\ pyErr' = IF jsExn = Nothing THEN Bare ELSE DictType_getPyObject(jsExn)
    /\ jsExn' = Nothing
    /\ UNCHANGED abandoned
\* A Python exception that is already set stays, and the JS one stays with it.
setSpiderMonkeyException ==
    IF pyErr # Nothing
    THEN /\ abandoned' = (abandoned \/ jsExn # Nothing)
         /\ UNCHANGED <<pyErr, jsExn>>
    ELSE /\ pyErr' = IF jsExn = Nothing THEN Bare ELSE DictType_getPyObject(jsExn)
         /\ jsExn' = Nothing
         /\ UNCHANGED abandoned

CatchesExit(e) == FALSE                                       \* mutant of IsSystemExit
IsSystemExit(e) == e.form = "own" /\ Kind(e) = "SystemExit"

\* From Python's error indicator to the JSContext; TRUE in the code.  Without an
\* object to throw, what was pending stays.
setPyException ==
    LET e == toJsError(pyErr)
    IN  /\ pyErr' = Nothing
        /\ jsExn' = IF e = Nothing THEN jsExn ELSE e
        /\ fate' = IF e = Nothing THEN fate ELSE Became(jsExn, "overlaid")

-----------------------------------------------------------------------------
(* A Python frame. *)

Raise(kind) ==
    /\ PyRuns
    /\ PyErr_Set(kind)
    /\ failing' = TRUE
    /\ UNCHANGED <<stack, jsExn, abandoned>>

\* Python code does not expect the indicator to be set when it runs.  What returns a
\* value is made to fail with a SystemError ("returned a result with an exception
\* set"), be it a call the frame makes or the frame itself; what tests the indicator
\* fails with what it finds.
_Py_CheckFunctionResult ==
    /\ PyRuns /\ pyErr # Nothing
    /\ New("SystemError", pyErr, "chained")
    /\ pyErr' = Exn(raised + 1, "own")
    /\ failing' = TRUE
    /\ UNCHANGED <<stack, jsExn, abandoned>>

Surface ==
    /\ PyRuns /\ pyErr # Nothing
    /\ failing' = TRUE
    /\ UNCHANGED <<stack, pyErr, jsExn, history, abandoned>>

Except ==
    /\ PyFails
    /\ failing' = FALSE
    /\ pyErr' = Nothing
    /\ fate' = Became(pyErr, "caught")
    /\ UNCHANGED <<stack, jsExn, raised, kinds, abandoned>>

\* eval, a call of a JSFunctionProxy or JSMethodProxy, an attribute of a JSObjectProxy.
Enter(via) ==
    /\ PyRuns
    /\ Calls(Frame("js", via))
    /\ UNCHANGED <<failing, pyErr, jsExn, history, abandoned>>

\* callPyFunc goes on to its result, iter_next to the item.
PyReturn ==
    /\ PyRuns
    /\ Top.via = "function" => pyErr = Nothing
    /\ Returns
    /\ \/ UNCHANGED <<pyErr, history>>
       \/ PyErr_Set("Unconvertible")           \* the indicator is not looked at again
    /\ UNCHANGED <<failing, jsExn, abandoned>>

callPyFuncFails ==
    /\ PyFails /\ Top.via = "function"
    /\ Returns
    /\ IF IsSystemExit(pyErr)
       THEN failing' = FALSE /\ UNCHANGED <<pyErr, jsExn, fate>>
       ELSE failing' = TRUE /\ setPyException
    /\ UNCHANGED <<raised, kinds, abandoned>>

Ends == Kind(pyErr) \in {"StopIteration", "SystemError"} /\ pyErr.form = "own"
iter_nextFails ==
    /\ PyFails /\ Top.via = "iterator"
    /\ Returns
    /\ IF Ends THEN /\ failing' = FALSE
                    /\ pyErr' = Nothing
                    /\ fate' = Became(pyErr, "ended")
               ELSE UNCHANGED <<failing, pyErr, fate>>
    /\ UNCHANGED <<jsExn, raised, kinds, abandoned>>

-----------------------------------------------------------------------------
(* A JavaScript frame: all the functions of one activation. *)

Throw(kind) ==
    /\ JSRuns
    /\ New(kind, jsExn, "overlaid")
    /\ jsExn' = Exn(raised + 1, "thrown")
    /\ failing' = TRUE
    /\ UNCHANGED <<stack, pyErr, abandoned>>

\* A failure without a pending exception cannot be caught.
Catch ==
    /\ JSFails /\ jsExn # Nothing
    /\ failing' = FALSE
    /\ jsExn' = Nothing
    /\ fate' = Became(jsExn, "caught")
    /\ UNCHANGED <<stack, pyErr, raised, kinds, abandoned>>

callPyFunc ==
    /\ JSRuns
    /\ \/ /\ Calls(Frame("py", "function"))
          /\ UNCHANGED <<failing, pyErr, history>>
       \/ /\ PyErr_Set("Unconvertible")        \* an argument
          /\ failing' = TRUE
          /\ UNCHANGED stack
    /\ UNCHANGED <<jsExn, abandoned>>

iter_next ==
    /\ JSRuns
    /\ Calls(Frame("py", "iterator"))
    /\ UNCHANGED <<failing, pyErr, jsExn, history, abandoned>>

\* No timer is set once the program is about to exit.
enqueueWithDelay ==
    /\ JSRuns /\ IsSystemExit(pyErr)
    /\ failing' = TRUE
    /\ UNCHANGED <<stack, pyErr, jsExn, history, abandoned>>

ResultUnchecked(via) == TRUE                                  \* mutant of Succeeds
\* What the caller makes of a JS frame that has not failed: the indicator may be set.
Succeeds(via) == via = "getter" \/ pyErr = Nothing

JSReturn ==
    /\ JSRuns
    /\ Returns
    /\ abandoned' = (abandoned \/ (Top.via = "getter" /\ pyErr # Nothing))
    /\ \/ failing' = ~Succeeds(Top.via) /\ UNCHANGED <<pyErr, history>>
       \/ /\ Top.via = "call" => Succeeds(Top.via)      \* eval converts before it looks
          /\ PyErr_Set("Unconvertible")
          /\ failing' = TRUE
    /\ UNCHANGED jsExn

EntryFails ==
    /\ JSFails /\ Top.via # "getter"
    /\ Returns
    /\ setSpiderMonkeyException
    /\ UNCHANGED <<failing, history>>

\* The result of JS_GetPropertyById is not looked at: the attribute is None.
getKeyFails ==
    /\ JSFails /\ Top.via = "getter"
    /\ Returns
    /\ failing' = FALSE
    /\ abandoned' = TRUE
    /\ UNCHANGED <<pyErr, jsExn, history>>

-----------------------------------------------------------------------------
Next == \/ \E kind \in PyKinds : Raise(kind)
        \/ _Py_CheckFunctionResult \/ Surface \/ Except
        \/ \E via \in {"eval", "call", "getter"} : Enter(via)
        \/ PyReturn \/ callPyFuncFails \/ iter_nextFails
        \/ \E kind \in JSKinds : Throw(kind)
        \/ Catch \/ callPyFunc \/ iter_next \/ enqueueWithDelay
        \/ JSReturn \/ EntryFails \/ getKeyFails

Spec == Init /\ [][Next]_vars

-----------------------------------------------------------------------------
(* Properties. *)

\* Both indicators hold an exception of their own language, a Python failure always has
\* its exception, and what has not been raised has no kind and no fate.
TypeOK ==
    /\ stack \in Seq(Frames) /\ Len(stack) > 0
    /\ failing \in BOOLEAN /\ abandoned \in BOOLEAN
    /\ pyErr \in [id : Throws, form : PyForms] \cup {Nothing, Bare, BareError}
    /\ jsExn \in [id : Throws, form : JSForms] \cup {Nothing, BareError}
    /\ raised \in 0..MaxRaised
    /\ kinds \in [Throws -> Kinds \cup {"none"}]
    /\ fate \in [Throws -> {"none", "open", "overlaid", "chained", "caught", "ended"}]
    /\ \A i \in Throws : i > raised => kinds[i] = "none" /\ fate[i] = "none"
    /\ PyFails => pyErr # Nothing

InFlight == {pyErr.id, jsExn.id} \ {0}
Open == {i \in Throws : fate[i] = "open"}
BareHeld == pyErr \in {Bare, BareError} \/ jsExn = BareError

\* An exception that nobody caught, that no later one replaced, and that no iterator
\* took for its end is in one of the two indicators, whatever frames it has crossed,
\* and it is in no indicator after that.  The exception to it is a thrown null, and only
\* when one has been through Python is there a failure without an exception.
NothingIsLost ==
    /\ {i \in Open : kinds[i] # "null"} \subseteq InFlight
    /\ InFlight \subseteq Open
    /\ BareHeld => \E i \in Throws : kinds[i] = "null"

\* Until an exception has been abandoned: SystemExit is left pending while JavaScript
\* runs on ("We definitely don't want to catch it in JS"), and so is the error of a value
\* that cannot be converted; nothing else is, nor is anything else overlaid or chained;
\* and it is raised before the Python program goes on.
LeftPending == {"SystemExit", "Unconvertible"}
PendingOnlyByExit ==
    ~abandoned =>
        /\ ~failing => jsExn = Nothing /\ (pyErr # Nothing => Kind(pyErr) \in LeftPending)
        /\ Len(stack) = 1 /\ ~failing => pyErr = Nothing
        /\ \A i \in 1..raised :
               fate[i] \in {"overlaid", "chained"} => kinds[i] \in LeftPending

\* What is caught is the latest that is pending, unless one was abandoned.  A handler in
\* JavaScript gets the very object that JavaScript threw, and never gets SystemExit; one
\* in Python gets a SpiderMonkeyError that has the object ("lossless back conversion").
Handles == failing /\ ~failing' /\ stack' = stack
Caught == IF Top.lang = "js" THEN jsExn ELSE pyErr
CaughtAsThrown ==
    [][Handles =>
          /\ Kind(Caught) = "object" => Caught.form = "thrown"
          /\ Top.lang = "js" => Kind(Caught) # "SystemExit"
          /\ ~abandoned => \A i \in InFlight : i <= Caught.id]_vars
===================================================================================
