------------------------------- MODULE PromiseBridge -------------------------------
(***************************************************************************)
(* Promises that cross into Python as asyncio.Futures, and awaitables that *)
(* cross into JavaScript as Promises: src/src/PromiseType.cc with the      *)
(* Future wrapper of PyEventLoop and the rejection tracker of JobQueue.    *)
(* Either side may settle its end, Python may cancel, and what has crossed *)
(* once may cross back.  A Future lives by its reference count, and one    *)
(* that dies with an exception nobody has looked at reports it to the      *)
(* exception handler of the loop: that is how an unhandled rejection is    *)
(* reported.  (The job counter is the business of PyEventLoop.)            *)
(***************************************************************************)
EXTENDS Integers, FiniteSets

CONSTANTS Promises, Futures, NoPromise, NoFuture

ASSUME BridgeAssumption ==
    /\ IsFiniteSet(Promises) /\ IsFiniteSet(Futures)
    /\ NoPromise \notin Promises /\ NoFuture \notin Futures

VARIABLES
    promise,    \* state of each Promise
    caught,     \* Promises the program has given a reaction
    muted,      \* Promises rejected by a script with mutedErrors
    rooted,     \* Promises that a PersistentRooted keeps
    future,     \* state of each Future
    refs,       \* reference count of each Future; it is freed at 0
    held,       \* Futures the Python program has a reference to
    retrieved,  \* Futures whose exception somebody has looked at
    source,     \* the Promise that settles a Future
    reaction,   \* the onResolved callback on that Promise
    outletOf,   \* the Future that settles a Promise
    doneCb,     \* futureOnDoneCallback on that Future
    handler,    \* the exception handler of the loop
    reported,   \* history: Promises whose rejection has reached the handler
    late        \* history: Futures that refused to be settled

jsVars == <<promise, caught, muted, rooted, outletOf, doneCb>>
pyVars == <<future, refs, held, retrieved, source, reaction>>
vars == <<jsVars, pyVars, handler, reported, late>>

Init ==
    /\ promise = [p \in Promises |-> "none"]
    /\ caught = {} /\ muted = {} /\ rooted = {}
    /\ outletOf = [p \in Promises |-> NoFuture]
    /\ doneCb = [p \in Promises |-> "none"]
    /\ future = [f \in Futures |-> "none"]
    /\ refs = [f \in Futures |-> 0]
    /\ held = {} /\ retrieved = {}
    /\ source = [f \in Futures |-> NoPromise]
    /\ reaction = [f \in Futures |-> "none"]
    /\ handler = "default"
    /\ reported = {} /\ late = {}

Settled == {"fulfilled", "rejected"}
Done == {"result", "exception", "cancelled"}
NewPromises == {p \in Promises : promise[p] = "none"}
NewFutures == {f \in Futures : future[f] = "none"}

\* [[PromiseIsHandled]]: any reaction will do, and a Future hangs on one.
Handled(p) == p \in caught \/ \E f \in Futures : source[f] = p

\* Future.__del__: what the handler hears of when the Futures `fs` are freed.
Del(fs) == {source[f] : f \in {g \in fs : future[g] = "exception" /\ g \notin retrieved}} \ {NoPromise}

\* The callbacks of a Future that is done are put in the ready queue.
ScheduleCallbacks(f) ==
    doneCb' = [p \in Promises |-> IF outletOf[p] = f /\ doneCb[p] = "waiting"
                                  THEN "queued" ELSE doneCb[p]]

-----------------------------------------------------------------------------
(* From a Promise to a Future. *)

\* create_future(), one reference for the slot of onResolved, one to return, and
\* ~Future.
NewFutureRefs == 1 + 1 + 1 - 1

\* The Promise reaches Python.
getPyObject(p, f) ==
    /\ promise[p] \in Settled \cup {"pending"}
    /\ f \in NewFutures
    /\ future' = [future EXCEPT ![f] = "pending"]
    /\ refs' = [refs EXCEPT ![f] = NewFutureRefs]
    /\ held' = held \cup {f}
    /\ source' = [source EXCEPT ![f] = p]
    /\ reaction' = [reaction EXCEPT ![f] = IF promise[p] = "pending" THEN "attached" ELSE "queued"]
    /\ UNCHANGED <<jsVars, retrieved, handler, reported, late>>

TrackerOfDefault(p, how, mutedErrors) ==                     \* mutant of Tracker
    IF how = "rejected" /\ ~Handled(p) /\ ~mutedErrors /\ handler = "default"
    THEN {{f} : f \in NewFutures} ELSE {{}}

\* promiseRejectionTracker is told of the rejection of `p`: the Futures it makes.
Tracker(p, how, mutedErrors) ==
    IF how = "rejected" /\ ~Handled(p) /\ ~mutedErrors THEN {{f} : f \in NewFutures} ELSE {{}}

\* `p` is settled, the tracker makes `new`, and `drop` lose a reference.  The
\* tracker keeps no reference of its own.
Settle(p, how, new, drop) ==
    /\ promise' = [promise EXCEPT ![p] = how]
    /\ future' = [f \in Futures |-> IF f \in new THEN "pending" ELSE future[f]]
    /\ refs' = [f \in Futures |-> IF f \in new THEN NewFutureRefs - 1
                                  ELSE IF f \in drop THEN refs[f] - 1 ELSE refs[f]]
    /\ source' = [f \in Futures |-> IF f \in new THEN p ELSE source[f]]
    /\ reaction' = [f \in Futures |-> IF f \in new \/ (source[f] = p /\ reaction[f] = "attached")
                                      THEN "queued" ELSE reaction[f]]
    /\ handler' = IF new # {} /\ handler = "default" THEN "simple" ELSE handler

Outcome(p) == IF promise[p] = "fulfilled" THEN "result" ELSE "exception"

\* A Future that is done already refuses: InvalidStateError.
SetOutcome(f) ==
    IF future[f] = "pending"
    THEN /\ future' = [future EXCEPT ![f] = Outcome(source[f])]
         /\ ScheduleCallbacks(f)
         /\ UNCHANGED late
    ELSE /\ late' = late \cup {f}
         /\ UNCHANGED <<future, doneCb>>

\* The job of the reaction: the Future is settled, and ~Future drops the
\* reference of the slot.
onResolvedCb(f) ==
    /\ reaction[f] = "queued"
    /\ SetOutcome(f)
    /\ refs' = [refs EXCEPT ![f] = @ - 1]
    /\ reported' = IF refs[f] = 1 /\ future[f] = "pending" /\ promise[source[f]] = "rejected"
                   THEN reported \cup {source[f]} ELSE reported
    /\ reaction' = [reaction EXCEPT ![f] = "ran"]
    /\ UNCHANGED <<promise, caught, muted, rooted, outletOf, held, retrieved, source, handler>>

-----------------------------------------------------------------------------
(* From an awaitable to a Promise. *)

ForgottenReference == -1 + 1 + 1 - 1                         \* mutant of SameFutureRefs

\* The tuple of arguments takes the caller's reference to `f` away with it; then
\* the result of ensure_future(), Py_INCREF, ~Future, and Py_INCREF again.
SameFutureRefs == -1 + 1 + 1 - 1 + 1
\* A coroutine becomes a new Task: the result, Py_INCREF, ~Future.
NewTaskRefs == 1 + 1 - 1

\* The Future `f` reaches JavaScript, as the new Promise `p`.
toJsPromise(f, p) ==
    /\ f \in held /\ p \in NewPromises
    /\ promise' = [promise EXCEPT ![p] = "pending"]
    /\ refs' = [refs EXCEPT ![f] = @ + SameFutureRefs]
    /\ rooted' = rooted \cup {p}
    /\ outletOf' = [outletOf EXCEPT ![p] = f]
    /\ doneCb' = [doneCb EXCEPT ![p] = IF future[f] = "pending" THEN "waiting" ELSE "queued"]
    /\ UNCHANGED <<caught, muted, future, held, retrieved, source, reaction, handler, reported, late>>

\* The same of a coroutine.
toJsPromiseOfCoroutine(f, p) ==
    /\ f \in NewFutures /\ p \in NewPromises
    /\ promise' = [promise EXCEPT ![p] = "pending"]
    /\ future' = [future EXCEPT ![f] = "pending"]
    /\ refs' = [refs EXCEPT ![f] = NewTaskRefs]
    /\ rooted' = rooted \cup {p}
    /\ outletOf' = [outletOf EXCEPT ![p] = f]
    /\ doneCb' = [doneCb EXCEPT ![p] = "waiting"]
    /\ UNCHANGED <<caught, muted, held, retrieved, source, reaction, handler, reported, late>>

ResolvedWhenCancelled(f) ==                                  \* mutant of Verdict
    IF future[f] = "exception" THEN "rejected" ELSE "fulfilled"

\* A cancelled Future raises CancelledError when it is asked for its exception.
Verdict(f) == IF future[f] = "result" THEN "fulfilled" ELSE "rejected"

\* The Promise is settled and no longer rooted; ~Future drops the reference that
\* toJsPromise has left.
futureOnDoneCallback(p) ==
    /\ doneCb[p] = "queued"
    /\ LET f == outletOf[p]
       IN  /\ \E new \in Tracker(p, Verdict(f), FALSE) : Settle(p, Verdict(f), new, {f})
           /\ retrieved' = retrieved \cup {f}
    /\ doneCb' = [doneCb EXCEPT ![p] = "ran"]
    /\ rooted' = rooted \ {p}
    /\ UNCHANGED <<caught, muted, outletOf, held, reported, late>>

-----------------------------------------------------------------------------
(* The two programs. *)

NewPromise(p) ==
    /\ p \in NewPromises
    /\ promise' = [promise EXCEPT ![p] = "pending"]
    /\ UNCHANGED <<caught, muted, rooted, outletOf, doneCb, pyVars, handler, reported, late>>

Own(p) == promise[p] = "pending" /\ outletOf[p] = NoFuture

SettleOwn(p, how, mutedErrors) ==
    /\ Own(p)
    /\ \E new \in Tracker(p, how, mutedErrors) : Settle(p, how, new, {})
    /\ muted' = IF mutedErrors THEN muted \cup {p} ELSE muted
    /\ UNCHANGED <<caught, rooted, outletOf, doneCb, held, retrieved, reported, late>>

\* then() or catch().
Catch(p) ==
    /\ promise[p] # "none" /\ p \notin caught
    /\ caught' = caught \cup {p}
    /\ UNCHANGED <<promise, muted, rooted, outletOf, doneCb, pyVars, handler, reported, late>>

\* asyncio calls back who waits for a Future that is done.
Complete(f, how) ==
    /\ future[f] = "pending" /\ refs[f] > 0
    /\ future' = [future EXCEPT ![f] = how]
    /\ ScheduleCallbacks(f)
    /\ UNCHANGED <<promise, caught, muted, rooted, outletOf, refs, held, retrieved, source, reaction,
                   handler, reported, late>>

\* A Future of the program's own.
CreateFuture(f) ==
    /\ f \in NewFutures
    /\ future' = [future EXCEPT ![f] = "pending"]
    /\ refs' = [refs EXCEPT ![f] = 1]
    /\ held' = held \cup {f}
    /\ UNCHANGED <<jsVars, retrieved, source, reaction, handler, reported, late>>

\* A Future or Task that Python settles; a Task runs without being held.
Finish(f, how) == source[f] = NoPromise /\ Complete(f, how)

\* f.cancel(), by a program that waits no longer.
Cancel(f) == f \in held /\ Complete(f, "cancelled")

\* await f
Retrieve(f) ==
    /\ f \in held /\ future[f] = "exception" /\ f \notin retrieved
    /\ retrieved' = retrieved \cup {f}
    /\ UNCHANGED <<jsVars, future, refs, held, source, reaction, handler, reported, late>>

Release(f) ==
    /\ f \in held
    /\ held' = held \ {f}
    /\ refs' = [refs EXCEPT ![f] = @ - 1]
    /\ reported' = IF refs[f] = 1 THEN reported \cup Del({f}) ELSE reported
    /\ UNCHANGED <<jsVars, future, retrieved, source, reaction, handler, late>>

SetExceptionHandler(h) ==
    /\ handler # h
    /\ handler' = h
    /\ UNCHANGED <<jsVars, pyVars, reported, late>>

Next ==
    \/ \E p \in Promises, f \in Futures :
         getPyObject(p, f) \/ toJsPromise(f, p) \/ toJsPromiseOfCoroutine(f, p)
    \/ \E f \in Futures : onResolvedCb(f)
    \/ \E p \in Promises : futureOnDoneCallback(p)
    \/ \E p \in Promises : NewPromise(p) \/ Catch(p)
    \/ \E p \in Promises, how \in Settled, mutedErrors \in BOOLEAN : SettleOwn(p, how, mutedErrors)
    \/ \E f \in Futures : CreateFuture(f) \/ Cancel(f) \/ Retrieve(f) \/ Release(f)
    \/ \E f \in Futures, how \in Done : Finish(f, how)
    \/ \E h \in {"default", "own"} : SetExceptionHandler(h)

Spec == Init /\ [][Next]_vars

-----------------------------------------------------------------------------
(* Properties. *)

\* Types.
TypeOK ==
    /\ promise \in [Promises -> {"none", "pending"} \cup Settled]
    /\ caught \subseteq Promises /\ muted \subseteq Promises /\ rooted \subseteq Promises
    /\ outletOf \in [Promises -> Futures \cup {NoFuture}]
    /\ doneCb \in [Promises -> {"none", "waiting", "queued", "ran"}]
    /\ future \in [Futures -> {"none", "pending"} \cup Done]
    /\ refs \in [Futures -> Nat]
    /\ held \subseteq Futures /\ retrieved \subseteq Futures /\ late \subseteq Futures
    /\ source \in [Futures -> Promises \cup {NoPromise}]
    /\ reaction \in [Futures -> {"none", "attached", "queued", "ran"}]
    /\ handler \in {"default", "simple", "own"}
    /\ reported \subseteq Promises

Awaited(p) == doneCb[p] \in {"waiting", "queued"}
Outlets(f) == {p \in Promises : outletOf[p] = f /\ Awaited(p)}
Slot(f) == IF reaction[f] \in {"attached", "queued"} THEN 1 ELSE 0

\* What the comments of PromiseType.cc count: a Future has one reference for the
\* program, one for a callback that has yet to settle it, and one for each Promise
\* it has yet to settle, and those Promises are rooted; when all are done it is freed.
RefsExact ==
    /\ \A f \in Futures :
         refs[f] = (IF f \in held THEN 1 ELSE 0) + Slot(f) + Cardinality(Outlets(f))
    /\ rooted = {p \in Promises : Awaited(p)}

Quiescent == /\ \A f \in Futures : reaction[f] # "queued"
             /\ \A p \in Promises : doneCb[p] # "queued"

\* An outcome crosses as it is, there and back, whoever cancels in between; only
\* what Python has cancelled is refused; and nothing settled is left behind.
OutcomesCross ==
    /\ \A f \in Futures : source[f] # NoPromise /\ future[f] \in {"result", "exception"} =>
         promise[source[f]] \in Settled /\ future[f] = Outcome(source[f])
    /\ \A p \in Promises : outletOf[p] # NoFuture /\ promise[p] \in Settled =>
         promise[p] = (IF future[outletOf[p]] = "result" THEN "fulfilled" ELSE "rejected")
    /\ \A f \in late : future[f] = "cancelled"
    /\ Quiescent =>
         /\ \A f \in Futures : source[f] # NoPromise /\ promise[source[f]] \in Settled =>
              future[f] \in Done
         /\ \A p \in Promises : outletOf[p] # NoFuture /\ future[outletOf[p]] \in Done =>
              promise[p] \in Settled

\* Somebody has seen the rejection of `p`, may see it, or has refused to.
Attended(p) ==
    \/ p \in caught \/ p \in muted
    \/ \E f \in Futures : source[f] = p /\ (f \in retrieved \/ f \in held \/ future[f] = "cancelled")

\* No rejection is lost: if nothing in JavaScript or Python has looked at it or
\* still can, it has been reported.
NoRejectionIsLost ==
    Quiescent => \A p \in Promises : promise[p] = "rejected" => Attended(p) \/ p \in reported

==================================================================================
