# PythonMonkey: specifications and proofs

PythonMonkey puts the SpiderMonkey JavaScript engine into a Python process.
JavaScript and Python values reach each other through proxies and conversions,
and everything asynchronous in JavaScript (timers, Promise jobs, XMLHttpRequest)
runs as callbacks of the Python asyncio loop of the main thread.  This directory
holds TLA+ models of that program, the TLC runs that check them, and theorems
about them that TLAPS proves.  Every definition is translated from the code in
the repository; `PROJECT.json` ("map") names the lines each one models.

## Inventory

| Part | State | Operations | Hard parts |
| --- | --- | --- | --- |
| Job counter and shield: `PyEventLoop::Lock`, `pm.wait()`, `pm.stop()` | `_counter`, the `asyncio.Event` `_queueIsEmpty` | `incCounter`, `decCounter`, `wait`, `stop` | pairing of increments and decrements over all kinds of work; loops that close over pending work |
| Timers: `timers.js`, `internalBinding/timers.cc`, `PyEventLoop.cc` | `_timeoutIdMap`, per timer its `asyncio.TimerHandle` and `_refed` | `setTimeout`, `setInterval`, `setImmediate`, `clearTimeout`, `ref`, `unref`, the wrapper `timerJobWrapper` | cancelling what is already in the ready queue; an interval cleared by its own function |
| Job queue: `JobQueue.cc` | asyncio's ready queue; the thread of each off-thread job; FinalizationRegistry callbacks | `enqueuePromiseJob`, `dispatchToEventLoop`, `sendJobToMainLoop`, `promiseRejectionTracker` | threads that share the counter and the Event; a loop that is gone |
| Promise and Future coercion: `PromiseType.cc` | the Future of a Promise and the rooted Promise of a Future, with their references | `getPyObject`, `onResolvedCb`, `toJsPromise`, `futureOnDoneCallback` | cancellation against settlement; references over every path |
| XMLHttpRequest: `XMLHttpRequest.js`, `XMLHttpRequest-internal.py`, `event-target.js` | ready state, send flag, upload flags, response, received bytes | `open`, `send`, `abort`, the callbacks of the aiohttp coroutine | listeners that call back into the object; answers of an earlier request |
| Lists as arrays: `PyListProxyHandler.cc` | the Python list | the `Array.prototype` methods, index and length traps, iterators | callbacks that change the list; references; index arithmetic |
| Arrays as lists: `JSArrayProxy.cc`, `JSArrayIterProxy.cc` | the JS array | the `list` methods, slices, comparison, iteration | slice arithmetic; mutation during iteration |
| Objects as dicts: `JSObjectProxy.cc`, keys, values, items and iterators | the JS object | the `dict` methods, views, set operations | snapshots against live lengths |
| Dicts, objects, bytes, iterables as JS objects | the Python object | property traps, the iterator protocol | errors inside traps |
| Strings: `StrType.cc`, `JSStringProxy.cc`, `jsTypeFactory.cc` | shared character buffers, the map of external strings | conversion both ways, updates after a collection | surrogates; moving collectors |
| Functions and finalization: `JSFunctionProxy.cc`, `JSMethodProxy.cc`, the function registry of `pythonmonkey.cc` | references across two heaps | call, register, finalize | two collectors that do not know of each other |
| Exceptions: `setSpiderMonkeyException.cc`, `ExceptionType.cc`, `setPyException` of `jsTypeFactory.cc` | the error indicator of the Python thread, the pending exception of the `JSContext` | raise, throw, catch, and the return of a failure into the other language | two indicators that must agree at every return; what is left pending while code runs on |
| Numbers, dates, buffers | none | conversion | boundaries of integer widths |
| Modules, command line, debugger, console, util, url | module cache | `require`, `pmjs` | mostly input, output and formatting |

How they interact: JS calls into timers, the job queue and the Promise coercion;
each of them puts a callback in asyncio's loop and moves the one job counter;
`pm.wait()` reads the counter through the Event.  XMLHttpRequest is a JS object
over a Python coroutine that is coerced to a Promise, so it uses all three.  The
proxies are called synchronously from either side, and hold the other heap's
objects alive through rooted values, reference counts and finalizers.

What makes each part correct: the counter counts exactly the work that is
outstanding, and a waiter is released when the last of it ends and not before; a
cleared timer does not run; every request ends with exactly one `loadend`; a
method over a foreign container does what its own language says it does, even if
the container changes under it; a value survives as long as either heap can
reach it and no longer; an exception reaches the handler it is meant for,
through whatever calls, as the object that was thrown. `PROJECT.json`
("hazards") lists what can go wrong at its line, with the property that watches
it or the reason why none does.

## Modules

The asynchronous half:

* `EventLoopShield` is the abstract specification of `pm.wait()`: obligations
  start and end, a caller that finds some parks, and only the step that
  discharges all of them releases it.  It knows nothing of counters or handles.
* `PyEventLoop` is the main thread: the calls on timers, `pm.stop()`, the
  callbacks of timers, Promise jobs and awaitables, `pm.wait()`, and a loop that
  may close and be followed by another.  `PyEventLoop_proofs` has its theorems.
* `JobQueue` looks at the same counter and Event one level down, where a helper
  thread and the main thread interleave at the GIL.  `PromiseBridge_proofs`.
* `PromiseBridge` is what `PyEventLoop` sees of an awaitable only as a unit of
  work: Promises that become Futures and awaitables that become Promises, with
  outcomes, cancellation, references and unhandled rejections.
  `PromiseBridge_proofs`.
* `XMLHttpRequest` is one request object, the coroutines it starts, and a program
  whose listeners call the object again.  `XMLHttpRequest_proofs`.

The values that cross:

* `Lifetimes` is two heaps: Python objects and the cells that stand for them in
  JavaScript, Python strings over JavaScript buffers, two collectors, finalizers,
  and a Python that is shutting down.  `Lifetimes_proofs`.
* `Conversions` is strings, integers and function arguments on their way between
  the languages, any number of times.  `Values_proofs`.

The calls that return with a failure:

* `Exceptions` is one stack of calls of both languages and their two error
  indicators.  `Exceptions_proofs` has its theorems.

The containers, each as operators (one per method, translated from the loop in
the code), a standard that says without loops what the language promises, and a
state machine in which the container changes while it is in use:

* `ListMethods`, `ArrayStandard`, `ListProxy`: a Python list as a JS array.
  `ListProxy_proofs` has its theorems, over lists of any length.
* `ArrayMethods`, `ListStandard`, `ArrayIter`, `ArrayProxy`: a JS array as a
  Python list.  `ArrayIter` is the iterator alone, over any array;
  `Values_proofs` has its theorems, `ArrayProxy_proofs` that of the operations.
* `ObjectMethods`, `DictStandard`, `ObjectIter`, `ObjectProxy`: a JS object as a
  Python dict, with its views.  `Values_proofs`.

The `MC...` modules and the configurations give the bounds.

### PyEventLoop and the code

| State | Code |
| --- | --- |
| `counter`, `flag` | `Lock::_counter`; the value of `Lock::_queueIsEmpty` |
| `waiter` | the tasks inside `await pm.wait()`: parked in `Event.wait()`, woken by `set()`, resumed |
| `refed` | `AsyncHandle::_refed` |
| `place`, `cancelled` | the `TimerHandle`: in `loop._scheduled`, in `loop._ready`, called, done; `_cancelled` |
| `job` | a job given to `enqueuePromiseJob`, wrapped by `eventLoopJobWrapper` |
| `awaiting` | an awaitable between `toJsPromise` and `futureOnDoneCallback` |
| `loop` | whether `getRunningLoop` finds a loop on the main thread |

`LockStep(dec, inc)` is a run of `decCounter` calls followed by a run of
`incCounter` calls in one stretch of code; every action that touches the counter
uses it.  A callback of the loop is two actions, the start of its function and
the epilogue of its wrapper, so that the function can call anything in between,
`clearInterval` of its own interval among it.  A call needs no running callback:
Python tasks call the same functions.

What belongs to asyncio (the heap of timers, the ready queue, `Event`, a loop
that closes) is modelled from how the code uses it and marked external in the
map.  Time is abstract, and the ready queue is a set: any order is allowed, so
FIFO order is among them.  `getRunningLoop` is the test `loop = "open"`; a call
without a loop fails and changes nothing, so it is a stuttering step.

Two constants say which calls a program makes.  `RefAnyTime` allows
`timeout.ref()` on a timer that is due, done or cleared; `StopCalled` allows
`pm.stop()`.  Both are switches because the code does not keep the counter exact
once these calls are made: `loop_lateref` turns on the first and shows it,
`loop_safety` the second; the theorems name them as assumptions.

### XMLHttpRequest and the code

| State | Code |
| --- | --- |
| `state`, `sendFlag`, `synchronousFlag`, the upload flags, `timedOutFlag` | the private fields of the same names |
| `response`, `receivedBytes` | `#response`, `#receivedBytes`; a response and a chunk are known by the request they answer |
| `responseType`, `responseObject` | the type and the cache of the getter, as the type it was made for and the number of chunks |
| `stack` | the methods that are firing an event, innermost first, each with what is left of it |
| `sends`, `task`, `writing` | the requests so far; per request, where the coroutine `request()` is and whether its body is being written |
| `log`, `uploadLog`, `faults` | history, for the properties only |

`dispatchEvent()` is synchronous, and a listener may call `open()`, `send()` and
`abort()` of the object that is calling it.  So a method that fires events is a
frame with a `run`: the events it has yet to fire and the statements in between
that read or write the object.  While an event is dispatched the next step is a
call of the program (a new frame), a listener that throws (the frame goes, and
its caller with it if the caller does not catch), or the return of the listeners,
after which the frame goes on.  The callbacks of the coroutine and its rejection
handler start on an empty stack.  Which listeners are registered is not state:
any call may or may not be made in any event.

aiohttp is modelled from how `XMLHttpRequest-internal.py` uses it: a response
comes or an error is raised, chunks follow, an error or the end; a response that
`abort()` closed while it had a body fails its next read; one without a body has
nothing left to fail.  What a listener throws inside a callback makes `request()`
fail at once, also for the task that writes the body, whose failure aiohttp hands
to the coroutine.  Every call that `send()` or `open()` refuses changes nothing
and is a stuttering step.

`OneAtATime` says how the program reuses the object: only when the last request
has ended, and without `abort()` where the code lets the aborted request live
(see "Known divergences").  Beyond it the object mixes the events of two requests,
and only `TypeCorrect`, `SentIsAlwaysOpen` and `ResponseIsThere` hold there.

Within it the object still mixes them after one thing that a listener may do: to
send the next request and then throw.  The throw makes the coroutine of its own
request fail, and `#handleErrors` asks the object's send flag, now that of the
next request.  The model lets listeners throw whenever they run and notes such a
throw in `faults` as a "late listener"; `OneEnding`, `OwnAnswer` and
`ReadyStateAdvances` speak of everything up to the first one (`Mixed`).

### JobQueue and the code

The counter and the Event of `PyEventLoop::Lock` again, but each of `incCounter`
and `decCounter` is the steps the GIL may be released between: the counter, then
the call of `Event.clear()` or `Event.set()`, which is Python code.
`dispatchToEventLoop` on a helper thread, `sendJobToMainLoop`, and the job on the
main thread are actions of their own; a helper thread may finish after the loop
has closed.

### PromiseBridge and the code

| State | Code |
| --- | --- |
| `promise`, `caught`, `muted`, `rooted` | the state of a JS Promise; whether the program gave it a reaction; whether a script with `mutedErrors` rejected it; the `PersistentRooted` of `toJsPromise` |
| `future`, `held`, `retrieved` | the state of an `asyncio.Future`; whether the Python program has a reference; its `__log_traceback` |
| `refs` | the reference count of the Future |
| `source`, `reaction` | the Promise a Future was made for, and `onResolvedCb`: attached, queued, ran |
| `outletOf`, `doneCb` | the Future a Promise was made for, and `futureOnDoneCallback` |
| `handler` | the exception handler of the loop: the default, the one `promiseRejectionTracker` installs, the program's own |
| `reported`, `late` | history |

An action is a whole call: `getPyObject`, `toJsPromise` (of a Future or of a
coroutine, which `ensureFuture` wraps in a Task), the two callbacks, the rejection
of a Promise with what the tracker does, and the calls of the Python program.  The
temporary references that the code takes and drops inside one call appear as
their sum.  Freeing a Future is part of the step that drops the last reference,
with the report that `Future.__del__` makes.

### Lifetimes and the code

| State | Code |
| --- | --- |
| `kind`, `refs`, `held` | a Python object at an address, its reference count, whether the program has a reference |
| `cell`, `is`, `target` | a cell of the JS heap: live, finalized with a callback queued, gone; what it is; the `PyObject *` in its slot |
| `bufferOf` | the `PersistentRooted` ArrayBuffer of a bytes proxy |
| `jsHeld` | what the JavaScript program reaches |
| `externalStrings` | `externalStringObjToRefCountMap` |
| `queue` | `finalizationRegistryCallbacks` |
| `proxy`, `base`, `jsStringProxies` | a `JSStringProxy`, the string it roots, the set of the same name |
| `stale` | the `JSStringProxy`s whose character pointer is that of before a move |
| `phase`, `finalizing` | inside `pythonmonkeyGCCallback`; `Py_IsFinalizing()` |

A collection is the finalizers (one step), the callbacks of the registry, in which
Python code may run, and the update of the pointers.  Which garbage goes, and
which buffers move, is any choice.  A writable typed array and its ArrayBuffer
are one cell, as are a bytes proxy's two slots.  `GivesBack` says which finalizers
drop a reference: while Python is finalizing those of proxies and strings do not,
and that of an ArrayBuffer's contents, `_releasePyBuffer`, still does.

### Conversions and the code

`value` is a value on the side `at`; `origin` is what it was at first; `version`
is that of Python, which decides how a string is shared; `called` is what a Python
function got.  Characters and widths are scaled down, and each width is a
constant named for the one in the code, so that every boundary of the code is a
boundary of the model.  A string that shows the buffer of the other side keeps
which string that is, since it goes back as that string.

### Exceptions and the code

| State | Code |
| --- | --- |
| `stack` | the activations of the two languages, which alternate: a JS frame entered by `eval`, a call, or an attribute that has a getter; a Python frame entered by `callPyFunc` or `iter_next` |
| `failing` | the innermost returns with a failure: NULL in Python, `false` in JavaScript |
| `pyErr`, `jsExn` | `PyErr_Occurred()`; `JS_IsExceptionPending()` |
| `raised`, `kinds`, `fate` | history: what was raised or thrown, and whether it was caught, replaced, or taken for the end of an iteration |
| `abandoned` | history: the code has ignored a failure, or has left an exception in the JSContext |

An exception is the number of its throw and its present form: as thrown, boxed by
`JS_ValueToObject`, an Error made by `toJsError`, or a proxy of no object, which is
what becomes of a thrown `null`.  A return into the other language is one step,
with the conversion that it makes.  The rest of a program is free: a frame may
raise, catch, call and return whenever its language lets it.  CPython's check of a
result that comes with an error set (`SystemError`) and the interpreter's own look
at the indicator are external, as is the rule of SpiderMonkey that a failure
without a pending exception cannot be caught.

### The containers and the code

`ListProxy`: `list`, the reference counts `refs` of the items, `freed` (an item
was used after what may have been its last reference was dropped), `frame` (the
method that is running, with its index, the length it has read, and what its
calls saw and returned), `last` (the call that has returned).  A method without a
callback is one step, by the operator in `ListMethods`; one with a callback is a
step for each visit and each return, and the callback may change the list.
`sort` is its quicksort, a step for each compare.  What may go wrong is in the
model: a read behind the end of a list that was shrunk is a crash.  A callback may
return any item, `undefined` or a Boolean.  `Taken` is what `rval.toBoolean()` makes
of it: a Boolean for itself, and either truth for anything else, since it looks at
one bit of the representation.  In the same way `Verdicts` are any sign for a
compare function that answers with doubles, and the depth of `flat` is a number or
the low half of what is no int32.  `flatMap` is the recursion of
`FlattenIntoArrayWithCallBack` as it is: `depth` tells a nested call from the first,
`rest` is the part of the result array behind `targetIndex`, holes included,
`leaked` the containers whose reference the early return forgets, and a nested call
that fails sets `targetIndex` back to 0 (`NestedThrows`).

`ArrayProxy` and `ObjectProxy`: the container (`arr`, `obj`), an iterator `it`,
and `last`.  Every operation is one step, by its operator in `ArrayMethods` or
`ObjectMethods`; iteration is a step for each item, with changes in between.  The
element order of an object is the order of its keys, integer keys aside.  An object
inherits `Prototype`, which an access to a property finds and an enumeration does
not.  An operand is a dict, an instance of a subclass of dict, another object, or
any other iterable; iterating over a dict gives its keys, and a key of two letters
is a pair.  For an undefined element `ListStandard` takes the repository's tests for the reference:
`del a[i]` leaves a hole, read as `None`.

## Runs

| Run | Specification | Checks | Shows |
| --- | --- | --- | --- |
| `loop_safety` | `PyEventLoop`, with `pm.stop()` | `TypeOK`, `CounterExact`, `CancelledStaysDead`, `ImplementsShield` | the counter is exact on all paths, a cleared timer stays dead, `pm.wait()` implements its abstract specification |
| `loop_live` | its `FairSpec`, no `pm.stop()` | `AutoUnref`, `WaitEnds` | a done timer holds no reference; waiting ends |
| `loop_lateref` | with `RefAnyTime` | `CounterNeverNegative`, violated | `ref()` on a timer off the heap is not counted, its `unref()` is |
| `queue_gil` | `JobQueue`, `FairSpec` | `JobTypeOK`, `NoLostWakeup`, `WaitEnds` | no interleaving of the two-step updates loses a wake-up |
| `xhr_reuse` | `XMLHttpRequest`, `OneAtATime` | `SentIsOpen`, `NoNullResponse`, `OneEnding`, `OwnAnswer`, `EndIsReported`, `ReadyStateAdvances` | each request ends at most once, and says so unless a listener throws, whatever the listeners call; the object shows its own answer; up to the first late throw |
| `bridge` | `PromiseBridge` | `RefsExact`, `OutcomesCross`, `NoRejectionIsLost` | counts of Futures are exact; outcomes agree on both sides; a rejection is seen or reported |
| `lifetimes` | `Lifetimes` | `RefsExact`, `StringsFindTheirObject`, `NothingDangles`, `PointersFresh` | nothing reachable stands for what is gone, under any order of drops, collections and shutdown, when buffers still give references back; what leaks is two conversions, one reference each |
| `conversions` | `Conversions` | `StringsKeepTheirText`, `IntegersKeepTheirValue`, `ArgumentsMeetJavaScript` | what survives the crossing, there and back |
| `list` | `ListProxy` | `MethodsMeetStandard`, `CallbacksMeetStandard`, `SortMeetsStandard`, `RefsExact`, `CrashOnlyIfShrunk` | `Array.prototype` over a Python list is ECMAScript's but for what `Departs` names; four calls miscount and a nested `flatMap` call leaks; a crash needs a list shrunk by a callback |
| `array` | `ArrayProxy` | `OperationsMeetStandard`, `IterationIsFaithful`, `SpentStaysSpent` | a JS array behaves as a Python list, but for what `Known` names |
| `object` | `MCObjectProxy` | `OperationsMeetStandard`, `IterationIsSafe`, `IterationIsComplete` | a JS object behaves as a Python dict, but for what `Known` names; where an iterator reads outside its snapshot |
| `exceptions` | `Exceptions` | `NothingIsLost`, `PendingOnlyByExit`, `CaughtAsThrown` | no exception is lost between the languages but a thrown `null`; what may stay pending while code runs on; each handler gets what was thrown |

The violation disagrees with a message of the code, which `PROJECT.json`
("findings") quotes.  What the properties of passing runs leave out (`Miscounts`,
`Leaked`, `Departs`, `Known`, `Mangled`, `Uneven`, `Leaks`, `LeftPending`, `Mixed`)
names every call that may turn out otherwise than the language says.  A name covers
the calls of a kind, of which some may come out right all the same; outside of them
nothing goes wrong in the model, and "Not modelled" says what the model leaves out.
"Known divergences" below explains them.

### Bounds

The specifications need no bound on the job counter: timers, jobs and awaitables
are finite sets, each is created once, and the counter moves only with them.  One
timeout and one interval are enough for every combination of `place`,
`cancelled` and `refed`; a timer's actions read nothing of another timer but
whether it runs, and the counter.  Two jobs let one run while another is queued
and let the reactions of an awaitable be none, one or several.  Two waiters let
one be woken while the other goes to sleep.  The loop may close and reopen any
number of times.  Jobs and waiters are symmetric; symmetry is used for safety
only.  In `queue_gil`, two helper threads and a job on the main thread give any
two of the three a half-finished update at the same time.

In `xhr_reuse` two requests give every late event of the first a second one to
disturb.  `MaxDepth` two lets a listener of one method call another: the frames
share only the fields, so a deeper stack repeats what a pair can do.  One chunk
takes the object through `LOADING`, and makes the cache of one request differ
from that of an empty answer; `"text"` is the initial type and always among those
reached.  A request whose `loadend` is still to come is seen by `EndIsReported`
when its coroutine is over, so that no fairness is needed there.

`bridge`: two Promises and three Futures make a chain over both directions (a
Promise whose Future is awaited into a second Promise that crosses back), and two
Futures of one Promise.  `lifetimes`: two objects and three cells let one object
have two cells while the other is freed and its address used again, and let a
bytes proxy (two cells) meet another; two strings may share one base.  In both the
elements are interchangeable, so symmetry is sound.  `conversions`: three
characters hold a pair of surrogates with a neighbour; three digits of two bits,
with safe integers of four, put both sides of every boundary in reach, and the
digit that is all ones; three parameters with none to four arguments and any
number of defaults.  The versions 11, 12 and 13 of Python are the three branches
of the code.

`list`: lists of up to three items, one edit in each callback, indices from one
below the longest list's negative length to one above its length. Three items
give an index a middle and both ends, and `sort` a pivot with something on both
sides; one edit per callback already gives up to three in one call. `MaxLen`
bounds the growth by callbacks. Two kinds of container, one within the other, and
empty ones, give `flat` every depth it can tell apart, the holes, and `flatMap` a
nested call that returns a container; a depth that is no int32 is `undefined`
followed by the number that its low half is taken for. `array`: up to three elements before an
operation and `MaxGrown` six after it; slices begin and end before, in and
behind the array, with steps of both signs. `object`: up to three properties,
one with the name of a dict method and one with that of an inherited property, of
two letters, so that it is a pair as well, and two values, so that `==` compares
different ones; operands of up to two. An inherited value is never that of an own
property.

`exceptions`: three exceptions are one that is pending, one that replaces it and
one that was left behind earlier. Six frames let a thrown `null` go through
Python, come back into JavaScript as an Error made of nothing and be thrown
there through Python once more.

### Fairness

`PyEventLoop!FairSpec`: a callback that has started returns (weak fairness of
the epilogues); asyncio's ready queue is FIFO and its heap is ordered by time,
so whatever is due or queued gets its turn (strong fairness, since these actions
are disabled while another callback runs); the awaitables are the program's own
and complete; a woken task resumes.  Nothing is assumed of the program's calls,
of `pm.wait()`, or of the loop staying open.  `JobQueue!FairSpec`: a thread that
wants the GIL gets it.  `WaitEnds` makes two exceptions, both real: an interval
that stays ref'ed keeps the shield closed by design, and a loop that was closed
over pending work leaves a counter nobody will count down.  The other modules
need no fairness: what must have happened "once nothing is pending" is stated of
the states in which no callback is queued.  Only `conversions` turns off the
deadlock check, since a value that Python refuses with an `OverflowError` goes
nowhere.

## Theorems

Where a module's `TypeOK` is a theorem and not in a run, the table of runs omits it.
All for any number of timers, jobs, awaitables, helper threads, waiters,
requests and calls within calls, of Promises and Futures, for containers of any
size and any items, for functions of any number of parameters, for any number of exceptions on stacks of any depth, and for any number of
objects, cells and strings in the two heaps.

| Theorem | Says |
| --- | --- |
| `PyEventLoop_proofs!TypeCorrect` | `Spec => []TypeOK` |
| `CounterIsExact` | `~RefAnyTime => (Spec => []CounterExact)` |
| `CounterNeverBelowZero` | its corollary: `decCounter` never reports an error |
| `ImplementsTheShield` | `~RefAnyTime => (Spec => Shield!Spec)`, with the work that is outstanding for the abstract obligations |
| `ClearedTimersNeverRun` | `Spec => CancelledStaysDead`, without any assumption on the calls |
| `DoneTimersAreUnrefed` | `~RefAnyTime /\ ~StopCalled => (Spec => []AutoUnref)` |
| `PromiseBridge_proofs!TypeCorrect` | `Spec => []TypeOK` |
| `RefsAreExact` | `Spec => []RefsExact`: the count of a Future is the number of its holders, and exactly the awaited Promises are rooted |
| `CallbacksFindTheirFuture` | its corollary: a callback never finds its Future freed |
| `OutcomesDoCross` | `Spec => []OutcomesCross` |
| `NoRejectionLost` | `Spec => []NoRejectionIsLost` |
| `JobTypeCorrect`, `NoWakeupIsLost` | of `JobQueue`, `JobSpec`: the counter is never negative and no wake-up is lost at the grain of the GIL |
| `XMLHttpRequest_proofs!TypeCorrect` | `Spec => []TypeOK`, the call stack included |
| `SentIsAlwaysOpen` | `Spec => []SentIsOpen`, without `OneAtATime` |
| `ResponseIsThere` | `Spec => []NoNullResponse`, without `OneAtATime` |
| `EndsOnce` | `OneAtATime => (Spec => []OneEnding)`: a request ends at most once, whatever its listeners call, until one throws late |
| `EndsAreReported` | `OneAtATime => (Spec => []EndIsReported)` |
| `StateAdvances` | `OneAtATime => (Spec => ReadyStateAdvances)`, until a listener throws late |
| `AnswerIsOwn` | `OneAtATime => (Spec => []OwnAnswer)`: no chunk and no cached object of another request is shown, until a listener throws late |
| `ListProxy_proofs!SafeStates` | `Spec => []Safe`, the inductive invariant of types, frames and indices |
| `MethodsAsPromised` | `Spec => []MethodsMeetStandard`: the methods without a callback, but for the calls of `Departs` |
| `CallbacksAsPromised` | `Spec => []CallbacksMeetStandard`: the methods with one, which may change the list; the result follows from what its answers were taken for; not `flatMap` if a call returned a container or threw |
| `SortSorts` | `Spec => []SortMeetsStandard`: the items stay, and end up in order if the compare function is consistent and answers int32 |
| `CountsAreExact` | `CarefulEdits => (Spec => []RefsExact)`, if no callback makes a call of `Miscounts`; a container that a nested call of `flatMap` leaked counts once |
| `CrashesOnlyIfShrunk` | `Spec => []CrashOnlyIfShrunk`, whatever the callbacks do |
| `Values_proofs!Faithful`, `StopIsFinal` | `ArrayIterSpec => []IterationIsFaithful`, `ArrayIterSpec => SpentStaysSpent` |
| `Safe`, `Complete` | `ObjectIterSpec => []IterationIsSafe`, `ObjectIterSpec => []IterationIsComplete` |
| `DictsMeetStandard` | `ObjectSpec => []OperationsMeetStandard` of `ObjectProxy`, for objects with any number of properties and any prototype, but for the calls of `Known` |
| `ArrayProxy_proofs!ListsMeetStandard` | `Spec => []OperationsMeetStandard` of `ArrayProxy`, for arrays and operands of any length |
| `ArgumentsAsPromised` | `Spec => []ArgumentsMeetJavaScript` of `Conversions`, for any parameters and any number of arguments |
| `IntegersCrossExactly` | `Spec => []IntegersKeepTheirValue` of `Conversions`, for integers of any size and digits of any width |
| `StringsCrossExactly` | `Spec => []StringsKeepTheirText` of `Conversions`, for strings of any length and units of any width |
| `Exceptions_proofs!TypeCorrect` | `Spec => []TypeOK` |
| `NoneIsLost` | `Spec => []NothingIsLost` |
| `OnlyExitStaysPending` | `Spec => []PendingOnlyByExit` |
| `HandlersGetTheirOwn` | `Spec => CaughtAsThrown` |
| `Lifetimes_proofs!TypeCorrect` | `Spec => []TypeOK`: nothing is counted below zero |
| `ReferencesExact`, `StringsFound` | `Spec => []RefsExact`, `Spec => []StringsFindTheirObject` |
| `NoneDangles` | `Spec => []NothingDangles`, also while Python is finalizing, when proxies keep their references and buffers give theirs back |
| `FreshPointers` | `Spec => []PointersFresh` |

The argument for the counter: `TypeOK /\ CounterExact` is inductive.  `NextEffect`
shows once that every step of `Next` either is `Quiet` (it leaves the counter,
the Event and the outstanding work alone) or `Moves` a set `done` of obligations
out and a set `new` in with `LockStep(Cardinality(done), Cardinality(new))`.
`LockExact` does the cardinalities for such a move, `LockShield` maps it to a
step of `EventLoopShield`; the refinement needs `CounterExact` because the
concrete code releases waiters by the counter and the abstract one by the set.
For `JobQueue` the invariant is `JobTypeOK /\ NoLostWakeup`: the counter is the
number of units counted and not yet counted off, so a thread that is about to
clear the Event has itself made the counter positive.

For `PromiseBridge` three invariants build on one another.  `RefsInv` adds to
`TypeOK` and `RefsExact` that what has not been made has no state (`Untouched`):
an action that makes a Future finds it free of holders, and the ones that move
a holder keep the balance.  `CrossInv` adds `Stages`: how the state of a callback
goes with the state of both ends it connects.  `LossInv` adds `Accounted`, which
follows each rejection to where it is pursued: to the Future that carries it and
will report it in its destructor, or to the callback that will get it there.

For `XMLHttpRequest`, `TypeOK /\ SentIsOpen` is inductive: `abort()` of a DONE
object leaves the flag alone, and the invariant says it is unset there.
`NoNullResponse` is not inductive: a frame of `processResponse` may be anywhere on
the stack.  `NullInv` adds that while any frame has yet to read the length, the
state HEADERS_RECEIVED means that there is a response.  Whatever nulls the
response either leaves that state in the same step or runs on an empty stack, and
`ContinueReads` shows that no step but `Response` adds such a frame.

The other four theorems need to know of every event that is still to be fired.
`OneInv` says which frames may stand on the stack, and for which request
(`FrameInv`), that at most one of them is to report the end of a request (`Once`),
that the log of a request is what that frame can still complete (`LogInv`), and
where the task of each request is against the state of the object and the log
(`TaskInv`, `SyncInv`, `EndInv`, `ReportInv`).  `OneAtATime` is used where a method
starts a new request: nothing of the last one is then left.  `AnswerInv` adds that
what has been received belongs to the last request, and that the cache is of what
has been received (`CacheInv`).

For the iterators the theorems are about `ArrayIterSpec` and `ObjectIterSpec`, the
iterator over a container that any step may replace by any other: `ArrayProxy` and
`ObjectProxy` change it only by their operations, and use the same actions.  For
objects the invariant relates the index, the number of keys given and the length
of the snapshot in both directions.  Where an operation
of `ObjectProxy` is one step, `ObjectOK` is enough: an object's keys are unique, and
while a result is looked at no iterator is under way.  `Answers` says of an operation
and its arguments that object and result are those of `DictStandard`, and has a lemma
for each operation; the ones that loop (`update`, the copies and merges, comparison,
the views) are inductions over the pairs they walk through, from the laws of
`SetProperty` and `DeleteProperty` against the mapping that an object stands for
(`EveryCallAnswers` puts the cases together).

The theorem about `ArrayProxy` is built in the same way: `ArrayOK` says that the
array holds items, and that there is no iterator while a result is looked at.  The
work is in the lemmas `...Answers` of the operations, each for any array, any
integer and any operand.  The places of a slice are an ascending or a descending
run (`Rises`, `PlacesFacts`), which is what `JSArrayProxy`'s clamping of `start` and
`stop` comes to.  Its loops are folds: `LoopExists` and `LoopKeeps` turn one into a
path of arrays and carry an invariant along it, so that moving elements up or down
in place (`MovedFacts`), storing them with a step (`StoredFacts`) and closing the
gaps of `del a[i:j:k]` (`RunsFacts`) are each one invariant on how far the loop has
come.  `sort` is specified by what a stable sort must do, and the proof shows that
`Array.prototype.sort` with the comparison functions of `JSArrayProxy.cc` can do
nothing else: the place of an element is the number of those ahead of it
(`RungFacts`), and only one arrangement climbs in that order (`ArrangedOnce`).  What
`Known` exempts is exempt in the lemmas by the same conditions (`Exempt`).

The arguments of a call need of the state only
that a function keeps its signature while it crosses (`ValueOK`); `TupleFits` has
the arithmetic of the tuple's length.

For integers and strings most of the work is in the functions that convert them.
`TwoToLaws` and `BitsOf` say what `TwoTo` and `NumBits` are; by `DigitsHold` the
first digits of a number give it modulo their places, so that as many as
`jsDigitCount` counts give all of it (`BigIntHolds`).  The invariant `IntegerOK` adds
to the property what each type says of its value: an int that is no bigint has never
crossed, a Number is safe.  For strings, `Joined` and `Beyond` show that splitting a
character into surrogates and joining a pair are inverse, `UTF16IsText` that
`UCS4ToUTF16` gives the text of characters without surrogates, and `UCS4Tells`, by
induction over the units (`JoinTells`), that `asUCS4` of well-formed units leaves no
surrogate and keeps their text.  The invariant `StringOK` lists the four things a
string can be: characters or units of its own (`OwnPy`, `OwnJs`), or a view of the
other side's (`ShowsJs`, `ShowsPy`), and which of these the conversions can have made.

For `ListProxy` the invariant is `Safe`: types, and for a method under way that its
index and its fixed length, or the bounds of its partitions, lie within the list it
began with, as long as nothing shrank it.  Three more build on it.  `RefsExact`
needs of each operator of `ListMethods` that the references that are neither in the
list nor in the result (`Spare`) stay what they were: `Regular` says so, and the
primitives `Incref`, `SetItem`, `SetSlice` and so on have a lemma each.
`SortSoFar` says of every partition of the quicksort that it holds what it held,
that what lies outside is in its place already, and how far the two scans have come;
that the pivot splits what the compare function orders needs a consistent one
(`LastSort`).  `LoopSoFar` says of a method that calls a function how many calls it
has made, on which items, and that its partial result is the one that
ECMAScript's definition gives for these calls.  `MethodsMeetStandard` is a property
of one step: `EditorAnswers` and `ReaderAnswers` have a case for each method, most
of them an induction over the method's loop.

These inductions cannot use the induction theorems of the library, whose operator
parameters no backend can instantiate.  `NatInd` and `SeqInd` state induction for
sets instead, from the well-foundedness of the natural numbers, and `LoopExists`
and `LoopKeeps` are about any loop that is a function of its counter; each use
gives the set of the numbers, or sequences, for which the claim holds.

For `Exceptions` the invariant has four parts.  `TypeInv` adds to `TypeOK` that the
frames of the two languages alternate, so that a return always changes the
language.  `LossInv` adds to `NothingIsLost` that the two indicators hold different
exceptions (else clearing one would not say what became of the other), and that a
failure of JavaScript without any exception comes from a thrown `null`.  `StrayInv`
says that until an exception has been abandoned one of JavaScript is pending only
while JavaScript fails, and is then the later of the two; this is what makes
`PendingOnlyByExit` inductive.  `FormInv` relates the form of an exception to its
kind.  There is one lemma for each action, or for each branch of an action that
converts, and under it one step for each conjunct.

For `Lifetimes` the properties of the run are nearly inductive together.  `CountInv`
keeps of `RefsExact`, once only some finalizers give their reference back, that no
object has a reference too few: `NothingDangles` does not end with the finalization, and needs
it.  `CellInv` relates the states of a cell to its target and to the queue, and
`StringInv` says that `jsStringProxies` is the set of all JSStringProxies and that
each roots its string, also during a collection.  The cardinalities are in two
lemmas, `MakesKeeps` for any set of cells made for one object and `UnmakesKeeps`
for any set of cells that give their references back.

The SMT backend of this version of `tlapm` takes an intersection of two
enumerated sets for empty (it proves `{x} \cap {y} = {}` of any `x` and `y`), so
no formula that a proof uses has one.

The proofs rest on the named assumptions on the constants (`KindsAssumption`,
`UnitsAssumption`, `BridgeAssumption`: the sets are finite and disjoint, the
"none" values are outside of them; `BoundsAssumption`, `ExceptionsAssumption`:
the bounds are natural numbers; `LifetimesAssumption`: objects, cells and strings
are finite in number; `ItemsAssumption`, `ContentsAssumption`, `ListAssumption`:
`undefined` is no item, containers hold items, and items have an order; `EditAssumption`: a callback calls methods with arguments that they take;
`ConversionsAssumption`: the widths are natural numbers that fit one another;
`ArrayAssumption`, `ObjectProxyAssumption`: the bounds are natural numbers, elements
that are sorted are integers, no slice has the step 0, the values of own properties
are not among the inherited ones, a name of two letters is a pair), which
TLC evaluates in every run.  Three theorems have a hypothesis that says how the
program behaves: `~RefAnyTime` and `~StopCalled`, `OneAtATime`, and `CarefulEdits`.
Without it they are false, by what "Known divergences" lists; the runs that check
the same properties satisfy it.

Model-checked only is liveness: `WaitEnds` needs fairness, which is out of the
prover's reach.  In `ListsMeetStandard` the indices are those up to one past either
end of an array of `MaxLen`, as in the runs; the lemmas have no such bound.

## Known divergences

Where the code does something else than its language, its comments or its tests
say.  The model does as the code does, and a property names the exception.

Event loop.  `ref()` on a timer that is due, running or cleared marks it ref'ed
and does not count it (`loop_lateref`).  `pm.stop()` cancels a timer that is due
without giving its reference back; so `AutoUnref` is claimed without `pm.stop()`
only.  A helper thread that has counted its job may be overtaken by the main
thread's `set()`: the Event may be set while a job is in the queue, but it is
cleared again before anyone can be lost.  `pm.wait()` is released by the last
awaitable before the reactions of its Promise are queued (`PromiseType.cc:95`).

XMLHttpRequest.  `abort()` before the headers have come cancels nothing
(`XMLHttpRequest.js:489`): the aborted request goes on and its events come.
`open()` never unsets the synchronous flag.  The first read of a JSON response
throws.  A listener of `load` that sends the next request and then throws makes
`request()` reject, and `#handleErrors` (`XMLHttpRequest.js:447`), which looks at the
send flag of the object only, ends the request it finds there: it reports a second
end for the one that is over, or moves the object to DONE under the one that is not,
whose response then takes it back to HEADERS_RECEIVED.

Rejections.  The tracker gives a rejection to a Future and forgets it; a reaction
attached before that Future dies does not stop the report (`JobQueue.cc:136`).

Lists as arrays. `Miscounts` names the calls that get a reference count wrong:
`splice` with items, `copyWithin`, `delete`, and an assignment beyond the end.
`shift` and the last use an item after dropping it. Methods read the length
once, and a callback that shrinks the list makes them read behind its end.
`flatMap` calls the function once more on what a returned list holds, so that it
is `map().flat()` only for some functions, that of `test_flatMap_equivalence`
(`tests/python/test_arrays.py:2207`) among them; an explicit `undefined` for the
end in `fill` and `copyWithin` is 0; setting `length` is refused, and so is `delete`
beyond the end. `filter`, `some`, `every`, `find` and `findIndex` read
the answer of the function with `toBoolean()` and no conversion
(`PyListProxyHandler.cc:1047`; also 868, 1112, 1178, 1243), so that a truthy string may
be taken for false, as the repository's tests have it (`tests/python/test_arrays.py:1594`,
1742, 1878, 2015).
`sort` reads a compare function's answer with `toInt32()` though it may be a double
(line 1652): `(a, b) => a - b` on 0.75 and 0.5 does not sort them.
The depth of `flat` goes through `toInt32()` into a `uint32_t` (1428): `flat(-1)`
flattens everything, `flat(Infinity)` and `flat(undefined)` go by bits. The result of
`flat` and `flatMap` is made as long as the list (1434), and keeps holes behind
the items when containers hold fewer. An exception of the function of `flatMap` is
ignored (1340, 1362, 1487): a nested call's makes the recursion go on at index 0,
the first call's ends the method with an array. A container that a nested call
returns is never released (1396).

Arrays as lists.  A slice assignment that makes the array longer loses part of the
tail (`JSArrayProxy.cc:245`): for an array `[1, 2, 3]`, `a[0:0] = [9]` gives
`[9, 1, 1, 1]`.  `a[::k] = a` raises `ValueError`; `a += b` for another JS
array adds nothing; `a + []` is `a` itself; `<` between two JS arrays crashes.

Objects as dicts.  `==` looks only at the keys of the left operand, takes any
container for a mapping, and may leave the `KeyError` of the other dict pending;
the view of the keys compares wrongly with other views and by `>`; `get` and
`setdefault` of a key named like a method find the method; `in` on the view of the
values looks for a key; properties that are `undefined` are in the iteration and
not in `in`.  Access goes along the prototype chain (`JSObjectProxy.cc:89`, 175,
701): `"toString" in obj` is True, `obj["toString"]`, `get` and `setdefault` find the
function, `pop` returns it, removes nothing and raises no `KeyError`, and so do the
views' `in`, `&` and `isdisjoint`.  `update()` asks `PyDict_CheckExact` (766), so
that an instance of a subclass of dict is iterated over for pairs: its keys fail, or,
if they have two letters, are merged as pairs.  A forward iterator reads behind its copy of the keys when the object
has grown, and stops early when it has shrunk.

Conversions.  A lone surrogate in a string of four-byte characters becomes two
others (`jsTypeFactory.cc:119`).  Before Python 3.13 a two-byte JS string of
Latin-1 characters is a non-canonical `str`, unequal to the same text.  A call
with missing arguments takes a reference of `None` for each that it never took
(`jsTypeFactory.cc:429`); counts of `None` are not modelled.

Exceptions. A thrown primitive comes back from Python as its wrapper object. A
thrown `null` or `undefined` becomes a `SpiderMonkeyError` whose `jsError` is
the proxy of no object; back in JavaScript it cannot be caught, and Python gets
"spidermonkey did not set an exception". Of `SystemExit` the code says "We
definitely don't want to catch it in JS" (`jsTypeFactory.cc:331`), and
JavaScript does not catch it but runs on; the next Python function it calls
fails with CPython's `SystemError`, which JavaScript can catch, and the exit is
then gone (`fate` "chained"). An error of an iterator, of an argument that
cannot be converted, or of a timer that is set during an exit passes every
`catch`. `iter_next` takes a `SystemError` for the end of the iteration. A
result that cannot be converted gives a value and leaves its error set. The
exception of a getter that fails, and one that meets a Python exception at the
return, stays in the JSContext.

Lifetimes.  A converted iterator leaks the reference of `PyObject_GetIter`
(`jsTypeFactory.cc:296`), a writable buffer one of its two (`BufferType.cc:138`).
`PyObjectProxyHandler.cc:89` says of `Py_DECREF` that it cannot be called when
shutting down, and the finalizers of proxies and strings do not; `_releasePyBuffer`
(`BufferType.cc:198`) does all the same, through `PyBuffer_Release`.

## Not modelled

Parts: property traps of dicts, objects, bytes and iterables, which forward one
call each; dates, floats, booleans, boxed values; element types of buffers;
formatting, console, url and util; the command line and the debugger; the build
and the packaging; the loading of CommonJS modules, which the external package
`ctx-module` does.

Within the parts that are modelled:

* `PyEventLoop`: the normalisation of arguments, the debug information.
* `PromiseBridge`: awaitables that yield other awaitables than Futures, a Promise
  collected while it is pending (its Future stays), a missing or closing loop
  (in `PyEventLoop`), the small leaks of the callback's tuple.
* `XMLHttpRequest`: headers, credentials, the registration of listeners.
* `Lifetimes`: the collector's own thread; proxies that borrow (`JSMethodProxy`'s
  `self`, the raw pointer of the iterators of lists, bytes and iterables, listed
  under "hazards"); views of a JS buffer from Python; conversions that fail
  half-way; cycles over both heaps, which neither collector sees; Python code that
  runs in the callbacks of the registry reads no string there.
* `Conversions`: bound methods beyond `self`, the forwarding calls of
  `JSFunctionProxy` and `JSMethodProxy`.
* `ListProxy`: `thisArg`; items that change under `toLocaleString`.
* `ArrayProxy`: `__length_hint__` of an iterator; `extend` by a generator or by a
  proxy of the array it extends.
* `ObjectProxy`: `repr()`, cyclic values; accessors, `__proto__` among them, and the
  binding of a function that is read through a proxy; `__missing__` of a subclass of
  dict; the refusal of `|` for a dict before Python 3.9 (`JSObjectProxy.cc:549`).
* `Exceptions`: the text of messages and tracebacks; `sys.tracebacklimit`, which
  below one makes `toJsError` lose the exception (`ExceptionType.cc:138`); errors
  that cross as values (`ExceptionType::getPyObject`); an exception that is kept and
  raised again later; the `NULL` value that `PyErr_Fetch` may give before Python 3.12,
  where an exception need not be normalised; the getters and setters of the other proxies; failures for
  want of memory.

## Plan

Done so far: the event loop, the job queue, the Promise bridge, XMLHttpRequest,
the three containers, lifetimes, conversions and exceptions.  Next are bytes as
typed arrays, the traps of `PyDictProxyHandler` and `PyObjectProxyHandler`, and the
failures of these traps in `Exceptions`.
