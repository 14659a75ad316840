----------------------------- MODULE PyEventLoop -----------------------------
(***************************************************************************)
(* PythonMonkey's event-loop: JS timers, Promise jobs and awaitables are   *)
(* callbacks of the Python asyncio loop of the main thread, and one job    *)
(* counter (PyEventLoop::Lock) tells pm.wait() whether any is outstanding. *)
(*                                                                         *)
(* An action is one call into the C++ code, or one callback of the loop.   *)
(* Calls on timers have no guard on what is executing: the caller is the   *)
(* JS callback that runs, or a Python task when none runs.  A callback     *)
(* takes two actions, the start of its JS function and the wrapper's       *)
(* epilogue, with the calls the function makes in between.                 *)
(*                                                                         *)
(* asyncio's ready queue is the set of handles in place "ready" (or jobs   *)
(* "queued"): any order of running them is allowed, its FIFO order among   *)
(* them, and time is abstract: a timer of the heap may expire at any step. *)
(***************************************************************************)
EXTENDS Integers, FiniteSets

CONSTANTS Timers,      \* timeoutIDs, the indices of _timeoutIdMap
          Intervals,   \* those made by setInterval (repeat = true)
          Jobs,        \* JS jobs given to JobQueue::enqueuePromiseJob
          Awaitables,  \* Python awaitables coerced to JS Promises
          Waiters,     \* Python tasks that call pm.wait()
          RefAnyTime,  \* may timeout.ref() be called on a timer that is due, has
                       \* run, or was cleared?  No: only on a timer of the heap
          StopCalled   \* may pm.stop() be called?

ASSUME KindsAssumption ==
    /\ IsFiniteSet(Timers) /\ IsFiniteSet(Jobs) /\ IsFiniteSet(Awaitables)
    /\ Timers \cap Jobs = {} /\ Timers \cap Awaitables = {} /\ Jobs \cap Awaitables = {}
    /\ Intervals \subseteq Timers
    /\ RefAnyTime \in BOOLEAN
    /\ StopCalled \in BOOLEAN

VARIABLES
    loop,       \* is an asyncio loop running on the main thread: "open" or "closed"
    place,      \* where the asyncio.TimerHandle of each timer is
    cancelled,  \* TimerHandle._cancelled, per timer
    refed,      \* AsyncHandle::_refed, per timer
    job,        \* each job: "new", "queued", "running", "done" or "lost"
    awaiting,   \* each coerced awaitable: "new", "pending", "done" or "lost"
    counter,    \* Lock::_counter
    flag,       \* the value of the asyncio.Event Lock::_queueIsEmpty
    waiter      \* "idle", "waiting" in Event.wait(), or "woken" by Event.set()

timerVars == <<place, cancelled, refed>>
lockVars  == <<counter, flag, waiter>>
vars == <<loop, place, cancelled, refed, job, awaiting, counter, flag, waiter>>

(***************************************************************************)
(* "none": not created.  "heap": in loop._scheduled.  "ready": popped into *)
(* loop._ready.  "running": its JS function executes.  "done": the loop    *)
(* will not call it again.  A loop that closes leaves what was in its heap *)
(* "orphaned" and drops ("swept") what was ready.                          *)
(***************************************************************************)
Places == {"none", "heap", "ready", "running", "done", "orphaned", "swept"}

\* The types, and that an id not handed out yet has no state.
TypeOK ==
    /\ loop \in {"open", "closed"}
    /\ place \in [Timers -> Places]
    /\ cancelled \in [Timers -> BOOLEAN]
    /\ refed \in [Timers -> BOOLEAN]
    /\ job \in [Jobs -> {"new", "queued", "running", "done", "lost"}]
    /\ awaiting \in [Awaitables -> {"new", "pending", "done", "lost"}]
    /\ counter \in Int
    /\ flag \in BOOLEAN
    /\ waiter \in [Waiters -> {"idle", "waiting", "woken"}]
    /\ \A t \in Timers : place[t] = "none" => ~refed[t] /\ ~cancelled[t]

Init ==
    /\ loop = "closed"
    /\ place = [t \in Timers |-> "none"]
    /\ cancelled = [t \in Timers |-> FALSE]
    /\ refed = [t \in Timers |-> FALSE]
    /\ job = [j \in Jobs |-> "new"]
    /\ awaiting = [a \in Awaitables |-> "new"]
    /\ counter = 0
    /\ flag = TRUE
    /\ waiter = [w \in Waiters |-> "idle"]

Created == {t \in Timers : place[t] # "none"}

\* TimerHandle._scheduled: cleared only when the loop takes the handle off its
\* heap, so neither cancel() nor closing the loop clears it.
FinishedOrCancelled(t) == place[t] \notin {"heap", "orphaned"}

\* A callback executes; the loop calls no other before it returns.
Busy == \/ \E t \in Timers : place[t] = "running"
        \/ \E j \in Jobs : job[j] = "running"

-----------------------------------------------------------------------------
(***************************************************************************)
(* PyEventLoop::Lock                                                       *)
(***************************************************************************)

\* Mutant of LockStep: the event is set while one job is still counted.
LockStepOpensEarly(dec, inc) ==
    LET opens == dec > 0 /\ counter - dec <= 1
    IN  /\ counter' = (counter - dec) + inc
        /\ flag' = IF inc > 0 THEN FALSE ELSE flag \/ opens
        /\ waiter' = IF opens /\ ~flag
                     THEN [w \in Waiters |-> IF waiter[w] = "waiting" THEN "woken"
                                             ELSE waiter[w]]
                     ELSE waiter

\* dec calls of decCounter() followed by inc calls of incCounter().  The event
\* is set when the counter passes exactly zero; set() wakes those that wait,
\* and does nothing on an event already set.
LockStep(dec, inc) ==
    LET opens == counter \in 1..dec
    IN  /\ counter' = (counter - dec) + inc
        /\ flag' = IF inc > 0 THEN FALSE ELSE flag \/ opens
        /\ waiter' = IF opens /\ ~flag
                     THEN [w \in Waiters |-> IF waiter[w] = "waiting" THEN "woken"
                                             ELSE waiter[w]]
                     ELSE waiter

IncCounter(n) == LockStep(0, n)
DecCounter(n) == LockStep(n, 0)

\* AsyncHandle::removeRef on every timer of S.
RemoveRef(S) ==
    /\ refed' = [t \in Timers |-> refed[t] /\ t \notin S]
    /\ DecCounter(Cardinality({t \in S : refed[t]}))

-----------------------------------------------------------------------------
(***************************************************************************)
(* The timer functions: setTimeout, setInterval, clearTimeout and          *)
(* clearInterval, Timeout.ref and Timeout.unref, and pm.stop().            *)
(***************************************************************************)

\* A fresh id; call_later puts the handle in the heap; addRef counts it.
EnqueueWithDelay(t) ==
    /\ loop = "open"
    /\ place[t] = "none"
    /\ place' = [place EXCEPT ![t] = "heap"]
    /\ refed' = [refed EXCEPT ![t] = TRUE]
    /\ IncCounter(1)
    /\ UNCHANGED <<loop, cancelled, job, awaiting>>

\* Mutants of CancelByTimeoutId: no removeRef(); no check that the id exists.
CancelKeepsRef(t) ==
    /\ t \in Created
    /\ cancelled' = [cancelled EXCEPT ![t] = TRUE]
    /\ UNCHANGED <<loop, place, refed, job, awaiting, lockVars>>
CancelUnknownId(t) ==
    /\ cancelled' = [cancelled EXCEPT ![t] = TRUE]
    /\ RemoveRef({t})
    /\ UNCHANGED <<loop, place, job, awaiting>>

\* cancel() and then removeRef(): the handle is cancelled wherever it is.
CancelByTimeoutId(t) ==
    /\ t \in Created
    /\ cancelled' = [cancelled EXCEPT ![t] = TRUE]
    /\ RemoveRef({t})
    /\ UNCHANGED <<loop, place, job, awaiting>>

\* Mutant of TimerAddRef: counts a timer that is ref'ed already.
AddRefTwice(t) ==
    /\ t \in Created
    /\ ~FinishedOrCancelled(t) /\ ~cancelled[t]
    /\ counter < Cardinality(Timers)
    /\ refed' = [refed EXCEPT ![t] = TRUE]
    /\ IncCounter(1)
    /\ UNCHANGED <<loop, place, cancelled, job, awaiting>>

\* AsyncHandle::addRef on a timer that is not ref'ed: no count for a handle
\* that is off the heap, but the timer is ref'ed all the same.
TimerAddRef(t) ==
    /\ t \in Created
    /\ ~refed[t]
    /\ RefAnyTime \/ (~FinishedOrCancelled(t) /\ ~cancelled[t])
    /\ refed' = [refed EXCEPT ![t] = TRUE]
    /\ IncCounter(IF FinishedOrCancelled(t) THEN 0 ELSE 1)
    /\ UNCHANGED <<loop, place, cancelled, job, awaiting>>

TimerRemoveRef(t) ==
    /\ t \in Created
    /\ RemoveRef({t})
    /\ UNCHANGED <<loop, place, cancelled, job, awaiting>>

\* pm.stop(): cancel(), which removes the reference of a handle of the heap
\* only, on every timer there has been.
CancelAll ==
    /\ StopCalled
    /\ cancelled' = [t \in Timers |-> cancelled[t] \/ t \in Created]
    /\ RemoveRef({t \in Created : ~FinishedOrCancelled(t)})
    /\ UNCHANGED <<loop, place, job, awaiting>>

-----------------------------------------------------------------------------
(***************************************************************************)
(* The asyncio loop and the timers' callbacks.                             *)
(***************************************************************************)

Expire(t) ==
    /\ loop = "open" /\ ~Busy
    /\ place[t] = "heap"
    /\ place' = [place EXCEPT ![t] = "ready"]
    /\ UNCHANGED <<loop, cancelled, refed, job, awaiting, lockVars>>

\* A cancelled handle is thrown away: at the head of the heap, or when its
\* turn comes in the ready queue.
Discard(t) ==
    /\ loop = "open" /\ ~Busy
    /\ place[t] \in {"heap", "ready"}
    /\ cancelled[t]
    /\ place' = [place EXCEPT ![t] = "done"]
    /\ UNCHANGED <<loop, cancelled, refed, job, awaiting, lockVars>>

\* timerJobWrapper, up to the call of the JS function.
TimerJobStart(t) ==
    /\ loop = "open" /\ ~Busy
    /\ place[t] = "ready"
    /\ ~cancelled[t]
    /\ place' = [place EXCEPT ![t] = "running"]
    /\ UNCHANGED <<loop, cancelled, refed, job, awaiting, lockVars>>

\* Mutant of TimerJobFinish: an interval is always scheduled again.
RescheduleAlways(t) ==
    /\ place[t] = "running"
    /\ place' = [place EXCEPT ![t] = IF t \in Intervals THEN "heap" ELSE "done"]
    /\ IF t \in Intervals
       THEN /\ cancelled' = [cancelled EXCEPT ![t] = FALSE]
            /\ UNCHANGED <<refed, lockVars>>
       ELSE RemoveRef({t}) /\ UNCHANGED cancelled
    /\ UNCHANGED <<loop, job, awaiting>>

\* timerJobWrapper, after the JS function: an interval nobody cancelled is
\* scheduled again, with a new handle and the reference it has; any other
\* timer loses its reference.
TimerJobFinish(t) ==
    /\ place[t] = "running"
    /\ \/ /\ t \in Intervals /\ ~cancelled[t]
          /\ place' = [place EXCEPT ![t] = "heap"]
          /\ UNCHANGED <<refed, lockVars>>
       \/ /\ t \notin Intervals \/ cancelled[t]
          /\ place' = [place EXCEPT ![t] = "done"]
          /\ RemoveRef({t})
    /\ UNCHANGED <<loop, cancelled, job, awaiting>>

-----------------------------------------------------------------------------
(***************************************************************************)
(* Promise jobs, and Python awaitables coerced to JS Promises.             *)
(***************************************************************************)

EnqueuePromiseJob(j) ==
    /\ loop = "open"
    /\ job[j] = "new"
    /\ job' = [job EXCEPT ![j] = "queued"]
    /\ IncCounter(1)
    /\ UNCHANGED <<loop, timerVars, awaiting>>

\* eventLoopJobWrapper calls the job ...
PromiseJobStart(j) ==
    /\ loop = "open" /\ ~Busy
    /\ job[j] = "queued"
    /\ job' = [job EXCEPT ![j] = "running"]
    /\ UNCHANGED <<loop, timerVars, awaiting, lockVars>>

\* Mutant of PromiseJobFinish: a job that raises is not counted off.
RaisingJobKeepsCount(j) ==
    /\ job[j] = "running"
    /\ job' = [job EXCEPT ![j] = "done"]
    /\ DecCounter(1) \/ UNCHANGED lockVars
    /\ UNCHANGED <<loop, timerVars, awaiting>>

\* ... and then counts it off, whether or not it raised.
PromiseJobFinish(j) ==
    /\ job[j] = "running"
    /\ job' = [job EXCEPT ![j] = "done"]
    /\ DecCounter(1)
    /\ UNCHANGED <<loop, timerVars, awaiting>>

ToJsPromise(a) ==
    /\ loop = "open"
    /\ awaiting[a] = "new"
    /\ awaiting' = [awaiting EXCEPT ![a] = "pending"]
    /\ IncCounter(1)
    /\ UNCHANGED <<loop, timerVars, job>>

\* futureOnDoneCallback counts the awaitable off first and settles the Promise
\* next, which enqueues the jobs of its reactions.
FutureOnDoneCallback(a, reactions) ==
    /\ loop = "open" /\ ~Busy
    /\ awaiting[a] = "pending"
    /\ \A j \in reactions : job[j] = "new"
    /\ awaiting' = [awaiting EXCEPT ![a] = "done"]
    /\ job' = [j \in Jobs |-> IF j \in reactions THEN "queued" ELSE job[j]]
    /\ LockStep(1, Cardinality(reactions))
    /\ UNCHANGED <<loop, timerVars>>

-----------------------------------------------------------------------------
(***************************************************************************)
(* pm.wait() and the life of the loop.                                     *)
(***************************************************************************)

\* Event.wait() on a cleared event; on a set one it returns at once.
WaitForEventLoop(w) ==
    /\ loop = "open" /\ ~Busy
    /\ waiter[w] = "idle"
    /\ ~flag
    /\ waiter' = [waiter EXCEPT ![w] = "waiting"]
    /\ UNCHANGED <<loop, timerVars, job, awaiting, counter, flag>>

\* The task resumes; Event.wait() does not look at the event again.
WaitReturns(w) ==
    /\ loop = "open" /\ ~Busy
    /\ waiter[w] = "woken"
    /\ waiter' = [waiter EXCEPT ![w] = "idle"]
    /\ UNCHANGED <<loop, timerVars, job, awaiting, counter, flag>>

LoopOpen ==
    /\ loop = "closed"
    /\ loop' = "open"
    /\ UNCHANGED <<timerVars, job, awaiting, lockVars>>

\* asyncio.run() returns: the tasks that wait are cancelled, and loop.close()
\* empties the heap and the ready queue without a word to PythonMonkey.
LoopClose ==
    /\ loop = "open" /\ ~Busy
    /\ loop' = "closed"
    /\ place' = [t \in Timers |-> CASE place[t] = "heap"  -> "orphaned"
                                    [] place[t] = "ready" -> "swept"
                                    [] OTHER -> place[t]]
    /\ job' = [j \in Jobs |-> IF job[j] = "queued" THEN "lost" ELSE job[j]]
    /\ awaiting' = [a \in Awaitables |-> IF awaiting[a] = "pending" THEN "lost"
                                         ELSE awaiting[a]]
    /\ waiter' = [w \in Waiters |-> "idle"]
    /\ UNCHANGED <<cancelled, refed, counter, flag>>

-----------------------------------------------------------------------------
TimerCall(t) == \/ EnqueueWithDelay(t) \/ CancelByTimeoutId(t)
                \/ TimerAddRef(t)      \/ TimerRemoveRef(t)

TimerStep(t) == Expire(t) \/ Discard(t) \/ TimerJobStart(t) \/ TimerJobFinish(t)

JobStep(j) == EnqueuePromiseJob(j) \/ PromiseJobStart(j) \/ PromiseJobFinish(j)

AwaitableStep(a) == \/ ToJsPromise(a)
                    \/ \E reactions \in SUBSET Jobs : FutureOnDoneCallback(a, reactions)

Next == \/ \E t \in Timers : TimerCall(t) \/ TimerStep(t)
        \/ CancelAll
        \/ \E j \in Jobs : JobStep(j)
        \/ \E a \in Awaitables : AwaitableStep(a)
        \/ \E w \in Waiters : WaitForEventLoop(w) \/ WaitReturns(w)
        \/ LoopOpen
        \/ LoopClose

Spec == Init /\ [][Next]_vars

(***************************************************************************)
(* A callback that has started returns.  The ready queue is FIFO, so every *)
(* handle of it gets its turn; the heap is ordered by time, which passes,  *)
(* so every timer expires and every cancelled one is thrown away; the      *)
(* awaitables are the program's own and complete.  Each of these actions   *)
(* is disabled while another callback runs: hence strong fairness.         *)
(***************************************************************************)
Fairness ==
    /\ \A t \in Timers : /\ WF_vars(TimerJobFinish(t))
                         /\ SF_vars(TimerJobStart(t))
                         /\ SF_vars(Expire(t) \/ Discard(t))
    /\ \A j \in Jobs : WF_vars(PromiseJobFinish(j)) /\ SF_vars(PromiseJobStart(j))
    /\ \A a \in Awaitables :
           SF_vars(\E reactions \in SUBSET Jobs : FutureOnDoneCallback(a, reactions))
    /\ \A w \in Waiters : SF_vars(WaitReturns(w))

FairSpec == Spec /\ Fairness

-----------------------------------------------------------------------------
(***************************************************************************)
(* Properties                                                              *)
(***************************************************************************)

\* What pm.wait() has to wait for: timers that hold a reference, jobs not
\* finished, awaitables not done -- and those a closed loop has left behind.
Outstanding == {t \in Timers : refed[t]}
          \cup {j \in Jobs : job[j] \in {"queued", "running", "lost"}}
          \cup {a \in Awaitables : awaiting[a] \in {"pending", "lost"}}

\* Lock::_counter counts exactly the outstanding work over every path that
\* pairs an increment with a decrement (addRef/removeRef, enqueue/wrapper,
\* toJsPromise/futureOnDoneCallback), the event is set exactly when there is
\* none, and no task is left waiting on a set event.
CounterExact ==
    /\ counter = Cardinality(Outstanding)
    /\ flag <=> (Outstanding = {})
    /\ \A w \in Waiters : waiter[w] = "waiting" => ~flag

\* A cleared timer never starts again: neither when clearTimeout found it in
\* the ready queue, nor when clearInterval is called by the interval's own
\* function, whose wrapper would put a new handle in place of the cancelled one.
CancelledStaysDead ==
    [][\A t \in Timers : cancelled[t] =>
          /\ cancelled'[t]
          /\ place'[t] = "running" => place[t] = "running"]_vars

\* A timer the loop is done with holds no reference: cancel() leaves it to the
\* wrapper to "automatically unref at finish" (PyEventLoop.cc:244).
AutoUnref == \A t \in Timers : place[t] = "done" => ~refed[t]

\* pm.wait() keeps the promise of EventLoopShield.
Shield == INSTANCE EventLoopShield
          WITH Obligations <- Timers \cup Jobs \cup Awaitables,
               active <- Outstanding
ImplementsShield == Shield!Spec

\* Work that no callback of an open loop will count off any more.
Stranded == \/ \E t \in Timers : refed[t] /\ place[t] \in {"orphaned", "swept", "done"}
            \/ \E j \in Jobs : job[j] = "lost"
            \/ \E a \in Awaitables : awaiting[a] = "lost"

\* Nobody waits in pm.wait() for ever, unless an interval stays ref'ed or a
\* loop was closed over work that was still pending.
WaitEnds == \A w \in Waiters :
    []<>(waiter[w] # "waiting" \/ Stranded \/ \E t \in Intervals : refed[t])

-----------------------------------------------------------------------------
(***************************************************************************)
(* What the comments of the code say, and the code does not do.            *)
(***************************************************************************)

\* decCounter calls a counter below zero "something went wrong"
\* (PyEventLoop.hh:294).
CounterNeverNegative == counter >= 0

==============================================================================
