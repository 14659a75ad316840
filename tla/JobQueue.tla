------------------------------- MODULE JobQueue -------------------------------
(***************************************************************************)
(* JobQueue and PyEventLoop::Lock at the grain of the Python GIL.          *)
(*                                                                         *)
(* SpiderMonkey finishes some work, such as compiling WebAssembly, on a    *)
(* helper thread, and hands the rest to dispatchToEventLoop; a fresh       *)
(* thread sends it to the loop of the main thread.  That thread and the    *)
(* main thread both update the job counter and its asyncio.Event, and each *)
(* update is two steps: the atomic counter, then a call of Event.clear()   *)
(* or Event.set(), which is Python code, before which the GIL may move to  *)
(* the other thread.                                                       *)
(*                                                                         *)
(* An action is one stretch of a thread that holds the GIL.                *)
(***************************************************************************)
EXTENDS Integers, FiniteSets

CONSTANTS Dispatchables,  \* work that ends with JS::Dispatchable::run
          Jobs,           \* Promise jobs, enqueued on the main thread
          Waiters         \* Python tasks that call pm.wait()

Units == Dispatchables \cup Jobs

ASSUME UnitsAssumption ==
    /\ IsFiniteSet(Dispatchables) /\ IsFiniteSet(Jobs)
    /\ Dispatchables \cap Jobs = {}

VARIABLES loop,      \* is the loop of the main thread "open" or "closed"
          unit,      \* the phase of every unit of work
          mainCall,  \* the call of the Event the main thread is about to enter
          counter,   \* Lock::_counter
          flag,      \* the value of Lock::_queueIsEmpty
          waiter

jobVars == <<loop, unit, mainCall, counter, flag, waiter>>

(***************************************************************************)
(* "new", "offthread" (a helper thread computes), "dispatched" (a sending  *)
(* thread was started), "counted" (_counter++ done, clear() not yet),      *)
(* "cleared" (not in the ready queue yet), "queued", "running", "done";    *)
(* "dropped": no loop to send it to; "stale": counted, for a loop that has *)
(* closed since; "lost": counted, and never run.                           *)
(***************************************************************************)
Phases == {"new", "offthread", "dispatched", "counted", "stale", "cleared",
           "queued", "running", "done", "dropped", "lost"}

\* The types; decCounter never finds the counter at zero.
JobTypeOK ==
    /\ loop \in {"open", "closed"}
    /\ unit \in [Units -> Phases]
    /\ mainCall \in {"none", "clear", "set"}
    /\ counter \in Nat
    /\ flag \in BOOLEAN
    /\ waiter \in [Waiters -> {"idle", "waiting", "woken"}]

JobInit ==
    /\ loop = "open"
    /\ unit = [u \in Units |-> "new"]
    /\ mainCall = "none"
    /\ counter = 0
    /\ flag = TRUE
    /\ waiter = [w \in Waiters |-> "idle"]

\* The main thread runs bytecode or JS, not a call of the Event.
MainFree == mainCall = "none"
Busy == \E u \in Units : unit[u] = "running"

Become(u, phase) == unit' = [unit EXCEPT ![u] = phase]

-----------------------------------------------------------------------------
(***************************************************************************)
(* Off the main thread.                                                    *)
(***************************************************************************)

\* JS starts asynchronous work; nothing is counted.
StartOffThread(d) ==
    /\ MainFree
    /\ unit[d] = "new"
    /\ Become(d, "offthread")
    /\ UNCHANGED <<loop, mainCall, counter, flag, waiter>>

\* On the helper thread: start the thread that runs sendJobToMainLoop.
DispatchToEventLoop(d) ==
    /\ unit[d] = "offthread"
    /\ Become(d, "dispatched")
    /\ UNCHANGED <<loop, mainCall, counter, flag, waiter>>

\* Mutant of SendJobToMainLoop: schedules the work without counting it.
SendUncounted(d) ==
    /\ unit[d] = "dispatched"
    /\ Become(d, IF loop = "open" THEN "counted" ELSE "dropped")
    /\ UNCHANGED <<loop, mainCall, counter, flag, waiter>>

\* getMainLoop, then enqueue up to _counter++.
SendJobToMainLoop(d) ==
    /\ unit[d] = "dispatched"
    /\ \/ /\ loop = "open"
          /\ Become(d, "counted")
          /\ counter' = counter + 1
       \/ /\ loop = "closed"
          /\ Become(d, "dropped")
          /\ UNCHANGED counter
    /\ UNCHANGED <<loop, mainCall, flag, waiter>>

\* clear(); the sending thread holds the loop it found, be it closed by now.
SenderClears(d) ==
    /\ unit[d] \in {"counted", "stale"}
    /\ Become(d, IF unit[d] = "counted" THEN "cleared" ELSE "lost")
    /\ flag' = FALSE
    /\ UNCHANGED <<loop, mainCall, counter, waiter>>

\* call_soon_threadsafe, on a loop that is still open.
SenderSchedules(d) ==
    /\ unit[d] = "cleared"
    /\ Become(d, "queued")
    /\ UNCHANGED <<loop, mainCall, counter, flag, waiter>>

-----------------------------------------------------------------------------
(***************************************************************************)
(* On the main thread.                                                     *)
(***************************************************************************)

\* enqueuePromiseJob: enqueue, up to _counter++ ...
EnqueuePromiseJob(j) ==
    /\ loop = "open" /\ MainFree
    /\ unit[j] = "new"
    /\ Become(j, "counted")
    /\ counter' = counter + 1
    /\ mainCall' = "clear"
    /\ UNCHANGED <<loop, flag, waiter>>

\* ... then clear() and call_soon_threadsafe.
MainClears(j) ==
    /\ mainCall = "clear"
    /\ unit[j] = "counted"
    /\ Become(j, "queued")
    /\ flag' = FALSE
    /\ mainCall' = "none"
    /\ UNCHANGED <<loop, counter, waiter>>

RunUnit(u) ==
    /\ loop = "open" /\ MainFree /\ ~Busy
    /\ unit[u] = "queued"
    /\ Become(u, "running")
    /\ UNCHANGED <<loop, mainCall, counter, flag, waiter>>

\* Mutant of EventLoopJobWrapper: the event is set for any count but zero.
WrapperSetsLate(u) ==
    /\ MainFree
    /\ unit[u] = "running"
    /\ Become(u, "done")
    /\ counter' = counter - 1
    /\ mainCall' = IF counter' < 0 THEN "set" ELSE "none"
    /\ UNCHANGED <<loop, flag, waiter>>

\* eventLoopJobWrapper, after the job: decCounter up to its test of zero.
EventLoopJobWrapper(u) ==
    /\ MainFree
    /\ unit[u] = "running"
    /\ Become(u, "done")
    /\ counter' = counter - 1
    /\ mainCall' = IF counter' = 0 THEN "set" ELSE "none"
    /\ UNCHANGED <<loop, flag, waiter>>

\* Mutant of MainSets: the event is set, and nobody is woken.
MainSetsSilently ==
    /\ mainCall = "set"
    /\ mainCall' = "none"
    /\ flag' = TRUE
    /\ UNCHANGED <<loop, unit, counter, waiter>>

MainSets ==
    /\ mainCall = "set"
    /\ mainCall' = "none"
    /\ flag' = TRUE
    /\ waiter' = IF flag THEN waiter
                 ELSE [w \in Waiters |-> IF waiter[w] = "waiting" THEN "woken"
                                         ELSE waiter[w]]
    /\ UNCHANGED <<loop, unit, counter>>

WaitForEventLoop(w) ==
    /\ loop = "open" /\ MainFree /\ ~Busy
    /\ waiter[w] = "idle"
    /\ ~flag
    /\ waiter' = [waiter EXCEPT ![w] = "waiting"]
    /\ UNCHANGED <<loop, unit, mainCall, counter, flag>>

WaitReturns(w) ==
    /\ loop = "open" /\ MainFree /\ ~Busy
    /\ waiter[w] = "woken"
    /\ waiter' = [waiter EXCEPT ![w] = "idle"]
    /\ UNCHANGED <<loop, unit, mainCall, counter, flag>>

\* The loop closes over its ready queue, and call_soon_threadsafe on it raises
\* from now on.  Another loop may be started later.
LoopClose ==
    /\ loop = "open" /\ MainFree /\ ~Busy
    /\ loop' = "closed"
    /\ unit' = [u \in Units |-> CASE unit[u] \in {"queued", "cleared"} -> "lost"
                                 [] unit[u] = "counted" -> "stale"
                                 [] OTHER -> unit[u]]
    /\ waiter' = [w \in Waiters |-> "idle"]
    /\ UNCHANGED <<mainCall, counter, flag>>

LoopOpen ==
    /\ loop = "closed"
    /\ loop' = "open"
    /\ UNCHANGED <<unit, mainCall, counter, flag, waiter>>

-----------------------------------------------------------------------------
SenderStep(d) == \/ StartOffThread(d)    \/ DispatchToEventLoop(d)
                 \/ SendJobToMainLoop(d) \/ SenderClears(d) \/ SenderSchedules(d)

JobNext == \/ \E d \in Dispatchables : SenderStep(d)
           \/ \E j \in Jobs : EnqueuePromiseJob(j) \/ MainClears(j)
           \/ \E u \in Units : RunUnit(u) \/ EventLoopJobWrapper(u)
           \/ MainSets
           \/ \E w \in Waiters : WaitForEventLoop(w) \/ WaitReturns(w)
           \/ LoopClose \/ LoopOpen

JobSpec == JobInit /\ [][JobNext]_jobVars

(***************************************************************************)
(* Every thread gets the GIL again and again, so what it is about to do is *)
(* done; helper threads finish; the FIFO ready queue gives every queued    *)
(* unit and every woken task its turn between other callbacks.             *)
(***************************************************************************)
Fairness ==
    /\ \A d \in Dispatchables : /\ WF_jobVars(DispatchToEventLoop(d))
                                /\ WF_jobVars(SendJobToMainLoop(d))
                                /\ WF_jobVars(SenderClears(d))
                                /\ WF_jobVars(SenderSchedules(d))
    /\ \A j \in Jobs : WF_jobVars(MainClears(j))
    /\ \A u \in Units : SF_jobVars(RunUnit(u)) /\ SF_jobVars(EventLoopJobWrapper(u))
    /\ WF_jobVars(MainSets)
    /\ \A w \in Waiters : SF_jobVars(WaitReturns(w))

FairSpec == JobSpec /\ Fairness

-----------------------------------------------------------------------------
(***************************************************************************)
(* Properties                                                              *)
(***************************************************************************)

Counted == {u \in Units : unit[u] \in
               {"counted", "stale", "cleared", "queued", "running", "lost"}}

\* Whatever the threads interleave, a cleared event will be set again: work is
\* counted that will come back to decCounter, or the main thread is about to
\* call set().  A clear() that lands after the set() it should have preceded
\* would leave every pm.wait() waiting for nothing.
NoLostWakeup ==
    /\ counter = Cardinality(Counted)
    /\ ~flag => counter > 0 \/ mainCall = "set"
    /\ \A w \in Waiters : waiter[w] = "waiting" => ~flag

\* Nobody waits for ever, unless a loop was closed over counted work.
WaitEnds == \A w \in Waiters :
    []<>(waiter[w] # "waiting" \/ \E u \in Units : unit[u] = "lost")
===============================================================================
