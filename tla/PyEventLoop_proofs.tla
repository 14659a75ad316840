-------------------------- MODULE PyEventLoop_proofs --------------------------
(***************************************************************************)
(* Proofs about PyEventLoop, for every number of timers, jobs, awaitables  *)
(* and waiting tasks.  The exactness of the job counter is inductive once  *)
(* joined to TypeOK; every action that touches the lock discharges a set   *)
(* of obligations and adds another, which LockExact and LockShield treat   *)
(* once for all of them.                                                   *)
(***************************************************************************)
EXTENDS PyEventLoop, FiniteSetTheorems, TLAPS

\* What LockStep does to the types.
LEMMA LockTypes ==
    ASSUME TypeOK, NEW d \in Nat, NEW n \in Nat, LockStep(d, n)
    PROVE  /\ counter' \in Int
           /\ flag' \in BOOLEAN
           /\ waiter' \in [Waiters -> {"idle", "waiting", "woken"}]
<1>1. counter' \in Int
  BY DEF LockStep, TypeOK
<1>2. flag' \in BOOLEAN
  BY DEF LockStep, TypeOK
<1>3. CASE waiter' = waiter
  BY <1>1, <1>2, <1>3 DEF TypeOK
<1>4. CASE waiter' = [w \in Waiters |-> IF waiter[w] = "waiting" THEN "woken"
                                        ELSE waiter[w]]
  BY <1>1, <1>2, <1>4 DEF TypeOK
<1>. QED
  BY <1>3, <1>4 DEF LockStep

LEMMA FiniteKinds ==
    /\ \A S \in SUBSET Timers : IsFiniteSet(S) /\ Cardinality(S) \in Nat
    /\ \A S \in SUBSET Jobs : IsFiniteSet(S) /\ Cardinality(S) \in Nat
BY KindsAssumption, FS_Subset, FS_CardinalityType

LEMMA FiniteOutstanding == IsFiniteSet(Outstanding)
<1> DEFINE T == {t \in Timers : refed[t]}
           J == {j \in Jobs : job[j] \in {"queued", "running", "lost"}}
           A == {a \in Awaitables : awaiting[a] \in {"pending", "lost"}}
<1>1. IsFiniteSet(T) /\ IsFiniteSet(J) /\ IsFiniteSet(A)
  BY KindsAssumption, FS_Subset
<1>2. IsFiniteSet(T \cup J)
  BY <1>1, FS_Union
<1>3. IsFiniteSet((T \cup J) \cup A)
  BY <1>1, <1>2, FS_Union
<1>. QED
  BY <1>3 DEF Outstanding

\* removeRef over a set of timers is one LockStep.
LEMMA RemoveRefStep ==
    ASSUME TypeOK, NEW S \in SUBSET Timers, RemoveRef(S)
    PROVE  /\ LockStep(Cardinality({t \in S : refed[t]}), 0)
           /\ Cardinality({t \in S : refed[t]}) \in Nat
           /\ refed' \in [Timers -> BOOLEAN]
           /\ \A t \in Timers : refed'[t] = (refed[t] /\ t \notin S)
<1>1. Cardinality({t \in S : refed[t]}) \in Nat
  BY FiniteKinds
<1>. QED
  BY <1>1 DEF RemoveRef, DecCounter, TypeOK

-----------------------------------------------------------------------------
(***************************************************************************)
(* TypeOK is inductive.                                                    *)
(***************************************************************************)

LEMMA TypeTimerCall ==
    ASSUME TypeOK, NEW t \in Timers, TimerCall(t)
    PROVE  TypeOK'
<1>1. CASE EnqueueWithDelay(t)
  <2>1. LockStep(0, 1)
    BY <1>1 DEF EnqueueWithDelay, IncCounter
  <2>. QED
    BY <1>1, <2>1, LockTypes DEF EnqueueWithDelay, TypeOK, Places
<1>2. CASE CancelByTimeoutId(t)
  <2>1. RemoveRef({t}) /\ {t} \in SUBSET Timers
    BY <1>2 DEF CancelByTimeoutId
  <2>2. place[t] # "none"
    BY <1>2 DEF CancelByTimeoutId, Created
  <2>. QED
    BY <1>2, <2>1, <2>2, RemoveRefStep, LockTypes DEF CancelByTimeoutId, TypeOK
<1>3. CASE TimerAddRef(t)
  <2>1. PICK n \in {0, 1} : LockStep(0, n)
    BY <1>3 DEF TimerAddRef, IncCounter
  <2>2. place[t] # "none"
    BY <1>3 DEF TimerAddRef, Created
  <2>. QED
    BY <1>3, <2>1, <2>2, LockTypes DEF TimerAddRef, TypeOK
<1>4. CASE TimerRemoveRef(t)
  <2>1. RemoveRef({t}) /\ {t} \in SUBSET Timers
    BY <1>4 DEF TimerRemoveRef
  <2>. QED
    BY <1>4, <2>1, RemoveRefStep, LockTypes DEF TimerRemoveRef, TypeOK
<1>. QED
  BY <1>1, <1>2, <1>3, <1>4 DEF TimerCall

LEMMA TypeCancelAll ==
    ASSUME TypeOK, CancelAll
    PROVE  TypeOK'
<1>. DEFINE S == {t \in Created : ~FinishedOrCancelled(t)}
<1>1. RemoveRef(S) /\ S \in SUBSET Timers
  BY DEF CancelAll, Created
<1>2. \A t \in Timers : cancelled'[t] = (cancelled[t] \/ t \in Created)
  BY DEF CancelAll
<1>3. cancelled' \in [Timers -> BOOLEAN]
  BY DEF CancelAll, TypeOK
<1>. QED
  BY <1>1, <1>2, <1>3, RemoveRefStep, LockTypes DEF CancelAll, TypeOK, Created

LEMMA TypeTimerStep ==
    ASSUME TypeOK, NEW t \in Timers, TimerStep(t)
    PROVE  TypeOK'
<1>1. CASE Expire(t) \/ Discard(t) \/ TimerJobStart(t)
  BY <1>1 DEF Expire, Discard, TimerJobStart, TypeOK, Places, lockVars
<1>2. CASE TimerJobFinish(t)
  <2>1. /\ place' \in [Timers -> Places]
        /\ \A u \in Timers : place'[u] = "none" => place[u] = "none"
    BY <1>2 DEF TimerJobFinish, TypeOK, Places
  <2>2. CASE UNCHANGED <<refed, lockVars>>
    BY <1>2, <2>1, <2>2 DEF TimerJobFinish, TypeOK, lockVars
  <2>3. CASE RemoveRef({t})
    BY <1>2, <2>1, <2>3, RemoveRefStep, LockTypes DEF TimerJobFinish, TypeOK
  <2>. QED
    BY <1>2, <2>2, <2>3 DEF TimerJobFinish
<1>. QED
  BY <1>1, <1>2 DEF TimerStep

LEMMA TypeJobs ==
    ASSUME TypeOK
    PROVE  /\ \A j \in Jobs : JobStep(j) => TypeOK'
           /\ \A a \in Awaitables : AwaitableStep(a) => TypeOK'
<1>1. ASSUME NEW j \in Jobs, JobStep(j) PROVE TypeOK'
  <2>1. CASE EnqueuePromiseJob(j)
    BY <2>1, LockTypes DEF EnqueuePromiseJob, IncCounter, TypeOK, timerVars
  <2>2. CASE PromiseJobStart(j)
    BY <2>2 DEF PromiseJobStart, TypeOK, timerVars, lockVars
  <2>3. CASE PromiseJobFinish(j)
    BY <2>3, LockTypes DEF PromiseJobFinish, DecCounter, TypeOK, timerVars
  <2>. QED
    BY <1>1, <2>1, <2>2, <2>3 DEF JobStep
<1>2. ASSUME NEW a \in Awaitables, AwaitableStep(a) PROVE TypeOK'
  <2>1. CASE ToJsPromise(a)
    BY <2>1, LockTypes DEF ToJsPromise, IncCounter, TypeOK, timerVars
  <2>2. ASSUME NEW R \in SUBSET Jobs, FutureOnDoneCallback(a, R) PROVE TypeOK'
    <3>1. LockStep(1, Cardinality(R)) /\ Cardinality(R) \in Nat
      BY <2>2, FiniteKinds DEF FutureOnDoneCallback
    <3>. QED
      BY <2>2, <3>1, LockTypes DEF FutureOnDoneCallback, TypeOK, timerVars
  <2>. QED
    BY <1>2, <2>1, <2>2 DEF AwaitableStep
<1>. QED
  BY <1>1, <1>2

LEMMA TypeRest ==
    ASSUME TypeOK
    PROVE  /\ \A w \in Waiters : WaitForEventLoop(w) \/ WaitReturns(w) => TypeOK'
           /\ LoopOpen => TypeOK'
           /\ LoopClose => TypeOK'
<1>1. \A w \in Waiters : WaitForEventLoop(w) \/ WaitReturns(w) => TypeOK'
  BY DEF WaitForEventLoop, WaitReturns, TypeOK, timerVars
<1>2. LoopOpen => TypeOK'
  BY DEF LoopOpen, TypeOK, timerVars, lockVars
<1>3. ASSUME LoopClose PROVE TypeOK'
  <2>1. /\ place' \in [Timers -> Places]
        /\ \A t \in Timers : place'[t] = "none" => place[t] = "none"
    BY <1>3 DEF LoopClose, TypeOK, Places
  <2>2. /\ job' \in [Jobs -> {"new", "queued", "running", "done", "lost"}]
        /\ awaiting' \in [Awaitables -> {"new", "pending", "done", "lost"}]
        /\ waiter' \in [Waiters -> {"idle", "waiting", "woken"}]
    BY <1>3 DEF LoopClose, TypeOK
  <2>. QED
    BY <1>3, <2>1, <2>2 DEF LoopClose, TypeOK
<1>. QED
  BY <1>1, <1>2, <1>3

\* The state of PyEventLoop has its types, and an id that setTimeout has not
\* handed out yet has no state, whatever calls the program makes.
THEOREM TypeCorrect == Spec => []TypeOK
<1>1. Init => TypeOK
  BY DEF Init, TypeOK, Places
<1>2. TypeOK /\ [Next]_vars => TypeOK'
  <2>1. ASSUME TypeOK, Next PROVE TypeOK'
    BY <2>1, TypeTimerCall, TypeTimerStep, TypeCancelAll, TypeJobs, TypeRest DEF Next
  <2>2. TypeOK /\ UNCHANGED vars => TypeOK'
    BY DEF TypeOK, vars
  <2>. QED
    BY <2>1, <2>2
<1>. QED
  BY <1>1, <1>2, PTL DEF Spec

-----------------------------------------------------------------------------
(***************************************************************************)
(* Every step either moves obligations through the lock, or leaves the     *)
(* counter, the event and the outstanding work alone.                      *)
(***************************************************************************)

Work == Timers \cup Jobs \cup Awaitables

\* The obligations of done are counted off, then those of new are counted.
Moves(done, new) ==
    /\ done \subseteq Outstanding
    /\ new \subseteq Work \ Outstanding
    /\ IsFiniteSet(new)
    /\ LockStep(Cardinality(done), Cardinality(new))
    /\ Outstanding' = (Outstanding \ done) \cup new

Quiet ==
    /\ UNCHANGED <<counter, flag>>
    /\ Outstanding' = Outstanding
    /\ \/ UNCHANGED waiter
       \/ \E w \in Waiters : /\ waiter[w] = "idle" /\ ~flag
                             /\ waiter' = [waiter EXCEPT ![w] = "waiting"]
       \/ \E w \in Waiters : /\ waiter[w] = "woken"
                             /\ waiter' = [waiter EXCEPT ![w] = "idle"]
       \/ waiter' = [w \in Waiters |-> "idle"]

LEMMA OutstandingIsWork == Outstanding \subseteq Work
BY DEF Outstanding, Work

\* Counting off done and counting new keeps the counter exact.
LEMMA LockExact ==
    ASSUME TypeOK, CounterExact, NEW done, NEW new, Moves(done, new)
    PROVE  /\ CounterExact'
           /\ (counter \in 1..Cardinality(done)) <=> (done # {} /\ done = Outstanding)
<1>1. /\ IsFiniteSet(Outstanding)
      /\ IsFiniteSet(done)
      /\ IsFiniteSet(new)
      /\ IsFiniteSet(Outstanding \ done)
  BY FiniteOutstanding, FS_Subset, FS_Difference DEF Moves
<1>2. /\ Cardinality(Outstanding) \in Nat
      /\ Cardinality(done) \in Nat
      /\ Cardinality(new) \in Nat
      /\ Cardinality(Outstanding \ done) \in Nat
  BY <1>1, FS_CardinalityType
<1>3. /\ Cardinality(done) <= Cardinality(Outstanding)
      /\ Cardinality(done) = Cardinality(Outstanding) => done = Outstanding
  BY <1>1, FS_Subset DEF Moves
<1>4. Cardinality(Outstanding \ done) = Cardinality(Outstanding) - Cardinality(done)
  <2>1. Outstanding \cap done = done
    BY DEF Moves
  <2>. QED
    BY <1>1, <2>1, FS_Difference
<1>5. Cardinality(Outstanding') = Cardinality(Outstanding \ done) + Cardinality(new)
  <2>1. (Outstanding \ done) \cap new = {}
    BY DEF Moves
  <2>2. Cardinality((Outstanding \ done) \cup new) =
          Cardinality(Outstanding \ done) + Cardinality(new) - Cardinality({})
    BY <1>1, <2>1, FS_Union
  <2>. QED
    BY <1>2, <2>2, FS_EmptySet DEF Moves
<1>6. counter' = Cardinality(Outstanding')
  BY <1>2, <1>4, <1>5 DEF Moves, LockStep, CounterExact
<1>7. (counter \in 1..Cardinality(done)) <=> (done # {} /\ done = Outstanding)
  <2>1. done = {} <=> Cardinality(done) = 0
    BY <1>1, FS_EmptySet
  <2>. QED
    BY <1>2, <1>3, <2>1 DEF CounterExact
<1>8. new = {} <=> Cardinality(new) = 0
  BY <1>1, FS_EmptySet
<1>9. flag' <=> (Outstanding' = {})
  <2>1. CASE new # {}
    <3>0. Cardinality(new) > 0
      BY <1>2, <1>8, <2>1
    <3>1. ~flag'
      BY <3>0 DEF Moves, LockStep
    <3>2. Outstanding' # {}
      BY <2>1 DEF Moves
    <3>. QED
      BY <3>1, <3>2
  <2>2. CASE new = {}
    <3>0. ~(Cardinality(new) > 0)
      BY <1>2, <1>8, <2>2
    <3>1. flag' <=> (flag \/ counter \in 1..Cardinality(done))
      BY <3>0 DEF Moves, LockStep
    <3>2. Outstanding' = Outstanding \ done
      BY <2>2 DEF Moves
    <3>3. (Outstanding' = {}) <=> (Outstanding = {} \/ done = Outstanding)
      BY <3>2 DEF Moves
    <3>. QED
      BY <3>1, <3>3, <1>7 DEF CounterExact
  <2>. QED
    BY <2>1, <2>2
<1>10. ASSUME NEW w \in Waiters, waiter'[w] = "waiting" PROVE ~flag'
  <2>1. CASE counter \in 1..Cardinality(done) /\ ~flag
    BY <1>10, <2>1 DEF Moves, LockStep
  <2>2. CASE ~(counter \in 1..Cardinality(done) /\ ~flag)
    <3>1. waiter' = waiter
      BY <2>2 DEF Moves, LockStep
    <3>2. ~flag /\ Outstanding # {}
      BY <1>10, <3>1 DEF CounterExact
    <3>3. counter \notin 1..Cardinality(done)
      BY <2>2, <3>2
    <3>. QED
      BY <3>2, <3>3 DEF Moves, LockStep
  <2>. QED
    BY <2>1, <2>2
<1>. QED
  BY <1>6, <1>7, <1>9, <1>10 DEF CounterExact

LEMMA QuietExact ==
    ASSUME TypeOK, CounterExact, Quiet
    PROVE  CounterExact'
<1>1. ASSUME NEW w \in Waiters, waiter'[w] = "waiting" PROVE ~flag'
  BY <1>1 DEF Quiet, CounterExact, TypeOK
<1>. QED
  BY <1>1 DEF Quiet, CounterExact

-----------------------------------------------------------------------------
(***************************************************************************)
(* Which obligations each action moves, for programs that call             *)
(* timeout.ref() on timers of the heap only.                               *)
(***************************************************************************)

Effect == Quiet \/ \E done, new : Moves(done, new)

\* removeRef over S discharges the timers of S that hold a reference.
LEMMA RemoveRefMoves ==
    ASSUME TypeOK, NEW S \in SUBSET Timers, RemoveRef(S), UNCHANGED <<job, awaiting>>
    PROVE  Moves({t \in S : refed[t]}, {})
<1>. DEFINE D == {t \in S : refed[t]}
<1>1. LockStep(Cardinality(D), Cardinality({}))
  BY RemoveRefStep, FS_EmptySet
<1>2. \A t \in Timers : refed'[t] = (refed[t] /\ t \notin S)
  BY RemoveRefStep
<1>3. Outstanding' = (Outstanding \ D) \cup {}
  BY <1>2, KindsAssumption DEF Outstanding
<1>4. D \subseteq Outstanding
  BY DEF Outstanding
<1>. QED
  BY <1>1, <1>3, <1>4, FS_EmptySet DEF Moves

LEMMA EffectTimerCall ==
    ASSUME TypeOK, ~RefAnyTime, NEW t \in Timers, TimerCall(t)
    PROVE  Effect
<1>1. CASE refed'[t] /\ ~refed[t]
  <2>1. /\ LockStep(0, 1)
        /\ refed' = [refed EXCEPT ![t] = TRUE]
        /\ UNCHANGED <<job, awaiting>>
    <3>1. CASE EnqueueWithDelay(t)
      BY <3>1 DEF EnqueueWithDelay, IncCounter
    <3>2. CASE TimerAddRef(t)
      BY <3>2 DEF TimerAddRef, IncCounter
    <3>3. CASE CancelByTimeoutId(t) \/ TimerRemoveRef(t)
      <4>1. RemoveRef({t}) /\ {t} \in SUBSET Timers
        BY <3>3 DEF CancelByTimeoutId, TimerRemoveRef
      <4>. QED
        BY <1>1, <4>1, RemoveRefStep
    <3>. QED
      BY <3>1, <3>2, <3>3 DEF TimerCall
  <2>2. Outstanding' = (Outstanding \ {}) \cup {t}
    BY <2>1, KindsAssumption DEF Outstanding, TypeOK
  <2>3. t \notin Outstanding
    BY <1>1, KindsAssumption DEF Outstanding
  <2>4. Cardinality({}) = 0 /\ Cardinality({t}) = 1 /\ IsFiniteSet({t})
    BY FS_EmptySet, FS_Singleton
  <2>5. Moves({}, {t})
    BY <2>1, <2>2, <2>3, <2>4 DEF Moves, Work
  <2>. QED
    BY <2>5 DEF Effect
<1>2. CASE ~(refed'[t] /\ ~refed[t])
  <2>1. ~EnqueueWithDelay(t) /\ ~TimerAddRef(t)
    BY <1>2 DEF EnqueueWithDelay, TimerAddRef, TypeOK
  <2>2. RemoveRef({t}) /\ {t} \in SUBSET Timers /\ UNCHANGED <<job, awaiting>>
    BY <2>1 DEF TimerCall, CancelByTimeoutId, TimerRemoveRef
  <2>. QED
    BY <2>2, RemoveRefMoves DEF Effect
<1>. QED
  BY <1>1, <1>2

LEMMA EffectCancelAll ==
    ASSUME TypeOK, CancelAll
    PROVE  Effect
<1>. DEFINE S == {t \in Created : ~FinishedOrCancelled(t)}
<1>1. RemoveRef(S) /\ S \in SUBSET Timers /\ UNCHANGED <<job, awaiting>>
  BY DEF CancelAll, Created
<1>. QED
  BY <1>1, RemoveRefMoves DEF Effect

LEMMA EffectTimerStep ==
    ASSUME TypeOK, NEW t \in Timers, TimerStep(t)
    PROVE  Effect
<1>1. CASE UNCHANGED <<refed, job, awaiting, lockVars>>
  BY <1>1 DEF Effect, Quiet, Outstanding, lockVars
<1>2. CASE RemoveRef({t}) /\ UNCHANGED <<job, awaiting>>
  <2>1. {t} \in SUBSET Timers
    OBVIOUS
  <2>. QED
    BY <1>2, <2>1, RemoveRefMoves DEF Effect
<1>. QED
  BY <1>1, <1>2 DEF TimerStep, Expire, Discard, TimerJobStart, TimerJobFinish

LEMMA EffectJobStep ==
    ASSUME TypeOK, NEW j \in Jobs, JobStep(j)
    PROVE  Effect
<1>0. Cardinality({}) = 0 /\ Cardinality({j}) = 1 /\ IsFiniteSet({j}) /\ IsFiniteSet({})
  BY FS_EmptySet, FS_Singleton
<1>1. CASE EnqueuePromiseJob(j)
  <2>1. Outstanding' = (Outstanding \ {}) \cup {j}
    BY <1>1, KindsAssumption DEF EnqueuePromiseJob, Outstanding, TypeOK, timerVars
  <2>2. j \notin Outstanding
    BY <1>1, KindsAssumption DEF EnqueuePromiseJob, Outstanding
  <2>3. Moves({}, {j})
    BY <1>0, <1>1, <2>1, <2>2 DEF Moves, Work, EnqueuePromiseJob, IncCounter
  <2>. QED
    BY <2>3 DEF Effect
<1>2. CASE PromiseJobStart(j)
  <2>1. Outstanding' = Outstanding
    BY <1>2 DEF PromiseJobStart, Outstanding, TypeOK, timerVars
  <2>. QED
    BY <1>2, <2>1 DEF PromiseJobStart, Effect, Quiet, lockVars
<1>3. CASE PromiseJobFinish(j)
  <2>1. Outstanding' = (Outstanding \ {j}) \cup {}
    BY <1>3, KindsAssumption DEF PromiseJobFinish, Outstanding, TypeOK, timerVars
  <2>2. j \in Outstanding
    BY <1>3 DEF PromiseJobFinish, Outstanding
  <2>3. Moves({j}, {})
    BY <1>0, <1>3, <2>1, <2>2 DEF Moves, PromiseJobFinish, DecCounter
  <2>. QED
    BY <2>3 DEF Effect
<1>. QED
  BY <1>1, <1>2, <1>3 DEF JobStep

LEMMA EffectAwaitableStep ==
    ASSUME TypeOK, NEW a \in Awaitables, AwaitableStep(a)
    PROVE  Effect
<1>0. Cardinality({}) = 0 /\ Cardinality({a}) = 1 /\ IsFiniteSet({a}) /\ IsFiniteSet({})
  BY FS_EmptySet, FS_Singleton
<1>1. CASE ToJsPromise(a)
  <2>1. Outstanding' = (Outstanding \ {}) \cup {a}
    BY <1>1, KindsAssumption DEF ToJsPromise, Outstanding, TypeOK, timerVars
  <2>2. a \notin Outstanding
    BY <1>1, KindsAssumption DEF ToJsPromise, Outstanding
  <2>3. Moves({}, {a})
    BY <1>0, <1>1, <2>1, <2>2 DEF Moves, Work, ToJsPromise, IncCounter
  <2>. QED
    BY <2>3 DEF Effect
<1>2. ASSUME NEW R \in SUBSET Jobs, FutureOnDoneCallback(a, R) PROVE Effect
  <2>1. \A j \in Jobs : job'[j] = IF j \in R THEN "queued" ELSE job[j]
    BY <1>2 DEF FutureOnDoneCallback
  <2>2. /\ awaiting' = [awaiting EXCEPT ![a] = "done"]
        /\ UNCHANGED refed
    BY <1>2 DEF FutureOnDoneCallback, timerVars
  <2>3. Outstanding' = (Outstanding \ {a}) \cup R
    BY <2>1, <2>2, KindsAssumption DEF Outstanding, TypeOK
  <2>4. a \in Outstanding /\ R \subseteq Work \ Outstanding
    BY <1>2, KindsAssumption DEF FutureOnDoneCallback, Outstanding, Work
  <2>5. LockStep(Cardinality({a}), Cardinality(R)) /\ IsFiniteSet(R)
    BY <1>0, <1>2, FiniteKinds DEF FutureOnDoneCallback
  <2>6. Moves({a}, R)
    BY <2>3, <2>4, <2>5 DEF Moves
  <2>. QED
    BY <2>6 DEF Effect
<1>. QED
  BY <1>1, <1>2 DEF AwaitableStep

LEMMA EffectRest ==
    ASSUME TypeOK
    PROVE  /\ \A w \in Waiters : WaitForEventLoop(w) \/ WaitReturns(w) => Effect
           /\ LoopOpen => Effect
           /\ LoopClose => Effect
<1>1. ASSUME NEW w \in Waiters, WaitForEventLoop(w) \/ WaitReturns(w) PROVE Effect
  <2>1. UNCHANGED <<counter, flag, refed, job, awaiting>>
    BY <1>1 DEF WaitForEventLoop, WaitReturns, timerVars
  <2>2. Outstanding' = Outstanding
    BY <2>1 DEF Outstanding
  <2>. QED
    BY <1>1, <2>1, <2>2 DEF WaitForEventLoop, WaitReturns, Effect, Quiet
<1>2. LoopOpen => Effect
  BY DEF LoopOpen, Effect, Quiet, Outstanding, timerVars, lockVars
<1>3. ASSUME LoopClose PROVE Effect
  <2>1. /\ \A j \in Jobs : job'[j] = IF job[j] = "queued" THEN "lost" ELSE job[j]
        /\ \A a \in Awaitables :
              awaiting'[a] = IF awaiting[a] = "pending" THEN "lost" ELSE awaiting[a]
        /\ UNCHANGED refed
    BY <1>3 DEF LoopClose
  <2>2. Outstanding' = Outstanding
    BY <2>1 DEF Outstanding
  <2>. QED
    BY <1>3, <2>2 DEF LoopClose, Effect, Quiet
<1>. QED
  BY <1>1, <1>2, <1>3

LEMMA NextEffect ==
    ASSUME TypeOK, ~RefAnyTime, [Next]_vars
    PROVE  Effect
<1>1. CASE UNCHANGED vars
  BY <1>1 DEF vars, Effect, Quiet, Outstanding
<1>2. CASE Next
  BY <1>2, EffectTimerCall, EffectTimerStep, EffectCancelAll, EffectJobStep,
     EffectAwaitableStep, EffectRest DEF Next
<1>. QED
  BY <1>1, <1>2

-----------------------------------------------------------------------------
(***************************************************************************)
(* The theorems.                                                           *)
(***************************************************************************)

\* Provided timeout.ref() is only called on timers of the heap, the job counter
\* of PyEventLoop::Lock is the number of outstanding timers, jobs and
\* awaitables, its event is set exactly when there are none, and no task waits
\* on a set event -- whatever is cleared, stopped or unref'ed, and however many
\* loops open and close.
THEOREM CounterIsExact == ~RefAnyTime => (Spec => []CounterExact)
<1>. SUFFICES ASSUME ~RefAnyTime PROVE Spec => []CounterExact
  OBVIOUS
<1>1. Init => CounterExact
  <2>1. Init => Outstanding = {}
    BY DEF Init, Outstanding
  <2>. QED
    BY <2>1, FS_EmptySet DEF Init, CounterExact
<1>2. TypeOK /\ CounterExact /\ [Next]_vars => CounterExact'
  BY NextEffect, QuietExact, LockExact DEF Effect
<1>. QED
  BY <1>1, <1>2, TypeCorrect, PTL DEF Spec

\* Under the same proviso decCounter never takes the counter below zero.
COROLLARY CounterNeverBelowZero == ~RefAnyTime => (Spec => []CounterNeverNegative)
<1>1. CounterExact => CounterNeverNegative
  BY FiniteOutstanding, FS_CardinalityType DEF CounterExact, CounterNeverNegative
<1>. QED
  BY <1>1, CounterIsExact, PTL

\* A move through the lock is a step of the shield: it releases those that wait
\* exactly when it discharges everything there was.
LEMMA LockShield ==
    ASSUME TypeOK, CounterExact, NEW done, NEW new, Moves(done, new)
    PROVE  Shield!Next
<1>1. done \in SUBSET Work /\ new \in SUBSET Work
  BY OutstandingIsWork DEF Moves
<1>2. CASE done = {}
  <2>1. counter \notin 1..Cardinality(done)
    BY <1>2, LockExact
  <2>2. waiter' = waiter
    BY <2>1 DEF Moves, LockStep
  <2>3. Shield!Oblige(new)
    BY <1>2, <2>2 DEF Moves, Shield!Oblige
  <2>. QED
    BY <1>1, <2>3 DEF Shield!Next, Work
<1>3. CASE done # {}
  <2>1. (counter \in 1..Cardinality(done) /\ ~flag) <=> done = Outstanding
    BY <1>3, LockExact DEF CounterExact
  <2>2. waiter' = IF done = Outstanding THEN Shield!Released ELSE waiter
    BY <2>1 DEF Moves, LockStep, Shield!Released
  <2>3. Shield!Discharge(done, new)
    BY <1>3, <2>2 DEF Moves, Shield!Discharge
  <2>. QED
    BY <1>1, <2>3 DEF Shield!Next, Work
<1>. QED
  BY <1>2, <1>3

LEMMA QuietShield ==
    ASSUME TypeOK, CounterExact, Quiet
    PROVE  [Shield!Next]_(Shield!vars)
<1>1. CASE UNCHANGED waiter
  BY <1>1 DEF Quiet, Shield!vars
<1>2. ASSUME NEW w \in Waiters, waiter[w] = "idle", ~flag,
             waiter' = [waiter EXCEPT ![w] = "waiting"]
      PROVE  Shield!Next
  <2>1. Shield!Park(w)
    BY <1>2 DEF Quiet, CounterExact, Shield!Park
  <2>. QED
    BY <2>1 DEF Shield!Next
<1>3. ASSUME NEW w \in Waiters, waiter[w] = "woken",
             waiter' = [waiter EXCEPT ![w] = "idle"]
      PROVE  Shield!Next
  <2>1. Shield!Leave(w)
    BY <1>3 DEF Quiet, Shield!Leave
  <2>. QED
    BY <2>1 DEF Shield!Next
<1>4. CASE waiter' = [w \in Waiters |-> "idle"]
  BY <1>4 DEF Quiet, Shield!Next, Shield!Abandon
<1>. QED
  BY <1>1, <1>2, <1>3, <1>4 DEF Quiet

\* pm.wait() implements EventLoopShield: a task that waits is released by the
\* step that discharges everything outstanding before it, and by no other.
THEOREM ImplementsTheShield == ~RefAnyTime => (Spec => ImplementsShield)
<1>. SUFFICES ASSUME ~RefAnyTime PROVE Spec => Shield!Spec
  BY DEF ImplementsShield
<1>1. Init => Shield!Init
  BY DEF Init, Outstanding, Shield!Init
<1>2. TypeOK /\ CounterExact /\ [Next]_vars => [Shield!Next]_(Shield!vars)
  BY NextEffect, QuietShield, LockShield DEF Effect
<1>3. Spec => []CounterExact
  BY CounterIsExact
<1>. QED
  BY <1>1, <1>2, <1>3, TypeCorrect, PTL DEF Spec, Shield!Spec

\* The calls of one timer, and the steps of the loop, leave other timers alone.
LEMMA TimerFrame ==
    ASSUME TypeOK, NEW u \in Timers, TimerCall(u) \/ TimerStep(u),
           NEW t \in Timers, t # u
    PROVE  /\ place'[t] = place[t]
           /\ cancelled'[t] = cancelled[t]
           /\ refed'[t] = refed[t]
<1>1. CASE RemoveRef({u})
  <2>0. refed'[t] = (refed[t] /\ t \notin {u})
    BY <1>1 DEF RemoveRef
  <2>1. refed'[t] = refed[t]
    BY <2>0 DEF TypeOK
  <2>. QED
    BY <2>1 DEF TypeOK, TimerCall, TimerStep, EnqueueWithDelay, CancelByTimeoutId,
       TimerAddRef, TimerRemoveRef, Expire, Discard, TimerJobStart, TimerJobFinish
<1>2. CASE ~RemoveRef({u})
  BY <1>2 DEF TypeOK, TimerCall, TimerStep, EnqueueWithDelay, CancelByTimeoutId,
     TimerAddRef, TimerRemoveRef, Expire, Discard, TimerJobStart, TimerJobFinish
<1>. QED
  BY <1>1, <1>2

\* A step that is neither a call on a timer nor a step of one.
LEMMA OtherFrame ==
    ASSUME TypeOK, NEW t \in Timers,
           \/ CancelAll \/ LoopOpen \/ LoopClose
           \/ \E j \in Jobs : JobStep(j)
           \/ \E a \in Awaitables : AwaitableStep(a)
           \/ \E w \in Waiters : WaitForEventLoop(w) \/ WaitReturns(w)
           \/ UNCHANGED vars
    PROVE  /\ cancelled[t] => cancelled'[t]
           /\ place'[t] \in {place[t], "orphaned", "swept"}
           /\ refed'[t] => refed[t]
           /\ place'[t] = "orphaned" => place[t] \in {"heap", "orphaned"}
           /\ ~StopCalled => cancelled'[t] = cancelled[t]
<1>1. CASE CancelAll
  <2>1. RemoveRef({u \in Created : ~FinishedOrCancelled(u)})
    BY <1>1 DEF CancelAll
  <2>2. refed'[t] => refed[t]
    BY <2>1 DEF RemoveRef
  <2>3. /\ place' = place
        /\ StopCalled
        /\ cancelled'[t] = (cancelled[t] \/ t \in Created)
    BY <1>1 DEF CancelAll
  <2>. QED
    BY <2>2, <2>3
<1>2. CASE LoopClose
  <2>1. place'[t] = CASE place[t] = "heap" -> "orphaned"
                      [] place[t] = "ready" -> "swept"
                      [] OTHER -> place[t]
    BY <1>2 DEF LoopClose
  <2>. QED
    BY <1>2, <2>1 DEF LoopClose
<1>3. CASE UNCHANGED timerVars
  BY <1>3 DEF timerVars
<1>4. CASE UNCHANGED vars
  BY <1>3, <1>4 DEF vars, timerVars
<1>5. CASE \/ LoopOpen
           \/ \E j \in Jobs : JobStep(j)
           \/ \E a \in Awaitables : AwaitableStep(a)
           \/ \E w \in Waiters : WaitForEventLoop(w) \/ WaitReturns(w)
  BY <1>3, <1>5 DEF LoopOpen, JobStep, EnqueuePromiseJob, PromiseJobStart,
     PromiseJobFinish, AwaitableStep, ToJsPromise, FutureOnDoneCallback,
     WaitForEventLoop, WaitReturns
<1>. QED
  BY <1>1, <1>2, <1>4, <1>5

\* Once clearTimeout, clearInterval or pm.stop() has cancelled a timer, it stays
\* cancelled and its function is never called again, whatever the program does.
THEOREM ClearedTimersNeverRun == Spec => CancelledStaysDead
<1>. DEFINE Dead(t) == cancelled[t] => /\ cancelled'[t]
                                       /\ place'[t] = "running" => place[t] = "running"
<1>1. ASSUME TypeOK, [Next]_vars, NEW t \in Timers PROVE Dead(t)
  <2>1. CASE \E u \in Timers : u # t /\ (TimerCall(u) \/ TimerStep(u))
    BY <1>1, <2>1, TimerFrame
  <2>2. CASE TimerCall(t)
    BY <1>1, <2>2 DEF TypeOK, TimerCall, EnqueueWithDelay, CancelByTimeoutId, TimerAddRef,
       TimerRemoveRef
  <2>3. CASE TimerStep(t)
    BY <1>1, <2>3 DEF TypeOK, TimerStep, Expire, Discard, TimerJobStart, TimerJobFinish
  <2>4. CASE ~\E u \in Timers : TimerCall(u) \/ TimerStep(u)
    <3>1. /\ cancelled[t] => cancelled'[t]
          /\ place'[t] \in {place[t], "orphaned", "swept"}
      BY <1>1, <2>4, OtherFrame DEF Next
    <3>. QED
      BY <3>1
  <2>. QED
    BY <2>1, <2>2, <2>3, <2>4
<1>2. TypeOK /\ [Next]_vars => [\A t \in Timers : Dead(t)]_vars
  BY <1>1
<1>. QED
  BY <1>2, TypeCorrect, PTL DEF Spec, CancelledStaysDead

\* In a program that does not call pm.stop(), and calls timeout.ref() on timers
\* of the heap only, a timer the loop is done with holds no reference.
THEOREM DoneTimersAreUnrefed == ~RefAnyTime /\ ~StopCalled => (Spec => []AutoUnref)
<1>. SUFFICES ASSUME ~RefAnyTime, ~StopCalled PROVE Spec => []AutoUnref
  OBVIOUS
<1>. DEFINE Good(t) ==
         /\ cancelled[t] /\ place[t] \in {"heap", "ready", "orphaned"} => ~refed[t]
         /\ place[t] = "done" => ~refed[t]
            Inv == \A t \in Timers : Good(t)
<1>1. Init => Inv
  BY DEF Init
<1>2. ASSUME TypeOK, Inv, [Next]_vars, NEW t \in Timers PROVE Good(t)'
  <2>1. CASE \E u \in Timers : u # t /\ (TimerCall(u) \/ TimerStep(u))
    BY <1>2, <2>1, TimerFrame
  <2>2. CASE RemoveRef({t}) /\ (TimerCall(t) \/ TimerStep(t))
    <3>1. ~refed'[t]
      BY <2>2 DEF RemoveRef
    <3>. QED
      BY <3>1
  <2>3. CASE ~RemoveRef({t}) /\ TimerCall(t)
    BY <1>2, <2>3 DEF TypeOK, TimerCall, EnqueueWithDelay, CancelByTimeoutId,
       TimerAddRef, TimerRemoveRef, FinishedOrCancelled
  <2>4. CASE ~RemoveRef({t}) /\ TimerStep(t)
    BY <1>2, <2>4 DEF TypeOK, TimerStep, Expire, Discard, TimerJobStart, TimerJobFinish
  <2>5. CASE ~\E u \in Timers : TimerCall(u) \/ TimerStep(u)
    <3>1. /\ place'[t] \in {place[t], "orphaned", "swept"}
          /\ refed'[t] => refed[t]
          /\ place'[t] = "orphaned" => place[t] \in {"heap", "orphaned"}
          /\ cancelled'[t] = cancelled[t]
      BY <1>2, <2>5, OtherFrame DEF Next
    <3>. QED
      BY <1>2, <3>1
  <2>. QED
    BY <2>1, <2>2, <2>3, <2>4, <2>5
<1>3. TypeOK /\ Inv /\ [Next]_vars => Inv'
  BY <1>2
<1>4. Inv => AutoUnref
  BY DEF AutoUnref
<1>. QED
  BY <1>1, <1>3, <1>4, TypeCorrect, PTL DEF Spec
===============================================================================
