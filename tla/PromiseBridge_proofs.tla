--------------------------- MODULE PromiseBridge_proofs ---------------------------
(***************************************************************************)
(* The references that PromiseType.cc counts in its comments are exact, so *)
(* the raw pointer of a callback always leads to a live Future; and        *)
(* outcomes cross unchanged.  For any number of Promises and Futures.      *)
(* At the end, JobQueue, for any number of helper threads, Promise jobs    *)
(* and waiting tasks.                                                      *)
(***************************************************************************)
EXTENDS PromiseBridge, JobQueue, FiniteSetTheorems, TLAPS

\* What is new has no history, and what waits knows for whom.
Untouched ==
    /\ \A p \in Promises : promise[p] = "none" => doneCb[p] = "none"
    /\ \A p \in Promises : doneCb[p] # "none" =>
         outletOf[p] \in Futures /\ future[outletOf[p]] # "none"
    /\ \A f \in Futures : future[f] = "none" => f \notin held /\ reaction[f] = "none"
    /\ \A f \in Futures : reaction[f] # "none" => source[f] \in Promises

RefsInv == TypeOK /\ Untouched /\ RefsExact

\* The parts of a reference count are natural numbers.
LEMMA FiniteOutlets ==
    ASSUME NEW f \in Futures
    PROVE  IsFiniteSet(Outlets(f)) /\ Cardinality(Outlets(f)) \in Nat /\ Slot(f) \in 0..1
  <1>1. Outlets(f) \subseteq Promises
    BY DEF Outlets
  <1>2. IsFiniteSet(Outlets(f))
    BY <1>1, FS_Subset, BridgeAssumption
  <1> QED  BY <1>2, FS_CardinalityType DEF Slot

LEMMA InitRefs == Init => RefsInv
  <1> SUFFICES ASSUME Init PROVE RefsInv
    OBVIOUS
  <1>1. TypeOK
    BY DEF Init, TypeOK
  <1>2. Untouched
    BY DEF Init, Untouched
  <1>3. ASSUME NEW f \in Futures PROVE Outlets(f) = {}
    BY DEF Init, Outlets, Awaited
  <1>4. RefsExact
    BY <1>3, FS_EmptySet DEF Init, RefsExact, Slot, Awaited
  <1> QED  BY <1>1, <1>2, <1>4 DEF RefsInv


Held(f) == IF f \in held THEN 1 ELSE 0

\* A new Future has no reference yet.
LEMMA NewHasNone ==
    ASSUME RefsInv, NEW f \in NewFutures
    PROVE  /\ refs[f] = 0 /\ f \notin held /\ reaction[f] = "none"
           /\ Outlets(f) = {} /\ Slot(f) = 0
  <1>1. f \in Futures /\ f \notin held /\ reaction[f] = "none" /\ future[f] = "none"
    BY DEF RefsInv, Untouched, NewFutures
  <1>2. Outlets(f) = {}
    BY <1>1 DEF RefsInv, Untouched, Outlets, Awaited
  <1> QED  BY <1>1, <1>2, FS_EmptySet DEF RefsInv, RefsExact, Slot

\* What a step that leaves the callbacks of Futures alone, or only schedules
\* them, does to the Promises they wait for: nothing.
LEMMA OutletsStay ==
    ASSUME TypeOK, UNCHANGED outletOf,
           UNCHANGED doneCb \/ \E f \in Futures : ScheduleCallbacks(f)
    PROVE  /\ doneCb' \in [Promises -> {"none", "waiting", "queued", "ran"}]
           /\ \A p \in Promises : Awaited(p)' = Awaited(p) /\ (doneCb'[p] = "none" <=> doneCb[p] = "none")
           /\ \A f \in Futures : Outlets(f)' = Outlets(f)
  <1>1. CASE UNCHANGED doneCb
    BY <1>1 DEF TypeOK, Outlets, Awaited
  <1>2. CASE \E f \in Futures : ScheduleCallbacks(f)
    <2>1. PICK f \in Futures : ScheduleCallbacks(f)
      BY <1>2
    <2>2. doneCb' \in [Promises -> {"none", "waiting", "queued", "ran"}]
      BY <2>1 DEF ScheduleCallbacks, TypeOK
    <2>3. ASSUME NEW p \in Promises
          PROVE  Awaited(p)' = Awaited(p) /\ (doneCb'[p] = "none" <=> doneCb[p] = "none")
      BY <2>1 DEF ScheduleCallbacks, TypeOK, Awaited
    <2>4. ASSUME NEW g \in Futures PROVE Outlets(g)' = Outlets(g)
      BY <2>3 DEF Outlets
    <2> QED  BY <2>2, <2>3, <2>4
  <1> QED  BY <1>1, <1>2

\* A Promise begins to wait for `f`.
LEMMA OutletOpens ==
    ASSUME RefsInv, NEW f \in Futures, NEW p \in NewPromises, NEW cb \in {"waiting", "queued"},
           outletOf' = [outletOf EXCEPT ![p] = f], doneCb' = [doneCb EXCEPT ![p] = cb],
           rooted' = rooted \cup {p}
    PROVE  /\ Cardinality(Outlets(f))' = Cardinality(Outlets(f)) + 1
           /\ \A g \in Futures \ {f} : Outlets(g)' = Outlets(g)
           /\ rooted' = {q \in Promises : Awaited(q)'}
  <1>1. p \in Promises /\ doneCb[p] = "none"
    BY DEF NewPromises, RefsInv, Untouched
  <1>2. p \notin Outlets(f) /\ Outlets(f)' = Outlets(f) \cup {p}
    BY <1>1 DEF Outlets, Awaited, RefsInv, TypeOK
  <1>3. \A g \in Futures \ {f} : Outlets(g)' = Outlets(g)
    BY <1>1 DEF Outlets, Awaited, RefsInv, TypeOK
  <1>4. rooted' = {q \in Promises : Awaited(q)'}
    BY <1>1 DEF RefsInv, RefsExact, Awaited, TypeOK
  <1> QED  BY <1>2, <1>3, <1>4, FiniteOutlets, FS_AddElement

\* The Promise `p` has been settled by its Future.
LEMMA OutletCloses ==
    ASSUME RefsInv, NEW p \in Promises, NEW f \in Futures, f = outletOf[p], doneCb[p] = "queued",
           UNCHANGED outletOf, doneCb' = [doneCb EXCEPT ![p] = "ran"], rooted' = rooted \ {p}
    PROVE  /\ future[f] # "none"
           /\ Cardinality(Outlets(f))' = Cardinality(Outlets(f)) - 1
           /\ Cardinality(Outlets(f)) > 0
           /\ \A g \in Futures \ {f} : Outlets(g)' = Outlets(g)
           /\ rooted' = {q \in Promises : Awaited(q)'}
  <1>1. future[f] # "none"
    BY DEF RefsInv, Untouched
  <1>2. p \in Outlets(f) /\ Outlets(f)' = Outlets(f) \ {p}
    BY <1>1 DEF Outlets, Awaited, RefsInv, TypeOK
  <1>3. \A g \in Futures \ {f} : Outlets(g)' = Outlets(g)
    BY <1>1 DEF Outlets, Awaited, RefsInv, TypeOK
  <1>4. rooted' = {q \in Promises : Awaited(q)'}
    BY DEF RefsInv, RefsExact, Awaited, TypeOK
  <1>5. /\ Cardinality(Outlets(f))' = Cardinality(Outlets(f)) - 1
        /\ Cardinality(Outlets(f)) # 0
    <2>1. IsFiniteSet(Outlets(f)) /\ Cardinality(Outlets(f)) \in Nat
      BY FiniteOutlets
    <2>2. Cardinality(Outlets(f) \ {p}) = Cardinality(Outlets(f)) - 1
      BY <1>2, <2>1, FS_RemoveElement
    <2>3. Cardinality(Outlets(f)) # 0
      BY <1>2, <2>1, FS_EmptySet
    <2> QED  BY <1>2, <2>2, <2>3
  <1> QED  BY <1>1, <1>3, <1>4, <1>5, FiniteOutlets

\* Settling a Promise: the Future of the tracker is born with the one reference of
\* its slot, and no other count changes but those in `drop`.
LEMMA SettleKeepsBalance ==
    ASSUME RefsInv, NEW p \in Promises, NEW how \in Settled, NEW m \in BOOLEAN,
           NEW new \in Tracker(p, how, m), NEW drop \in SUBSET (Futures \ NewFutures),
           Settle(p, how, new, drop)
    PROVE  /\ promise' \in [Promises -> {"none", "pending"} \cup Settled]
           /\ future' \in [Futures -> {"none", "pending"} \cup Done]
           /\ source' \in [Futures -> Promises \cup {NoPromise}]
           /\ reaction' \in [Futures -> {"none", "attached", "queued", "ran"}]
           /\ refs' \in [Futures -> Int]
           /\ \A f \in Futures : refs'[f] - Slot(f)' = refs[f] - Slot(f) - (IF f \in drop THEN 1 ELSE 0)
           /\ \A f \in Futures : (future[f] # "none" => future'[f] # "none")
                                 /\ (future'[f] = "none" => reaction'[f] = reaction[f])
           /\ \A q \in Promises : promise'[q] = "none" => promise[q] = "none"
  <1>1. new \subseteq NewFutures
    BY DEF Tracker
  <1>2. ASSUME NEW f \in new PROVE refs[f] = 0 /\ Slot(f) = 0 /\ f \notin drop
    BY <1>1, NewHasNone
  <1>3. ASSUME NEW f \in Futures
        PROVE  refs'[f] - Slot(f)' = refs[f] - Slot(f) - (IF f \in drop THEN 1 ELSE 0)
    BY <1>2 DEF Settle, Slot, NewFutureRefs, RefsInv, TypeOK
  <1>4. /\ promise' \in [Promises -> {"none", "pending"} \cup Settled]
        /\ \A q \in Promises : promise'[q] = "none" => promise[q] = "none"
    BY DEF Settle, RefsInv, TypeOK, Settled
  <1>5. /\ future' \in [Futures -> {"none", "pending"} \cup Done]
        /\ source' \in [Futures -> Promises \cup {NoPromise}]
        /\ reaction' \in [Futures -> {"none", "attached", "queued", "ran"}]
        /\ refs' \in [Futures -> Int]
    BY DEF Settle, NewFutureRefs, RefsInv, TypeOK
  <1>6. ASSUME NEW f \in Futures
        PROVE  /\ future[f] # "none" => future'[f] # "none"
               /\ future'[f] = "none" => reaction'[f] = reaction[f]
    BY DEF Settle, RefsInv, TypeOK, Untouched
  <1> QED  BY <1>3, <1>4, <1>5, <1>6


LEMMA getPyObjectKeepsRefs ==
    ASSUME RefsInv, NEW p \in Promises, NEW f \in Futures, getPyObject(p, f)
    PROVE  RefsInv'
  <1> USE DEF getPyObject, RefsInv
  <1>1. refs[f] = 0 /\ f \notin held /\ Slot(f) = 0 /\ Outlets(f) = {} /\ f \in NewFutures
    BY NewHasNone
  <1>2. /\ \A g \in Futures : Outlets(g)' = Outlets(g)
        /\ \A q \in Promises : Awaited(q)' = Awaited(q)
    BY OutletsStay DEF jsVars
  <1>3. TypeOK'
    BY DEF TypeOK, jsVars, NewFutureRefs, Settled
  <1>4. Untouched'
    BY <1>1 DEF TypeOK, Untouched, jsVars
  <1>5. ASSUME NEW g \in Futures
        PROVE  refs'[g] = Held(g)' + Slot(g)' + Cardinality(Outlets(g))'
    <2>1. CASE g = f
      <3>1. refs'[f] = 2 /\ Held(f)' = 1 /\ Slot(f)' = 1
        BY DEF TypeOK, NewFutureRefs, Held, Slot
      <3>2. Cardinality(Outlets(f))' = 0
        BY <1>1, <1>2, FS_EmptySet
      <3> QED  BY <2>1, <3>1, <3>2
    <2>2. CASE g # f
      <3>1. refs'[g] = refs[g] /\ Held(g)' = Held(g) /\ Slot(g)' = Slot(g)
        BY <2>2 DEF TypeOK, Held, Slot
      <3> QED  BY <3>1, <1>2 DEF RefsExact, Held
    <2> QED  BY <2>1, <2>2
  <1>6. RefsExact'
    BY <1>2, <1>5 DEF RefsExact, Held, jsVars
  <1> QED  BY <1>3, <1>4, <1>6

LEMMA ImportKeepsRefs ==
    ASSUME RefsInv, NEW p \in Promises, NEW f \in Futures,
           toJsPromise(f, p) \/ toJsPromiseOfCoroutine(f, p)
    PROVE  RefsInv'
  <1> USE DEF RefsInv
  <1>1. PICK cb \in {"waiting", "queued"} : doneCb' = [doneCb EXCEPT ![p] = cb]
    BY DEF toJsPromise, toJsPromiseOfCoroutine
  <1>2. /\ p \in NewPromises /\ outletOf' = [outletOf EXCEPT ![p] = f]
        /\ rooted' = rooted \cup {p} /\ UNCHANGED <<held, source, reaction>>
    BY DEF toJsPromise, toJsPromiseOfCoroutine
  <1>3. /\ Cardinality(Outlets(f))' = Cardinality(Outlets(f)) + 1
        /\ \A g \in Futures \ {f} : Outlets(g)' = Outlets(g)
        /\ rooted' = {q \in Promises : Awaited(q)'}
    BY <1>1, <1>2, OutletOpens
  <1>4. refs' = [refs EXCEPT ![f] = @ + 1]
    <2>1. CASE toJsPromise(f, p)
      BY <2>1 DEF toJsPromise, SameFutureRefs, TypeOK
    <2>2. CASE toJsPromiseOfCoroutine(f, p)
      <3>1. f \in NewFutures /\ refs' = [refs EXCEPT ![f] = 1]
        BY <2>2 DEF toJsPromiseOfCoroutine, NewTaskRefs
      <3>2. refs[f] = 0
        BY <3>1, NewHasNone
      <3> QED  BY <3>1, <3>2 DEF TypeOK
    <2> QED  BY <2>1, <2>2
  <1>5. /\ future' \in [Futures -> {"none", "pending"} \cup Done]
        /\ \A g \in Futures : future'[g] = future[g] \/ (g = f /\ future'[f] = "pending")
        /\ future'[f] # "none"
    BY DEF toJsPromise, toJsPromiseOfCoroutine, TypeOK, Untouched
  <1>6. TypeOK'
    <2>1. promise' \in [Promises -> {"none", "pending"} \cup Settled]
      BY DEF TypeOK, toJsPromise, toJsPromiseOfCoroutine
    <2>2. UNCHANGED <<caught, muted, retrieved, handler, reported, late>>
      BY DEF toJsPromise, toJsPromiseOfCoroutine
    <2>3. /\ outletOf' \in [Promises -> Futures \cup {NoFuture}]
          /\ doneCb' \in [Promises -> {"none", "waiting", "queued", "ran"}]
          /\ refs' \in [Futures -> Nat] /\ rooted' \subseteq Promises
      BY <1>1, <1>2, <1>4 DEF TypeOK, NewPromises
    <2> QED  BY <1>2, <1>5, <2>1, <2>2, <2>3 DEF TypeOK
  <1>7. Untouched'
    <2>1. promise' = [promise EXCEPT ![p] = "pending"]
      BY DEF toJsPromise, toJsPromiseOfCoroutine
    <2> QED  BY <1>1, <1>2, <1>5, <2>1 DEF TypeOK, Untouched
  <1>8. ASSUME NEW g \in Futures
        PROVE  refs'[g] = Held(g)' + Slot(g)' + Cardinality(Outlets(g))'
    <2>1. Held(g)' = Held(g) /\ Slot(g)' = Slot(g)
      BY <1>2 DEF Held, Slot
    <2>2. refs'[g] = IF g = f THEN refs[g] + 1 ELSE refs[g]
      BY <1>4 DEF TypeOK
    <2> QED  BY <2>1, <2>2, <1>3, FiniteOutlets DEF RefsExact, Held
  <1> QED  BY <1>3, <1>6, <1>7, <1>8 DEF RefsExact, Held

LEMMA onResolvedCbKeepsRefs ==
    ASSUME RefsInv, NEW f \in Futures, onResolvedCb(f)
    PROVE  RefsInv'
  <1> USE DEF RefsInv, onResolvedCb
  <1>1. /\ \A g \in Futures : Outlets(g)' = Outlets(g)
        /\ \A q \in Promises : Awaited(q)' = Awaited(q) /\ (doneCb'[q] = "none" <=> doneCb[q] = "none")
        /\ doneCb' \in [Promises -> {"none", "waiting", "queued", "ran"}]
    BY OutletsStay DEF SetOutcome
  <1>2. /\ future' \in [Futures -> {"none", "pending"} \cup Done]
        /\ late' \subseteq Futures
        /\ \A g \in Futures : future'[g] = "none" <=> future[g] = "none"
    BY DEF SetOutcome, TypeOK, Outcome, Done
  <1>3. future[f] # "none"
    BY DEF Untouched
  <1>4. ASSUME NEW g \in Futures
        PROVE  refs'[g] = Held(g)' + Slot(g)' + Cardinality(Outlets(g))'
    <2>1. refs'[g] = IF g = f THEN refs[g] - 1 ELSE refs[g]
      BY DEF TypeOK
    <2>2. Held(g)' = Held(g) /\ Slot(g)' = (IF g = f THEN Slot(g) - 1 ELSE Slot(g))
      BY DEF Held, Slot, TypeOK
    <2> QED  BY <1>1, <2>1, <2>2, FiniteOutlets DEF RefsExact, Held
  <1>5. refs' \in [Futures -> Nat]
    <2>1. \A g \in Futures : Held(g)' \in 0..1 /\ Slot(g)' \in 0..1
      BY DEF Held, Slot
    <2>2. \A g \in Futures : refs'[g] \in Nat
      BY <1>1, <1>4, <2>1, FiniteOutlets
    <2> QED  BY <2>2 DEF TypeOK
  <1>6. TypeOK'
    <2>1. reported' \subseteq Promises
      <3>1. source[f] \in Promises
        BY DEF Untouched
      <3> QED  BY <3>1 DEF TypeOK
    <2> QED  BY <1>1, <1>2, <1>5, <2>1 DEF TypeOK
  <1>7. Untouched'
    BY <1>1, <1>2, <1>3 DEF Untouched, TypeOK
  <1>8. RefsExact'
    BY <1>1, <1>4 DEF RefsExact, Held
  <1> QED  BY <1>6, <1>7, <1>8

LEMMA futureOnDoneCallbackKeepsRefs ==
    ASSUME RefsInv, NEW p \in Promises, futureOnDoneCallback(p)
    PROVE  RefsInv'
  <1> USE DEF RefsInv
  <1>0. PICK f \in Futures : f = outletOf[p]
    BY DEF futureOnDoneCallback, Untouched
  <1>1. /\ f \in Futures \ NewFutures
        /\ Cardinality(Outlets(f))' = Cardinality(Outlets(f)) - 1
        /\ \A g \in Futures \ {f} : Outlets(g)' = Outlets(g)
        /\ rooted' = {q \in Promises : Awaited(q)'}
    BY <1>0, OutletCloses DEF futureOnDoneCallback, NewFutures
  <1>2. PICK new \in Tracker(p, Verdict(f), FALSE) : Settle(p, Verdict(f), new, {f})
    BY <1>0 DEF futureOnDoneCallback
  <1>3. Verdict(f) \in Settled
    BY DEF Verdict, Settled
  <1>4. /\ promise' \in [Promises -> {"none", "pending"} \cup Settled]
        /\ future' \in [Futures -> {"none", "pending"} \cup Done]
        /\ source' \in [Futures -> Promises \cup {NoPromise}]
        /\ reaction' \in [Futures -> {"none", "attached", "queued", "ran"}]
        /\ refs' \in [Futures -> Int]
        /\ \A g \in Futures : refs'[g] - Slot(g)' = refs[g] - Slot(g) - (IF g \in {f} THEN 1 ELSE 0)
        /\ \A g \in Futures : (future[g] # "none" => future'[g] # "none")
                              /\ (future'[g] = "none" => reaction'[g] = reaction[g])
        /\ \A q \in Promises : promise'[q] = "none" => promise[q] = "none"
    BY <1>1, <1>2, <1>3, SettleKeepsBalance
  <1>5. ASSUME NEW g \in Futures
        PROVE  /\ refs'[g] = Held(g)' + Slot(g)' + Cardinality(Outlets(g))'
               /\ refs'[g] \in Nat
    <2>1. Held(g)' = Held(g) /\ Held(g) \in 0..1 /\ Slot(g)' \in 0..1 /\ Slot(g) \in 0..1
      BY DEF Held, Slot, futureOnDoneCallback
    <2>2. refs[g] = Held(g) + Slot(g) + Cardinality(Outlets(g))
      BY DEF RefsExact, Held
    <2>3. Cardinality(Outlets(g)) \in Nat /\ refs[g] \in Int /\ refs'[g] \in Int
      BY <1>4, FiniteOutlets DEF TypeOK
    <2>4. Cardinality(Outlets(g))' = Cardinality(Outlets(g)) - (IF g \in {f} THEN 1 ELSE 0)
      <3>1. CASE g = f
        BY <1>1, <3>1
      <3>2. CASE g # f
        BY <1>1, <2>3, <3>2
      <3> QED  BY <3>1, <3>2
    <2>5. refs'[g] - Slot(g)' = refs[g] - Slot(g) - (IF g \in {f} THEN 1 ELSE 0)
      BY <1>4
    <2>6. g \in {f} => Cardinality(Outlets(g)) > 0
      BY <1>0, OutletCloses DEF futureOnDoneCallback
    <2> QED  BY <2>1, <2>2, <2>3, <2>4, <2>5, <2>6
  <1>6. TypeOK'
    <2>1. refs' \in [Futures -> Nat]
      BY <1>4, <1>5
    <2>2. /\ doneCb' \in [Promises -> {"none", "waiting", "queued", "ran"}]
          /\ rooted' \subseteq Promises /\ retrieved' \subseteq Futures
          /\ handler' \in {"default", "simple", "own"}
      BY <1>0, <1>1, <1>2 DEF futureOnDoneCallback, TypeOK, Settle
    <2> QED  BY <1>4, <2>1, <2>2 DEF futureOnDoneCallback, TypeOK
  <1>7. Untouched'
    <2>1. \A q \in Promises : promise'[q] = "none" => doneCb'[q] = "none"
      BY <1>2, <1>3, <1>4 DEF futureOnDoneCallback, Untouched, TypeOK, Settle, Settled
    <2>2. \A q \in Promises : doneCb'[q] # "none" =>
            outletOf'[q] \in Futures /\ future'[outletOf'[q]] # "none"
      BY <1>4 DEF futureOnDoneCallback, Untouched, TypeOK
    <2>3. \A g \in Futures : future'[g] = "none" => g \notin held' /\ reaction'[g] = "none"
      BY <1>4 DEF futureOnDoneCallback, Untouched
    <2>4. \A g \in Futures : reaction'[g] # "none" => source'[g] \in Promises
      BY <1>2 DEF Untouched, Settle, TypeOK
    <2> QED  BY <2>1, <2>2, <2>3, <2>4 DEF Untouched
  <1>8. RefsExact'
    BY <1>1, <1>5 DEF RefsExact, Held
  <1> QED  BY <1>6, <1>7, <1>8

LEMMA SettleOwnKeepsRefs ==
    ASSUME RefsInv, NEW p \in Promises, NEW how \in Settled, NEW m \in BOOLEAN, SettleOwn(p, how, m)
    PROVE  RefsInv'
  <1> USE DEF RefsInv
  <1>1. /\ \A g \in Futures : Outlets(g)' = Outlets(g)
        /\ \A q \in Promises : Awaited(q)' = Awaited(q)
    BY OutletsStay DEF SettleOwn
  <1>2. PICK new \in Tracker(p, how, m) : Settle(p, how, new, {})
    BY DEF SettleOwn
  <1>3. /\ promise' \in [Promises -> {"none", "pending"} \cup Settled]
        /\ future' \in [Futures -> {"none", "pending"} \cup Done]
        /\ source' \in [Futures -> Promises \cup {NoPromise}]
        /\ reaction' \in [Futures -> {"none", "attached", "queued", "ran"}]
        /\ refs' \in [Futures -> Int]
        /\ \A g \in Futures : refs'[g] - Slot(g)' = refs[g] - Slot(g) - (IF g \in {} THEN 1 ELSE 0)
        /\ \A g \in Futures : (future[g] # "none" => future'[g] # "none")
                              /\ (future'[g] = "none" => reaction'[g] = reaction[g])
        /\ \A q \in Promises : promise'[q] = "none" => promise[q] = "none"
    BY <1>2, SettleKeepsBalance
  <1>4. ASSUME NEW g \in Futures
        PROVE  /\ refs'[g] = Held(g)' + Slot(g)' + Cardinality(Outlets(g))'
               /\ refs'[g] \in Nat
    <2>1. Held(g)' = Held(g) /\ Held(g) \in 0..1 /\ Slot(g)' \in 0..1 /\ Slot(g) \in 0..1
      BY DEF Held, Slot, SettleOwn
    <2>2. refs[g] = Held(g) + Slot(g) + Cardinality(Outlets(g))
      BY DEF RefsExact, Held
    <2>3. Cardinality(Outlets(g)) \in Nat /\ refs[g] \in Int /\ refs'[g] \in Int
      BY <1>3, FiniteOutlets DEF TypeOK
    <2> QED  BY <1>1, <1>3, <2>1, <2>2, <2>3
  <1>5. TypeOK'
    <2>1. refs' \in [Futures -> Nat]
      BY <1>3, <1>4
    <2>2. muted' \subseteq Promises /\ handler' \in {"default", "simple", "own"}
      BY <1>2 DEF SettleOwn, TypeOK, Settle
    <2> QED  BY <1>3, <2>1, <2>2 DEF SettleOwn, TypeOK
  <1>6. Untouched'
    <2>1. \A g \in Futures : reaction'[g] # "none" => source'[g] \in Promises
      BY <1>2 DEF Untouched, Settle, TypeOK
    <2> QED  BY <1>3, <2>1 DEF SettleOwn, Untouched
  <1>7. RefsExact'
    BY <1>1, <1>4 DEF RefsExact, Held, SettleOwn
  <1> QED  BY <1>5, <1>6, <1>7

\* The calls of the programs that touch no callback.
LEMMA ProgramKeepsRefs ==
    ASSUME RefsInv,
           \/ \E p \in Promises : NewPromise(p) \/ Catch(p)
           \/ \E f \in Futures : CreateFuture(f) \/ Cancel(f) \/ Retrieve(f) \/ Release(f)
           \/ \E f \in Futures, how \in Done : Finish(f, how)
           \/ \E h \in {"default", "own"} : SetExceptionHandler(h)
           \/ UNCHANGED vars
    PROVE  RefsInv'
  <1> USE DEF RefsInv
  <1>1. ASSUME UNCHANGED <<rooted, outletOf, doneCb, future, refs, held, source, reaction>>,
               TypeOK',
               \A p \in Promises : promise'[p] = "none" => promise[p] = "none"
        PROVE  RefsInv'
    <2>1. /\ \A g \in Futures : Outlets(g)' = Outlets(g)
          /\ \A q \in Promises : Awaited(q)' = Awaited(q)
      BY <1>1, OutletsStay
    <2> QED  BY <1>1, <2>1 DEF RefsExact, Untouched, Slot
  <1>2. CASE \E p \in Promises : NewPromise(p) \/ Catch(p)
    <2>1. UNCHANGED <<rooted, outletOf, doneCb, future, refs, held, source, reaction>>
      BY <1>2 DEF NewPromise, Catch, pyVars
    <2>2. TypeOK' /\ \A p \in Promises : promise'[p] = "none" => promise[p] = "none"
      BY <1>2 DEF NewPromise, Catch, pyVars, TypeOK
    <2> QED  BY <1>1, <2>1, <2>2
  <1>3. CASE (\E f \in Futures : Retrieve(f)) \/ (\E h \in {"default", "own"} : SetExceptionHandler(h))
             \/ UNCHANGED vars
    <2>1. UNCHANGED <<promise, rooted, outletOf, doneCb, future, refs, held, source, reaction>>
      BY <1>3 DEF Retrieve, SetExceptionHandler, vars, jsVars, pyVars
    <2>2. TypeOK'
      BY <1>3 DEF Retrieve, SetExceptionHandler, vars, jsVars, pyVars, TypeOK
    <2> QED  BY <1>1, <2>1, <2>2
  <1>4. ASSUME NEW f \in Futures, NEW how \in Done, Complete(f, how)
        PROVE  RefsInv'
    <2>1. /\ \A g \in Futures : Outlets(g)' = Outlets(g)
          /\ \A q \in Promises : Awaited(q)' = Awaited(q) /\ (doneCb'[q] = "none" <=> doneCb[q] = "none")
          /\ doneCb' \in [Promises -> {"none", "waiting", "queued", "ran"}]
      BY <1>4, OutletsStay DEF Complete
    <2>2. TypeOK'
      BY <1>4, <2>1 DEF Complete, TypeOK
    <2>3. \A g \in Futures : future'[g] = "none" <=> future[g] = "none"
      BY <1>4 DEF Complete, TypeOK, Done
    <2>4. Untouched'
      BY <1>4, <2>1, <2>3 DEF Complete, Untouched, TypeOK
    <2>5. RefsExact'
      BY <1>4, <2>1 DEF Complete, RefsExact, Slot
    <2> QED  BY <2>2, <2>4, <2>5
  <1>5. CASE (\E f \in Futures : Cancel(f)) \/ (\E f \in Futures, how \in Done : Finish(f, how))
    BY <1>4, <1>5 DEF Cancel, Finish, Done
  <1>6. ASSUME NEW f \in Futures, CreateFuture(f)
        PROVE  RefsInv'
    <2>1. /\ refs[f] = 0 /\ f \notin held /\ reaction[f] = "none"
          /\ Outlets(f) = {} /\ Slot(f) = 0
      BY <1>6, NewHasNone DEF CreateFuture
    <2>2. /\ \A g \in Futures : Outlets(g)' = Outlets(g)
          /\ \A q \in Promises : Awaited(q)' = Awaited(q)
      BY <1>6, OutletsStay DEF CreateFuture, jsVars
    <2>3. TypeOK'
      BY <1>6 DEF CreateFuture, TypeOK, jsVars
    <2>4. Untouched'
      BY <1>6, <2>1 DEF CreateFuture, Untouched, TypeOK, jsVars
    <2>5. ASSUME NEW g \in Futures
          PROVE  refs'[g] = Held(g)' + Slot(g)' + Cardinality(Outlets(g))'
      <3>1. Slot(g)' = Slot(g)
        BY <1>6 DEF CreateFuture, Slot
      <3>2. CASE g = f
        <4>1. refs'[g] = 1 /\ Held(g)' = 1 /\ Slot(g)' = 0
          BY <1>6, <2>1, <3>1, <3>2 DEF CreateFuture, Held, TypeOK
        <4>2. Cardinality(Outlets(g))' = 0
          BY <2>1, <2>2, <3>2, FS_EmptySet
        <4> QED  BY <4>1, <4>2
      <3>3. CASE g # f
        <4>1. refs'[g] = refs[g] /\ Held(g)' = Held(g)
          BY <1>6, <3>3 DEF CreateFuture, Held, TypeOK
        <4> QED  BY <2>2, <3>1, <4>1 DEF RefsExact, Held
      <3> QED  BY <3>2, <3>3
    <2>6. RefsExact'
      BY <1>6, <2>2, <2>5 DEF CreateFuture, RefsExact, Held, jsVars
    <2> QED  BY <2>3, <2>4, <2>6
  <1>7. ASSUME NEW f \in Futures, Release(f)
        PROVE  RefsInv'
    <2>1. /\ \A g \in Futures : Outlets(g)' = Outlets(g)
          /\ \A q \in Promises : Awaited(q)' = Awaited(q)
      BY <1>7, OutletsStay DEF Release, jsVars
    <2>2. ASSUME NEW g \in Futures
          PROVE  /\ refs'[g] = Held(g)' + Slot(g)' + Cardinality(Outlets(g))'
                 /\ refs'[g] \in Nat
      <3>1. Slot(g)' = Slot(g)
        BY <1>7 DEF Release, Slot
      <3>2. Held(g)' = IF g = f THEN Held(g) - 1 ELSE Held(g)
        BY <1>7 DEF Release, Held
      <3>3. refs'[g] = IF g = f THEN refs[g] - 1 ELSE refs[g]
        BY <1>7 DEF Release, TypeOK
      <3>4. refs[g] = Held(g) + Slot(g) + Cardinality(Outlets(g)) /\ Held(g)' \in 0..1
        BY DEF RefsExact, Held
      <3> QED  BY <2>1, <3>1, <3>2, <3>3, <3>4, FiniteOutlets DEF Held
    <2>3. TypeOK'
      <3>1. refs' \in [Futures -> Nat]
        BY <1>7, <2>2 DEF Release, TypeOK
      <3>2. reported' \subseteq Promises
        BY <1>7 DEF Release, Del, TypeOK
      <3> QED  BY <1>7, <3>1, <3>2 DEF Release, TypeOK, jsVars
    <2>4. Untouched'
      BY <1>7 DEF Release, Untouched, jsVars
    <2>5. RefsExact'
      BY <1>7, <2>1, <2>2 DEF Release, RefsExact, Held, jsVars
    <2> QED  BY <2>3, <2>4, <2>5
  <1> QED  BY <1>2, <1>3, <1>5, <1>6, <1>7

LEMMA StepKeepsRefs == RefsInv /\ [Next]_vars => RefsInv'
  <1> SUFFICES ASSUME RefsInv, [Next]_vars PROVE RefsInv'
    OBVIOUS
  <1> QED  BY getPyObjectKeepsRefs, ImportKeepsRefs, onResolvedCbKeepsRefs,
              futureOnDoneCallbackKeepsRefs, SettleOwnKeepsRefs, ProgramKeepsRefs DEF Next

\* The state of the bridge has its types, and no count of references goes below zero.
THEOREM TypeCorrect == Spec => []TypeOK
  <1>1. RefsInv => TypeOK
    BY DEF RefsInv
  <1> QED  BY InitRefs, StepKeepsRefs, <1>1, PTL DEF Spec

\* The counts of PromiseType.cc are right: a Future has one reference for each of its
\* users, and is freed when the last is done.
THEOREM RefsAreExact == Spec => []RefsExact
  <1>1. RefsInv => RefsExact
    BY DEF RefsInv
  <1> QED  BY InitRefs, StepKeepsRefs, <1>1, PTL DEF Spec

\* The raw pointers in the slot of onResolvedCb and behind futureOnDoneCallback are
\* never used after the Future is freed.
THEOREM CallbacksFindTheirFuture ==
    Spec => [](/\ \A f \in Futures : reaction[f] \in {"attached", "queued"} => refs[f] > 0
               /\ \A p \in Promises : Awaited(p) => outletOf[p] \in Futures /\ refs[outletOf[p]] > 0)
  <1> DEFINE Alive ==
        /\ \A f \in Futures : reaction[f] \in {"attached", "queued"} => refs[f] > 0
        /\ \A p \in Promises : Awaited(p) => outletOf[p] \in Futures /\ refs[outletOf[p]] > 0
  <1>1. RefsInv => Alive
    <2> SUFFICES ASSUME RefsInv PROVE Alive
      OBVIOUS
    <2>1. \A f \in Futures : /\ refs[f] = Held(f) + Slot(f) + Cardinality(Outlets(f))
                             /\ Held(f) \in 0..1 /\ Slot(f) \in 0..1
                             /\ Cardinality(Outlets(f)) \in Nat
      BY FiniteOutlets DEF RefsInv, RefsExact, Held
    <2>2. ASSUME NEW f \in Futures, reaction[f] \in {"attached", "queued"}
          PROVE  refs[f] > 0
      BY <2>1, <2>2 DEF Slot
    <2>3. ASSUME NEW p \in Promises, Awaited(p)
          PROVE  outletOf[p] \in Futures /\ refs[outletOf[p]] > 0
      <3>1. outletOf[p] \in Futures /\ p \in Outlets(outletOf[p])
        BY <2>3 DEF RefsInv, Untouched, Awaited, Outlets
      <3>2. Cardinality(Outlets(outletOf[p])) # 0
        BY <3>1, FiniteOutlets, FS_EmptySet
      <3> QED  BY <2>1, <3>1, <3>2
    <2> QED  BY <2>2, <2>3
  <1> HIDE DEF Alive
  <1>2. Spec => []Alive
    BY InitRefs, StepKeepsRefs, <1>1, PTL DEF Spec
  <1> QED  BY <1>2 DEF Alive

-----------------------------------------------------------------------------
(* Outcomes. *)

\* How far each crossing has come, with the state of both of its ends.
FutureStage(f) ==
    /\ source[f] = NoPromise <=> reaction[f] = "none"
    /\ reaction[f] = "attached" => promise[source[f]] = "pending" /\ future[f] \in {"pending", "cancelled"}
    /\ reaction[f] = "queued" => promise[source[f]] \in Settled /\ future[f] \in {"pending", "cancelled"}
    /\ reaction[f] = "ran" => promise[source[f]] \in Settled /\ future[f] \in {Outcome(source[f]), "cancelled"}
    /\ f \in late => future[f] = "cancelled"

PromiseStage(p) ==
    /\ outletOf[p] = NoFuture <=> doneCb[p] = "none"
    /\ doneCb[p] = "waiting" => promise[p] = "pending" /\ future[outletOf[p]] = "pending"
    /\ doneCb[p] = "queued" => promise[p] = "pending" /\ future[outletOf[p]] \in Done
    /\ doneCb[p] = "ran" => promise[p] = Verdict(outletOf[p]) /\ future[outletOf[p]] \in Done

Stages == /\ \A f \in Futures : FutureStage(f)
          /\ \A p \in Promises : PromiseStage(p)

CrossInv == RefsInv /\ Stages

LEMMA InitStages == Init => Stages
  BY BridgeAssumption DEF Init, Stages, FutureStage, PromiseStage

LEMMA StagesImplyCross == CrossInv => OutcomesCross
  <1> SUFFICES ASSUME CrossInv PROVE OutcomesCross
    OBVIOUS
  <1> USE DEF CrossInv, RefsInv, TypeOK, Stages
  <1>1. ASSUME NEW f \in Futures, source[f] # NoPromise
        PROVE  /\ source[f] \in Promises
               /\ future[f] \in {"result", "exception"} =>
                    promise[source[f]] \in Settled /\ future[f] = Outcome(source[f])
               /\ reaction[f] # "queued" /\ promise[source[f]] \in Settled => future[f] \in Done
    BY <1>1 DEF FutureStage, Outcome, Done, Settled
  <1>2. ASSUME NEW p \in Promises, outletOf[p] # NoFuture
        PROVE  /\ promise[p] \in Settled =>
                    promise[p] = (IF future[outletOf[p]] = "result" THEN "fulfilled" ELSE "rejected")
               /\ doneCb[p] # "queued" /\ future[outletOf[p]] \in Done => promise[p] \in Settled
    BY <1>2 DEF PromiseStage, Verdict, Settled, Done
  <1>3. \A f \in late : future[f] = "cancelled"
    BY DEF FutureStage
  <1> QED  BY <1>1, <1>2, <1>3 DEF OutcomesCross, Quiescent

\* Settling a pending Promise moves the reactions on it, and begins that of the
\* tracker, at the stage where they belong.
LEMMA SettleKeepsStages ==
    ASSUME CrossInv, NEW p \in Promises, promise[p] = "pending", NEW how \in Settled, NEW m \in BOOLEAN,
           NEW new \in Tracker(p, how, m), NEW drop, Settle(p, how, new, drop),
           UNCHANGED late
    PROVE  \A f \in Futures : FutureStage(f)'
  <1> SUFFICES ASSUME NEW f \in Futures PROVE FutureStage(f)'
    OBVIOUS
  <1> USE DEF CrossInv, RefsInv, TypeOK, Stages
  <1>1. new \subseteq NewFutures
    BY DEF Tracker
  <1>2. CASE f \in new
    <2>1. future[f] = "none" /\ f \notin late
      BY <1>1, <1>2 DEF NewFutures, FutureStage
    <2>2. future'[f] = "pending" /\ reaction'[f] = "queued" /\ source'[f] = p /\ promise'[p] = how
      BY <1>2 DEF Settle
    <2> QED  BY <2>1, <2>2, BridgeAssumption DEF FutureStage, Settled
  <1>3. CASE f \notin new
    <2>1. /\ future'[f] = future[f] /\ source'[f] = source[f]
          /\ reaction'[f] = IF source[f] = p /\ reaction[f] = "attached" THEN "queued" ELSE reaction[f]
          /\ \A q \in Promises : promise'[q] = IF q = p THEN how ELSE promise[q]
      BY <1>3 DEF Settle
    <2>2. source[f] = NoPromise \/ source[f] \in Promises
      OBVIOUS
    <2> QED  BY <2>1, <2>2, BridgeAssumption DEF FutureStage, Settled, Outcome
  <1> QED  BY <1>2, <1>3

LEMMA StepKeepsStages ==
    ASSUME CrossInv, [Next]_vars
    PROVE  Stages'
  <1> USE DEF CrossInv, RefsInv, TypeOK, Stages
  <1>1. ASSUME NEW p \in Promises, NEW f \in Futures, getPyObject(p, f)
        PROVE  Stages'
    <2>1. ASSUME NEW g \in Futures PROVE FutureStage(g)'
      BY <1>1, BridgeAssumption DEF getPyObject, FutureStage, NewFutures, Settled, Outcome, jsVars
    <2>2. ASSUME NEW q \in Promises PROVE PromiseStage(q)'
      BY <1>1 DEF getPyObject, PromiseStage, NewFutures, Verdict, jsVars, Untouched
    <2> QED  BY <2>1, <2>2
  <1>2. ASSUME NEW p \in Promises, NEW f \in Futures,
               toJsPromise(f, p) \/ toJsPromiseOfCoroutine(f, p)
        PROVE  Stages'
    <2>1. /\ UNCHANGED <<source, reaction, late>> /\ p \in NewPromises
          /\ promise' = [promise EXCEPT ![p] = "pending"] /\ outletOf' = [outletOf EXCEPT ![p] = f]
      BY <1>2 DEF toJsPromise, toJsPromiseOfCoroutine
    <2>2. /\ \A g \in Futures : future'[g] = future[g] \/ (g = f /\ future[g] = "none" /\ future'[g] = "pending")
          /\ \A q \in Promises : doneCb'[q] =
               IF q # p THEN doneCb[q] ELSE IF future'[f] = "pending" THEN "waiting" ELSE "queued"
          /\ future'[f] # "none"
      BY <1>2 DEF toJsPromise, toJsPromiseOfCoroutine, NewFutures, Untouched
    <2>3. ASSUME NEW g \in Futures PROVE FutureStage(g)'
      <3>1. source[g] \in Promises => promise'[source[g]] = promise[source[g]] \/ source[g] = p
        BY <2>1
      <3>2. reaction[g] # "none" => source[g] \in Promises /\ source[g] # p /\ future'[g] = future[g]
        BY <2>1, <2>2, BridgeAssumption DEF FutureStage, NewPromises, Settled, Untouched
      <3> QED  BY <2>1, <2>2, <3>1, <3>2 DEF FutureStage, Outcome
    <2>4. ASSUME NEW q \in Promises PROVE PromiseStage(q)'
      <3>1. CASE q = p
        BY <2>1, <2>2, <3>1, BridgeAssumption DEF PromiseStage, Done
      <3>2. CASE q # p
        BY <2>1, <2>2, <3>2, BridgeAssumption DEF PromiseStage, Done, Verdict, Untouched
      <3> QED  BY <3>1, <3>2
    <2> QED  BY <2>3, <2>4
  <1>3. ASSUME NEW f \in Futures, onResolvedCb(f)
        PROVE  Stages'
    <2>1. /\ reaction[f] = "queued" /\ source[f] \in Promises /\ UNCHANGED <<promise, source, outletOf>>
          /\ reaction' = [reaction EXCEPT ![f] = "ran"]
          /\ Outcome(source[f]) \in Done /\ promise[source[f]] \in Settled
      BY <1>3 DEF onResolvedCb, Untouched, FutureStage, Outcome, Done
    <2>2. CASE future[f] = "pending"
      <3>1. /\ future' = [future EXCEPT ![f] = Outcome(source[f])] /\ UNCHANGED late
            /\ ScheduleCallbacks(f)
        BY <1>3, <2>2 DEF onResolvedCb, SetOutcome
      <3>2. ASSUME NEW g \in Futures PROVE FutureStage(g)'
        BY <2>1, <2>2, <3>1, BridgeAssumption DEF FutureStage, Outcome
      <3>3. ASSUME NEW q \in Promises PROVE PromiseStage(q)'
        BY <2>1, <2>2, <3>1, BridgeAssumption DEF PromiseStage, ScheduleCallbacks, Verdict, Done
      <3> QED  BY <3>2, <3>3
    <2>3. CASE future[f] # "pending"
      <3>1. late' = late \cup {f} /\ UNCHANGED <<future, doneCb>> /\ future[f] = "cancelled"
        BY <1>3, <2>1, <2>3 DEF onResolvedCb, SetOutcome, FutureStage
      <3>2. ASSUME NEW g \in Futures PROVE FutureStage(g)'
        BY <2>1, <3>1, BridgeAssumption DEF FutureStage, Outcome
      <3>3. ASSUME NEW q \in Promises PROVE PromiseStage(q)'
        BY <2>1, <3>1 DEF PromiseStage, Verdict
      <3> QED  BY <3>2, <3>3
    <2> QED  BY <2>2, <2>3
  <1>4. ASSUME NEW p \in Promises, futureOnDoneCallback(p)
        PROVE  Stages'
    <2>1. PICK f \in Futures : f = outletOf[p]
      BY <1>4 DEF futureOnDoneCallback, Untouched
    <2>2. PICK new \in Tracker(p, Verdict(f), FALSE) : Settle(p, Verdict(f), new, {f})
      BY <1>4, <2>1 DEF futureOnDoneCallback
    <2>3. promise[p] = "pending" /\ future[f] \in Done /\ Verdict(f) \in Settled
      BY <1>4, <2>1 DEF futureOnDoneCallback, PromiseStage, Verdict, Settled
    <2>4. \A g \in Futures : FutureStage(g)'
      BY <1>4, <2>2, <2>3, SettleKeepsStages DEF futureOnDoneCallback
    <2>5. \A g \in Futures : future'[g] = future[g] \/ future[g] = "none"
      BY <2>2 DEF Settle, Tracker, NewFutures
    <2>6. ASSUME NEW q \in Promises PROVE PromiseStage(q)'
      <3>1. promise'[q] = (IF q = p THEN Verdict(f) ELSE promise[q]) /\ UNCHANGED outletOf
            /\ doneCb'[q] = IF q = p THEN "ran" ELSE doneCb[q]
        BY <1>4, <2>2 DEF Settle, futureOnDoneCallback
      <3>2. future'[f] = future[f] /\ outletOf'[q] = outletOf[q]
        BY <2>3, <2>5, <3>1 DEF Done
      <3>3. CASE q = p
        BY <2>1, <2>3, <3>1, <3>2, <3>3, BridgeAssumption DEF PromiseStage, Verdict
      <3>4. CASE q # p
        <4>1. doneCb[q] # "none" => future'[outletOf[q]] = future[outletOf[q]]
          BY <2>5 DEF Untouched
        <4>2. promise'[q] = promise[q] /\ doneCb'[q] = doneCb[q]
          BY <3>1, <3>4
        <4> QED  BY <3>2, <4>1, <4>2 DEF PromiseStage, Verdict
      <3> QED  BY <3>3, <3>4
    <2> QED  BY <2>4, <2>6
  <1>5. ASSUME NEW p \in Promises, NEW how \in Settled, NEW m \in BOOLEAN, SettleOwn(p, how, m)
        PROVE  Stages'
    <2>1. PICK new \in Tracker(p, how, m) : Settle(p, how, new, {})
      BY <1>5 DEF SettleOwn
    <2>2. \A g \in Futures : FutureStage(g)'
      BY <1>5, <2>1, SettleKeepsStages DEF SettleOwn, Own
    <2>3. \A g \in Futures : future'[g] = future[g] \/ future[g] = "none"
      BY <2>1 DEF Settle, Tracker, NewFutures
    <2>4. ASSUME NEW q \in Promises PROVE PromiseStage(q)'
      <3>1. promise'[q] = (IF q = p THEN how ELSE promise[q]) /\ UNCHANGED <<outletOf, doneCb>>
        BY <1>5, <2>1 DEF Settle, SettleOwn
      <3> QED  BY <1>5, <2>3, <3>1 DEF PromiseStage, Verdict, Done, Untouched, SettleOwn, Own
    <2> QED  BY <2>2, <2>4
  <1>6. ASSUME NEW f \in Futures, NEW how \in Done, Complete(f, how),
               source[f] = NoPromise \/ how = "cancelled"
        PROVE  Stages'
    <2>1. ASSUME NEW g \in Futures PROVE FutureStage(g)'
      BY <1>6, BridgeAssumption DEF Complete, FutureStage, Outcome, Done
    <2>2. ASSUME NEW q \in Promises PROVE PromiseStage(q)'
      BY <1>6, BridgeAssumption DEF Complete, PromiseStage, ScheduleCallbacks, Verdict, Done
    <2> QED  BY <2>1, <2>2
  <1>7. CASE \/ \E p \in Promises : NewPromise(p) \/ Catch(p)
             \/ \E f \in Futures : CreateFuture(f) \/ Retrieve(f) \/ Release(f)
             \/ \E h \in {"default", "own"} : SetExceptionHandler(h)
             \/ UNCHANGED vars
    <2>1. UNCHANGED <<outletOf, doneCb, source, reaction, late>>
      BY <1>7 DEF NewPromise, Catch, CreateFuture, Retrieve, Release, SetExceptionHandler,
                  vars, jsVars, pyVars
    <2>2. /\ \A p \in Promises : promise'[p] = promise[p]
                                 \/ (promise[p] = "none" /\ promise'[p] = "pending")
          /\ \A f \in Futures : future'[f] = future[f] \/ future[f] = "none"
      BY <1>7 DEF NewPromise, Catch, CreateFuture, Retrieve, Release, SetExceptionHandler,
                  vars, jsVars, pyVars, NewPromises, NewFutures
    <2>3. ASSUME NEW g \in Futures PROVE FutureStage(g)'
      BY <2>1, <2>2, BridgeAssumption DEF FutureStage, Outcome, Settled, Untouched
    <2>4. ASSUME NEW q \in Promises PROVE PromiseStage(q)'
      BY <2>1, <2>2, BridgeAssumption DEF PromiseStage, Verdict, Done, Untouched
    <2> QED  BY <2>3, <2>4
  <1>8. CASE (\E f \in Futures : Cancel(f)) \/ (\E f \in Futures, how \in Done : Finish(f, how))
    BY <1>6, <1>8 DEF Cancel, Finish, Done
  <1> QED  BY <1>1, <1>2, <1>3, <1>4, <1>5, <1>7, <1>8 DEF Next

\* An outcome crosses from one language to the other, and back, as it is; what Python
\* has cancelled is the only thing that refuses it.
THEOREM OutcomesDoCross == Spec => []OutcomesCross
  <1>1. CrossInv /\ [Next]_vars => CrossInv'
    BY StepKeepsRefs, StepKeepsStages DEF CrossInv
  <1>2. Init => CrossInv
    BY InitRefs, InitStages DEF CrossInv
  <1> QED  BY <1>1, <1>2, StagesImplyCross, PTL DEF Spec

-----------------------------------------------------------------------------
(* Rejections. *)

\* A callback is on its way that will look at the rejection of `p`, or report it.
Pursued(p) ==
    \E f \in Futures : source[f] = p /\ \/ reaction[f] = "queued"
                                        \/ future[f] = "exception" /\ Outlets(f) # {}

Accounted(p) == promise[p] = "rejected" => Attended(p) \/ p \in reported \/ Pursued(p)

LossInv == CrossInv /\ \A p \in Promises : Accounted(p)

LEMMA LossInvSuffices == LossInv => NoRejectionIsLost
  <1> SUFFICES ASSUME LossInv, Quiescent, NEW p \in Promises, promise[p] = "rejected"
               PROVE  Attended(p) \/ p \in reported
    BY DEF NoRejectionIsLost
  <1>1. ASSUME NEW f \in Futures, source[f] = p, future[f] = "exception", Outlets(f) # {}
        PROVE  FALSE
    <2>1. PICK q \in Promises : outletOf[q] = f /\ Awaited(q)
      BY <1>1 DEF Outlets
    <2>2. doneCb[q] = "waiting"
      BY <2>1 DEF Quiescent, Awaited
    <2> QED  BY <1>1, <2>1, <2>2 DEF LossInv, CrossInv, Stages, PromiseStage
  <1> QED  BY <1>1 DEF LossInv, Accounted, Pursued, Quiescent

\* A Promise that is rejected with a reaction has one that runs; without any, the
\* tracker adds one.
LEMMA SettlePursues ==
    ASSUME CrossInv, NEW p \in Promises, promise[p] = "pending", NEW how \in Settled, NEW m \in BOOLEAN,
           NEW new \in Tracker(p, how, m), NEW drop, Settle(p, how, new, drop)
    PROVE  how = "rejected" => p \in caught \/ m \/ Pursued(p)'
  <1> USE DEF CrossInv, RefsInv, TypeOK, Stages
  <1>1. CASE how = "rejected" /\ ~Handled(p) /\ ~m
    <2>1. PICK f \in NewFutures : new = {f}
      BY <1>1 DEF Tracker
    <2>2. f \in Futures /\ source'[f] = p /\ reaction'[f] = "queued"
      BY <2>1 DEF Settle, NewFutures
    <2> QED  BY <2>2 DEF Pursued
  <1>2. CASE Handled(p) /\ p \notin caught
    <2>1. PICK f \in Futures : source[f] = p
      BY <1>2 DEF Handled
    <2>2. reaction[f] = "attached"
      BY <2>1, BridgeAssumption DEF FutureStage, Settled
    <2>3. source'[f] = p /\ reaction'[f] = "queued"
      BY <2>1, <2>2 DEF Settle
    <2> QED  BY <2>3 DEF Pursued
  <1> QED  BY <1>1, <1>2

\* What a step leaves of the account of a Promise it does not settle, if what it takes
\* from one Future, it makes good.
LEMMA AccountKept ==
    ASSUME CrossInv, NEW p \in Promises, Accounted(p), promise[p] = "rejected",
           caught \subseteq caught', muted \subseteq muted', retrieved \subseteq retrieved',
           reported \subseteq reported',
           \A f \in Futures : source[f] = p =>
             /\ source'[f] = p
             /\ f \in held => f \in held' \/ Attended(p)' \/ p \in reported' \/ Pursued(p)'
             /\ future[f] = "cancelled" => future'[f] = "cancelled"
             /\ reaction[f] = "queued" => reaction'[f] = "queued" \/ Attended(p)'
                                          \/ p \in reported' \/ Pursued(p)'
             /\ future[f] = "exception" /\ Outlets(f) # {} =>
                  Attended(p)' \/ (future'[f] = "exception" /\ Outlets(f)' # {})
    PROVE  Accounted(p)'
  <1>1. CASE p \in reported
    BY <1>1 DEF Accounted
  <1>2. CASE Attended(p)
    BY <1>2 DEF Attended, Accounted
  <1>3. CASE Pursued(p)
    BY <1>3 DEF Pursued, Accounted
  <1> QED  BY <1>1, <1>2, <1>3 DEF Accounted

LEMMA onResolvedCbKeepsAccount ==
    ASSUME LossInv, NEW f \in Futures, onResolvedCb(f), NEW p \in Promises
    PROVE  Accounted(p)'
  <1> SUFFICES ASSUME promise[p] = "rejected" PROVE Accounted(p)'
    BY DEF onResolvedCb, Accounted
  <1> USE DEF CrossInv, RefsInv, TypeOK, Stages
  <1>1. /\ UNCHANGED <<promise, caught, muted, held, retrieved, source, outletOf>>
        /\ reported \subseteq reported'
        /\ reaction' = [reaction EXCEPT ![f] = "ran"]
        /\ \A g \in Futures : g # f => future'[g] = future[g]
        /\ \A q \in Promises : Awaited(q)' <=> Awaited(q)
    BY DEF LossInv, onResolvedCb, SetOutcome, ScheduleCallbacks, Awaited
  <1>2. \A g \in Futures : Outlets(g)' = Outlets(g)
    BY <1>1 DEF Outlets
  <1>3. CASE source[f] = p
    <2>1. CASE future[f] = "cancelled"
      BY <1>1, <1>3, <2>1 DEF onResolvedCb, SetOutcome, Accounted, Attended
    <2>2. CASE future[f] = "pending"
      <3>1. future'[f] = "exception"
        BY <1>3, <2>2 DEF LossInv, onResolvedCb, SetOutcome, Outcome
      <3>2. CASE f \in held
        BY <1>1, <1>3, <3>2 DEF Accounted, Attended
      <3>3. CASE Outlets(f) # {}
        BY <1>1, <1>2, <1>3, <3>1, <3>3 DEF Accounted, Pursued
      <3>4. CASE f \notin held /\ Outlets(f) = {}
        <4>1. Cardinality(Outlets(f)) = 0 /\ Slot(f) = 1
          BY <3>4, FS_EmptySet DEF Slot, onResolvedCb
        <4>2. refs[f] = (IF f \in held THEN 1 ELSE 0) + Slot(f) + Cardinality(Outlets(f))
          BY DEF LossInv, RefsExact
        <4>3. refs[f] = 1
          BY <3>4, <4>1, <4>2
        <4> QED  BY <1>3, <2>2, <4>3 DEF onResolvedCb, Accounted
      <3> QED  BY <3>2, <3>3, <3>4
    <2> QED  BY <2>1, <2>2 DEF LossInv, FutureStage, onResolvedCb
  <1>4. CASE source[f] # p
    <2>1. \A g \in Futures : source[g] = p => g # f
      BY <1>4
    <2>2. CrossInv /\ Accounted(p)
      BY DEF LossInv
    <2> QED  BY ONLY <1>1, <1>2, <2>1, <2>2, AccountKept, promise[p] = "rejected", p \in Promises,
             reaction \in [Futures -> {"none", "attached", "queued", "ran"}]
  <1> QED  BY <1>3, <1>4

LEMMA futureOnDoneCallbackKeepsAccount ==
    ASSUME LossInv, NEW q \in Promises, futureOnDoneCallback(q), NEW p \in Promises
    PROVE  Accounted(p)'
  <1> USE DEF CrossInv, RefsInv, TypeOK, Stages
  <1>1. PICK f \in Futures : f = outletOf[q]
    BY DEF LossInv, futureOnDoneCallback, Untouched
  <1>2. PICK new \in Tracker(q, Verdict(f), FALSE) : Settle(q, Verdict(f), new, {f})
    BY <1>1 DEF futureOnDoneCallback
  <1>3. promise[q] = "pending" /\ Verdict(f) \in Settled /\ caught' = caught
    BY <1>1 DEF LossInv, futureOnDoneCallback, PromiseStage, Verdict, Settled
  <1>4. CASE p = q
    <2>1. promise'[q] = Verdict(f)
      BY <1>2 DEF LossInv, Settle
    <2>2. Verdict(f) = "rejected" => q \in caught \/ Pursued(q)'
      BY <1>2, <1>3, SettlePursues DEF LossInv
    <2> QED  BY <1>3, <1>4, <2>1, <2>2 DEF Accounted, Attended
  <1>5. CASE p # q /\ promise[p] # "rejected"
    BY <1>2, <1>5 DEF LossInv, Settle, Accounted
  <1>6. CASE p # q /\ promise[p] = "rejected"
    <2>1. /\ UNCHANGED <<caught, muted, reported, held, outletOf>>
          /\ retrieved' = retrieved \cup {f}
          /\ \A r \in Promises : r # q => doneCb'[r] = doneCb[r]
      BY <1>1 DEF LossInv, futureOnDoneCallback
    <2>2. ASSUME NEW g \in Futures, source[g] = p
          PROVE  /\ source'[g] = p /\ future'[g] = future[g]
                 /\ reaction[g] = "queued" => reaction'[g] = "queued"
      <3>1. future[g] # "none"
        BY <2>2, BridgeAssumption DEF LossInv, FutureStage, Untouched
      <3>2. g \notin new
        BY <1>2, <3>1 DEF Tracker, NewFutures
      <3> QED  BY <1>2, <2>2, <3>2 DEF Settle
    <2>3. ASSUME NEW g \in Futures, source[g] = p, Outlets(g) # {}
          PROVE  Attended(p)' \/ Outlets(g)' # {}
      <3>1. CASE g = f
        BY <2>1, <2>2, <2>3, <3>1 DEF Attended
      <3>2. CASE g # f
        BY <1>1, <2>1, <2>3, <3>2 DEF Outlets, Awaited
      <3> QED  BY <3>1, <3>2
    <2>4. CrossInv /\ Accounted(p)
      BY DEF LossInv
    <2> QED  BY ONLY <1>6, <2>1, <2>2, <2>3, <2>4, AccountKept, p \in Promises
  <1> QED  BY <1>4, <1>5, <1>6

LEMMA SettleOwnKeepsAccount ==
    ASSUME LossInv, NEW q \in Promises, NEW how \in Settled, NEW m \in BOOLEAN,
           SettleOwn(q, how, m), NEW p \in Promises
    PROVE  Accounted(p)'
  <1> USE DEF CrossInv, RefsInv, TypeOK, Stages
  <1>1. PICK new \in Tracker(q, how, m) : Settle(q, how, new, {})
    BY DEF SettleOwn
  <1>2. promise[q] = "pending" /\ caught' = caught /\ muted' = IF m THEN muted \cup {q} ELSE muted
    BY DEF SettleOwn, Own
  <1>3. CASE p = q
    <2>1. promise'[q] = how
      BY <1>1 DEF LossInv, Settle
    <2>2. how = "rejected" => q \in caught \/ m \/ Pursued(q)'
      BY <1>1, <1>2, SettlePursues DEF LossInv
    <2> QED  BY <1>2, <1>3, <2>1, <2>2 DEF Accounted, Attended
  <1>4. CASE p # q /\ promise[p] # "rejected"
    BY <1>1, <1>4 DEF LossInv, Settle, Accounted
  <1>5. CASE p # q /\ promise[p] = "rejected"
    <2>1. UNCHANGED <<caught, reported, held, retrieved, outletOf, doneCb>> /\ muted \subseteq muted'
      BY <1>2 DEF SettleOwn
    <2>2. ASSUME NEW g \in Futures, source[g] = p
          PROVE  /\ source'[g] = p /\ future'[g] = future[g]
                 /\ reaction[g] = "queued" => reaction'[g] = "queued"
      <3>1. future[g] # "none"
        BY <2>2, BridgeAssumption DEF LossInv, FutureStage, Untouched
      <3>2. g \notin new
        BY <1>1, <3>1 DEF Tracker, NewFutures
      <3> QED  BY <1>1, <2>2, <3>2 DEF Settle
    <2>3. \A g \in Futures : Outlets(g)' = Outlets(g)
      BY <2>1 DEF Outlets, Awaited
    <2>4. CrossInv /\ Accounted(p)
      BY DEF LossInv
    <2> QED  BY ONLY <1>5, <2>1, <2>2, <2>3, <2>4, AccountKept, p \in Promises
  <1> QED  BY <1>3, <1>4, <1>5

LEMMA ReleaseKeepsAccount ==
    ASSUME LossInv, NEW f \in Futures, Release(f), NEW p \in Promises
    PROVE  Accounted(p)'
  <1> SUFFICES ASSUME promise[p] = "rejected" PROVE Accounted(p)'
    BY DEF Release, jsVars, Accounted
  <1> USE DEF CrossInv, RefsInv, TypeOK, Stages
  <1>1. /\ UNCHANGED <<promise, caught, muted, retrieved, source, outletOf, doneCb, future, reaction>>
        /\ reported \subseteq reported' /\ held' = held \ {f}
    BY DEF Release, jsVars
  <1>2. \A g \in Futures : Outlets(g)' = Outlets(g)
    BY <1>1 DEF Outlets, Awaited
  <1>3. ASSUME source[f] = p
        PROVE  Attended(p)' \/ p \in reported' \/ Pursued(p)'
    <2>1. reaction[f] \in {"queued", "ran"}
      BY <1>3, BridgeAssumption DEF LossInv, FutureStage
    <2>2. CASE reaction[f] = "queued"
      BY <1>1, <1>3, <2>2 DEF Pursued
    <2>3. CASE future[f] = "cancelled" \/ f \in retrieved
      BY <1>1, <1>3, <2>3 DEF Attended
    <2>4. CASE Outlets(f) # {} /\ future[f] = "exception"
      BY <1>1, <1>2, <1>3, <2>4 DEF Pursued
    <2>5. CASE /\ reaction[f] = "ran" /\ Outlets(f) = {}
               /\ future[f] = "exception" /\ f \notin retrieved
      <3>0. Cardinality(Outlets(f)) = 0 /\ Slot(f) = 0
        BY <2>5, FS_EmptySet DEF Slot
      <3>1. refs[f] = 1
        BY <3>0 DEF LossInv, RefsExact, Release
      <3>2. p \in Del({f})
        BY <1>3, <2>5, BridgeAssumption DEF Del
      <3> QED  BY <3>1, <3>2 DEF Release
    <2> QED  BY <1>3, <2>1, <2>2, <2>3, <2>4, <2>5 DEF LossInv, FutureStage, Outcome
  <1>4. CrossInv /\ Accounted(p)
    BY DEF LossInv
  <1> QED  BY ONLY <1>1, <1>2, <1>3, <1>4, AccountKept, promise[p] = "rejected", p \in Promises

LEMMA ImportKeepsAccount ==
    ASSUME LossInv, NEW q \in Promises, NEW f \in Futures, NEW p \in Promises,
           getPyObject(q, f) \/ toJsPromise(f, q) \/ toJsPromiseOfCoroutine(f, q)
    PROVE  Accounted(p)'
  <1> USE DEF CrossInv, RefsInv, TypeOK, Stages
  <1>1. CASE promise'[p] # "rejected"
    BY <1>1 DEF Accounted
  <1>2. CASE promise'[p] = "rejected"
    <2>1. /\ promise[p] = "rejected"
          /\ UNCHANGED <<caught, muted, retrieved, reported>> /\ held \subseteq held'
      BY <1>2 DEF LossInv, getPyObject, toJsPromise, toJsPromiseOfCoroutine, jsVars
    <2>2. ASSUME NEW g \in Futures, source[g] = p
          PROVE  source'[g] = p /\ future'[g] = future[g] /\ reaction'[g] = reaction[g]
      <3>1. future[g] # "none"
        BY <2>2, BridgeAssumption DEF LossInv, FutureStage, Untouched
      <3> QED  BY <2>2, <3>1 DEF LossInv, getPyObject, toJsPromise, toJsPromiseOfCoroutine, NewFutures
    <2>3. ASSUME NEW g \in Futures, Outlets(g) # {}
          PROVE  Outlets(g)' # {}
      <3>1. PICK r \in Promises : outletOf[r] = g /\ Awaited(r)
        BY <2>3 DEF Outlets
      <3>2. outletOf'[r] = g /\ Awaited(r)'
        BY <3>1 DEF LossInv, getPyObject, toJsPromise, toJsPromiseOfCoroutine, jsVars, NewPromises,
                    Awaited, Untouched
      <3> QED  BY <3>2 DEF Outlets
    <2>4. CrossInv /\ Accounted(p)
      BY DEF LossInv
    <2> QED  BY ONLY <2>1, <2>2, <2>3, <2>4, AccountKept, p \in Promises
  <1> QED  BY <1>1, <1>2

LEMMA CompleteKeepsAccount ==
    ASSUME LossInv, NEW f \in Futures, NEW how \in Done, Complete(f, how),
           source[f] = NoPromise \/ how = "cancelled", NEW p \in Promises
    PROVE  Accounted(p)'
  <1> SUFFICES ASSUME promise[p] = "rejected" PROVE Accounted(p)'
    BY DEF Complete, Accounted
  <1> USE DEF CrossInv, RefsInv, TypeOK, Stages
  <1>1. UNCHANGED <<caught, muted, retrieved, reported, held, source, reaction, outletOf>>
    BY DEF Complete
  <1>2. \A g \in Futures : source[g] = p /\ future[g] \in Done => future'[g] = future[g]
    BY DEF LossInv, Complete, Done
  <1>3. \A g \in Futures : Outlets(g)' = Outlets(g)
    BY DEF LossInv, Complete, ScheduleCallbacks, Outlets, Awaited
  <1>4. CrossInv /\ Accounted(p)
    BY DEF LossInv
  <1> QED  BY <1>1, <1>2, <1>3, <1>4, AccountKept DEF Done

\* The other actions of the programs take nothing away.
LEMMA OthersKeepAccount ==
    ASSUME LossInv, NEW p \in Promises,
           \/ \E q \in Promises : NewPromise(q) \/ Catch(q)
           \/ \E f \in Futures : CreateFuture(f) \/ Retrieve(f)
           \/ \E h \in {"default", "own"} : SetExceptionHandler(h)
           \/ UNCHANGED vars
    PROVE  Accounted(p)'
  <1> USE DEF CrossInv, RefsInv, TypeOK, Stages
  <1>1. CASE promise'[p] # "rejected"
    BY <1>1 DEF Accounted
  <1>2. CASE promise'[p] = "rejected"
    <2>1. /\ promise[p] = "rejected"
          /\ UNCHANGED <<source, reaction, outletOf, doneCb, muted, reported>>
          /\ caught \subseteq caught' /\ retrieved \subseteq retrieved' /\ held \subseteq held'
      BY <1>2 DEF LossInv, NewPromise, Catch, CreateFuture, Retrieve, SetExceptionHandler,
                  vars, jsVars, pyVars
    <2>2. \A g \in Futures : future'[g] = future[g] \/ future[g] = "none"
      BY DEF LossInv, NewPromise, Catch, CreateFuture, Retrieve, SetExceptionHandler,
             vars, jsVars, pyVars, NewFutures
    <2>3. \A g \in Futures : Outlets(g)' = Outlets(g)
      BY <2>1 DEF Outlets, Awaited
    <2>4. CrossInv /\ Accounted(p)
      BY DEF LossInv
    <2> QED  BY ONLY <2>1, <2>2, <2>3, <2>4, AccountKept, p \in Promises
  <1> QED  BY <1>1, <1>2

LEMMA StepKeepsAccounts ==
    ASSUME LossInv, [Next]_vars PROVE \A p \in Promises : Accounted(p)'
  <1> TAKE p \in Promises
  <1>1. ASSUME NEW f \in Futures, Cancel(f) \/ \E how \in Done : Finish(f, how)
        PROVE  Accounted(p)'
    BY <1>1, CompleteKeepsAccount DEF Cancel, Finish, Done
  <1> QED  BY <1>1, ImportKeepsAccount, onResolvedCbKeepsAccount, futureOnDoneCallbackKeepsAccount,
              SettleOwnKeepsAccount, ReleaseKeepsAccount, OthersKeepAccount DEF Next

\* No rejection is lost: it is caught, it can still be seen from Python, or it has been
\* reported when its last Future was freed.
THEOREM NoRejectionLost == Spec => []NoRejectionIsLost
  <1>1. Init => LossInv
    BY InitRefs, InitStages DEF LossInv, CrossInv, Init, Accounted
  <1>2. LossInv /\ [Next]_vars => LossInv'
    BY StepKeepsRefs, StepKeepsStages, StepKeepsAccounts DEF LossInv, CrossInv
  <1> QED  BY <1>1, <1>2, LossInvSuffices, PTL DEF Spec

-----------------------------------------------------------------------------
(***************************************************************************)
(* The queue of jobs.  The inductive invariant is JobTypeOK, with a        *)
(* counter that might be negative, and NoLostWakeup: a unit is counted off *)
(* only while it runs, and a running unit is counted, so that the counter  *)
(* cannot go below zero.                                                   *)
(***************************************************************************)

Counting == {"counted", "stale", "cleared", "queued", "running", "lost"}

LEMMA FiniteCounted == /\ IsFiniteSet(Counted)
                       /\ Cardinality(Counted) \in Nat
<1>1. IsFiniteSet(Units)
  BY UnitsAssumption, FS_Union DEF Units
<1>. QED
  BY <1>1, FS_Subset, FS_CardinalityType DEF Counted

\* A unit that keeps, gains or loses its count.
LEMMA BecomeCounts ==
    ASSUME JobTypeOK, NEW u \in Units, NEW phase \in Phases, Become(u, phase)
    PROVE  /\ unit' \in [Units -> Phases]
           /\ (unit[u] \in Counting <=> phase \in Counting) => Counted' = Counted
           /\ unit[u] \notin Counting /\ phase \in Counting
                 => Cardinality(Counted') = Cardinality(Counted) + 1
           /\ unit[u] \in Counting /\ phase \notin Counting
                 => Cardinality(Counted') = Cardinality(Counted) - 1
<1>1. unit' \in [Units -> Phases]
  BY DEF Become, JobTypeOK
<1>2. \A v \in Units : unit'[v] = IF v = u THEN phase ELSE unit[v]
  BY DEF Become, JobTypeOK
<1>3. ASSUME unit[u] \in Counting <=> phase \in Counting
      PROVE  Counted' = Counted
  BY <1>2, <1>3 DEF Counted, Counting
<1>4. ASSUME unit[u] \notin Counting, phase \in Counting
      PROVE  Cardinality(Counted') = Cardinality(Counted) + 1
  <2>1. Counted' = Counted \cup {u} /\ u \notin Counted
    BY <1>2, <1>4 DEF Counted, Counting
  <2>. QED
    BY <2>1, FiniteCounted, FS_AddElement
<1>5. ASSUME unit[u] \in Counting, phase \notin Counting
      PROVE  Cardinality(Counted') = Cardinality(Counted) - 1
  <2>1. Counted' = Counted \ {u} /\ u \in Counted
    BY <1>2, <1>5 DEF Counted, Counting
  <2>. QED
    BY <2>1, FiniteCounted, FS_RemoveElement
<1>. QED
  BY <1>1, <1>3, <1>4, <1>5

\* A counted unit makes the counter positive.
LEMMA CountedIsPositive ==
    ASSUME JobTypeOK, NoLostWakeup, NEW u \in Counted
    PROVE  counter > 0
<1>1. Cardinality(Counted) # 0
  BY FiniteCounted, FS_EmptySet
<1>. QED
  BY <1>1, FiniteCounted DEF NoLostWakeup

JobInv == JobTypeOK /\ NoLostWakeup

LEMMA SenderKeepsInv ==
    ASSUME JobInv, NEW d \in Dispatchables, SenderStep(d)
    PROVE  JobInv'
<1>. USE DEF JobInv
<1>u. d \in Units
  BY DEF Units
<1>1. CASE StartOffThread(d) \/ DispatchToEventLoop(d)
  <2>1. PICK phase \in {"offthread", "dispatched"} : Become(d, phase)
    BY <1>1 DEF StartOffThread, DispatchToEventLoop
  <2>2. unit[d] \notin Counting
    BY <1>1 DEF StartOffThread, DispatchToEventLoop, Counting
  <2>3. unit' \in [Units -> Phases] /\ Counted' = Counted
    BY <1>u, <2>1, <2>2, BecomeCounts DEF Counting, Phases
  <2>. QED
    BY <1>1, <2>3 DEF StartOffThread, DispatchToEventLoop, JobTypeOK, NoLostWakeup
<1>2. CASE SendJobToMainLoop(d) /\ loop = "open"
  <2>1. Become(d, "counted") /\ unit[d] = "dispatched"
    BY <1>2 DEF SendJobToMainLoop
  <2>2. unit' \in [Units -> Phases] /\ Cardinality(Counted') = Cardinality(Counted) + 1
    BY <1>u, <2>1, BecomeCounts DEF Counting, Phases
  <2>. QED
    BY <1>2, <2>2, FiniteCounted DEF SendJobToMainLoop, JobTypeOK, NoLostWakeup
<1>3. CASE SendJobToMainLoop(d) /\ loop = "closed"
  <2>1. Become(d, "dropped") /\ unit[d] = "dispatched"
    BY <1>3 DEF SendJobToMainLoop
  <2>2. unit' \in [Units -> Phases] /\ Counted' = Counted
    BY <1>u, <2>1, BecomeCounts DEF Counting, Phases
  <2>. QED
    BY <1>3, <2>2 DEF SendJobToMainLoop, JobTypeOK, NoLostWakeup
<1>4. CASE SenderClears(d)
  <2>1. PICK phase \in {"cleared", "lost"} :
           Become(d, phase) /\ unit[d] \in {"counted", "stale"}
    BY <1>4 DEF SenderClears
  <2>2. unit' \in [Units -> Phases] /\ Counted' = Counted
    BY <1>u, <2>1, BecomeCounts DEF Counting, Phases
  <2>3. counter > 0
    BY <1>u, <2>1, CountedIsPositive DEF Counted
  <2>. QED
    BY <1>4, <2>2, <2>3 DEF SenderClears, JobTypeOK, NoLostWakeup
<1>5. CASE SenderSchedules(d)
  <2>1. Become(d, "queued") /\ unit[d] = "cleared"
    BY <1>5 DEF SenderSchedules
  <2>2. unit' \in [Units -> Phases] /\ Counted' = Counted
    BY <1>u, <2>1, BecomeCounts DEF Counting, Phases
  <2>. QED
    BY <1>5, <2>2 DEF SenderSchedules, JobTypeOK, NoLostWakeup
<1>. QED
  BY <1>1, <1>2, <1>3, <1>4, <1>5 DEF SenderStep, SendJobToMainLoop

LEMMA MainKeepsInv ==
    ASSUME JobInv
    PROVE  /\ \A j \in Jobs : EnqueuePromiseJob(j) \/ MainClears(j) => JobInv'
           /\ \A u \in Units : RunUnit(u) \/ EventLoopJobWrapper(u) => JobInv'
<1>. USE DEF JobInv
<1>1. ASSUME NEW j \in Jobs, EnqueuePromiseJob(j) PROVE JobInv'
  <2>1. Become(j, "counted") /\ unit[j] = "new" /\ j \in Units
    BY <1>1 DEF EnqueuePromiseJob, Units
  <2>2. unit' \in [Units -> Phases] /\ Cardinality(Counted') = Cardinality(Counted) + 1
    BY <2>1, BecomeCounts DEF Counting, Phases
  <2>. QED
    BY <1>1, <2>2, FiniteCounted DEF EnqueuePromiseJob, JobTypeOK, NoLostWakeup
<1>2. ASSUME NEW j \in Jobs, MainClears(j) PROVE JobInv'
  <2>1. Become(j, "queued") /\ unit[j] = "counted" /\ j \in Units
    BY <1>2 DEF MainClears, Units
  <2>2. unit' \in [Units -> Phases] /\ Counted' = Counted
    BY <2>1, BecomeCounts DEF Counting, Phases
  <2>3. counter > 0
    BY <2>1, CountedIsPositive DEF Counted
  <2>. QED
    BY <1>2, <2>2, <2>3 DEF MainClears, JobTypeOK, NoLostWakeup
<1>3. ASSUME NEW u \in Units, RunUnit(u) PROVE JobInv'
  <2>1. Become(u, "running") /\ unit[u] = "queued"
    BY <1>3 DEF RunUnit
  <2>2. unit' \in [Units -> Phases] /\ Counted' = Counted
    BY <2>1, BecomeCounts DEF Counting, Phases
  <2>. QED
    BY <1>3, <2>2 DEF RunUnit, JobTypeOK, NoLostWakeup
<1>4. ASSUME NEW u \in Units, EventLoopJobWrapper(u) PROVE JobInv'
  <2>1. Become(u, "done") /\ unit[u] = "running"
    BY <1>4 DEF EventLoopJobWrapper
  <2>2. unit' \in [Units -> Phases] /\ Cardinality(Counted') = Cardinality(Counted) - 1
    BY <2>1, BecomeCounts DEF Counting, Phases
  <2>3. counter > 0
    BY <2>1, CountedIsPositive DEF Counted
  <2>. QED
    BY <1>4, <2>2, <2>3, FiniteCounted DEF EventLoopJobWrapper, MainFree, JobTypeOK, NoLostWakeup
<1>. QED
  BY <1>1, <1>2, <1>3, <1>4

LEMMA LoopKeepsInv ==
    ASSUME JobInv
    PROVE  /\ MainSets => JobInv'
           /\ \A w \in Waiters : WaitForEventLoop(w) \/ WaitReturns(w) => JobInv'
           /\ LoopClose \/ LoopOpen => JobInv'
           /\ UNCHANGED jobVars => JobInv'
<1>. USE DEF JobInv
<1>1. ASSUME UNCHANGED unit PROVE Counted' = Counted
  BY <1>1 DEF Counted
<1>2. ASSUME MainSets PROVE JobInv'
  BY <1>1, <1>2 DEF MainSets, JobTypeOK, NoLostWakeup
<1>3. ASSUME NEW w \in Waiters, WaitForEventLoop(w) \/ WaitReturns(w) PROVE JobInv'
  BY <1>1, <1>3 DEF WaitForEventLoop, WaitReturns, JobTypeOK, NoLostWakeup
<1>4. ASSUME LoopClose PROVE JobInv'
  <2>1. unit' \in [Units -> Phases] /\ Counted' = Counted
    BY <1>4 DEF LoopClose, JobTypeOK, Phases, Counted
  <2>. QED
    BY <1>4, <2>1 DEF LoopClose, JobTypeOK, NoLostWakeup
<1>5. ASSUME LoopOpen \/ UNCHANGED jobVars PROVE JobInv'
  BY <1>1, <1>5 DEF LoopOpen, jobVars, JobTypeOK, NoLostWakeup
<1>. QED
  BY <1>2, <1>3, <1>4, <1>5

LEMMA Inductive == JobSpec => []JobInv
<1>1. JobInit => JobInv
  <2>1. ASSUME JobInit PROVE Counted = {}
    BY <2>1 DEF JobInit, Counted
  <2>2. ASSUME JobInit PROVE Cardinality(Counted) = 0
    BY <2>1, <2>2, FS_EmptySet
  <2>. QED
    BY <2>2 DEF JobInit, JobInv, JobTypeOK, Phases, NoLostWakeup
<1>2. JobInv /\ [JobNext]_jobVars => JobInv'
  <2>1. ASSUME JobInv, JobNext PROVE JobInv'
    BY <2>1, SenderKeepsInv, MainKeepsInv, LoopKeepsInv DEF JobNext
  <2>. QED
    BY <2>1, LoopKeepsInv
<1>. QED
  BY <1>1, <1>2, PTL DEF JobSpec

\* The state of JobQueue has its types and the job counter is never negative,
\* however the helper threads and the main thread interleave their updates.
THEOREM JobTypeCorrect == JobSpec => []JobTypeOK
<1>1. JobInv => JobTypeOK
  BY DEF JobInv
<1>. QED
  BY <1>1, Inductive, PTL

\* A cleared event always has somebody left to set it, and no task waits on a
\* set event, although Event.set() and Event.clear() of two threads may land in
\* the other order than the updates of the counter they belong to.
THEOREM NoWakeupIsLost == JobSpec => []NoLostWakeup
<1>1. JobInv => NoLostWakeup
  BY DEF JobInv
<1>. QED
  BY <1>1, Inductive, PTL
=============================================================================
