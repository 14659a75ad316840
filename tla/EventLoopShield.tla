--------------------------- MODULE EventLoopShield ---------------------------
(***************************************************************************)
(* What pm.wait(), "the event-loop shield", promises its callers, without  *)
(* the counter, the asyncio.Event and the timer handles that implement it. *)
(*                                                                         *)
(* An obligation is one asynchronous piece of work that must keep the      *)
(* program alive: a ref'ed timer, a queued JS job, a Python awaitable some *)
(* JS Promise waits for.  A caller that finds no obligation passes; any    *)
(* other caller parks, and is released by the one step that discharges     *)
(* every obligation outstanding before it.  Module PyEventLoop implements  *)
(* this specification.                                                     *)
(***************************************************************************)
CONSTANTS Obligations,   \* every obligation there may ever be
          Waiters        \* Python tasks that call pm.wait()

VARIABLES active,        \* the obligations not discharged yet
          waiter         \* "idle", "waiting" or "woken", per waiter

vars == <<active, waiter>>

Released == [w \in Waiters |-> IF waiter[w] = "waiting" THEN "woken" ELSE waiter[w]]

Init == /\ active = {}
        /\ waiter = [w \in Waiters |-> "idle"]

\* New work appears; nobody is released by it.
Oblige(new) == /\ active' = active \cup new
               /\ UNCHANGED waiter

\* The work in done ends and the work in new starts, in that order.  Work that
\* goes on is neither: nobody is released while it does.
Discharge(done, new) ==
    /\ done # {}
    /\ done \subseteq active
    /\ new \cap active = {}
    /\ active' = (active \ done) \cup new
    /\ waiter' = IF done = active THEN Released ELSE waiter

Park(w) == /\ waiter[w] = "idle"
           /\ active # {}
           /\ waiter' = [waiter EXCEPT ![w] = "waiting"]
           /\ UNCHANGED active

Leave(w) == /\ waiter[w] = "woken"
            /\ waiter' = [waiter EXCEPT ![w] = "idle"]
            /\ UNCHANGED active

\* The event loop closes: the tasks that waited are cancelled.
Abandon == /\ waiter' = [w \in Waiters |-> "idle"]
           /\ UNCHANGED active

Next == \/ \E new \in SUBSET Obligations : Oblige(new)
        \/ \E done, new \in SUBSET Obligations : Discharge(done, new)
        \/ \E w \in Waiters : Park(w) \/ Leave(w)
        \/ Abandon

Spec == Init /\ [][Next]_vars
==============================================================================
