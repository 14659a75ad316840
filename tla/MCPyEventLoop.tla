---------------------------- MODULE MCPyEventLoop ----------------------------
(***************************************************************************)
(* Bounds for PyEventLoop.  Jobs differ in nothing but their names, and so *)
(* do the tasks that wait.                                                 *)
(***************************************************************************)
EXTENDS PyEventLoop, TLC

Symmetry == Permutations(Jobs) \cup Permutations(Waiters)
==============================================================================
