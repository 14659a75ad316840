------------------------------ MODULE MCPromiseBridge ------------------------------
(* Promises, and Futures, are interchangeable. *)
EXTENDS PromiseBridge, TLC

MCSymmetry == Permutations(Promises) \cup Permutations(Futures)
==================================================================================
