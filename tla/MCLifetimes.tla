-------------------------------- MODULE MCLifetimes --------------------------------
(* Objects, cells and strings are interchangeable. *)
EXTENDS Lifetimes, TLC

MCSymmetry == Permutations(Objects) \cup Permutations(Cells) \cup Permutations(Strings)
==================================================================================
