------------------------------ MODULE MCArrayProxy ------------------------------
(***************************************************************************)
(* Bounds for ArrayProxy: slices that begin and end before, in and behind  *)
(* an array of up to three elements, forward and backward.                 *)
(***************************************************************************)
EXTENDS ArrayProxy

MCStarts == {Missing, -2, 0, 1, 4}
MCStops == {Missing, -1, 0, 2, 4}
MCSteps == {1, 2, -1, -2}
MCFactors == -1..2
=================================================================================
