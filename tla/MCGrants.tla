------------------------------ MODULE MCGrants ------------------------------
(* Operator requests and calls are interchangeable. *)
EXTENDS Grants, TLC
Symmetry == Permutations(Ops) \cup Permutations(Calls)

(* A month of two hours, then one of a single hour.  Ticks are the instants *)
(* looked at: the boundaries of the hours, two of which are boundaries of   *)
(* the months, and one in the middle of the last hour.                     *)
MCStarts == [hourly |-> {0, 1, 2, 4}, monthly |-> {0, 2, 4}]
=============================================================================
