------------------------------ MODULE MCBudgets ------------------------------
(* A model-checking instance of Budgets.                                     *)
EXTENDS Budgets, TLC

\* Two policies that may be approved, and differ in all that settling asks.
Strict ==
    [mode |-> "enforce", late_usage |-> "hold_reservation",
     unknown_cost |-> "charge_reservation"]
Lenient == [Strict EXCEPT !.late_usage = "release", !.unknown_cost = "ignore"]

MCBodies == {Strict, Lenient}

Symmetry == Permutations(Launches)
=============================================================================
