---------------------------- MODULE MCBudgetGate -----------------------------
(* An instance of BudgetGate for TLC. *)
EXTENDS BudgetGate, TLC

CONSTANTS i1, i2, i3, t1, t2, nobody
==============================================================================
