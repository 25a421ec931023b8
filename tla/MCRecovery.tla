----------------------------- MODULE MCRecovery -----------------------------
(* Budgets and callers for the model checker. *)
EXTENDS Recovery

(* The default budgets (2, 1, 1, 2), with one repair instead of two: none is ever spent. *)
SmallBudget == [f \in Families |-> IF f = "reinjectPrompt" THEN 2 ELSE 1]

AllCallers == {"operate", "owner", "cli"}

=============================================================================
