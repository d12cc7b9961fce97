---------------------------- MODULE MCBudgetShaper ----------------------------
(* Instances of BudgetShaper small enough for TLC.                         *)
EXTENDS BudgetShaper

(* One request has a cap of its own.                                       *)
MCRequestMaxGamma == [r \in Request |-> IF r = 0 THEN 1 ELSE MaxGamma]

MCRooflineBatchContext == [k \in {<<2, 1>>, <<3, 2>>} |-> IF k[1] = 2 THEN 3 ELSE 5]

MCRooflineBatch == [k \in {3} |-> 2]

MCDraftBudgets == {NoBudget, 1, 3}

=============================================================================
