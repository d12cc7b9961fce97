--------------------------- MODULE SpecRhythmBudget ---------------------------
(***************************************************************************)
(* What SpecRhythmBudgetShaper promises (spec_rhythm.py 112-316): the      *)
(* roofline lookup, and the budgets one call of shape() may return when    *)
(* the policy (progress gaps, urgency, acceptance averages) is unknown.    *)
(* BudgetShaper shows that the algorithm keeps the promise.                *)
(***************************************************************************)
EXTENDS Integers, FiniteSets
LOCAL INSTANCE Functions

CONSTANTS
    MinGamma,               \* spec_rhythm_min_gamma
    MaxGamma,               \* max_gamma, the engine's gamma
    RequestMaxGamma,        \* request -> params.spec_rhythm_max_gamma
    RooflineBatchContext,   \* <<batch size, context bucket>> -> entry
    RooflineBatch,          \* batch size -> entry
    RooflineDefault,        \* the "default" entry, 0 when there is none
    ContextBucket           \* 512 tokens in the code

ASSUME BudgetAssumption ==
    /\ MinGamma \in Nat \ {0} /\ MaxGamma \in Nat /\ MinGamma <= MaxGamma
    /\ \A r \in DOMAIN RequestMaxGamma : RequestMaxGamma[r] \in Nat \ {0}
    /\ \A k \in DOMAIN RooflineBatchContext : RooflineBatchContext[k] \in Nat \ {0}
    /\ \A k \in DOMAIN RooflineBatch : RooflineBatch[k] \in Nat \ {0}
    /\ RooflineDefault \in Nat /\ ContextBucket \in Nat \ {0}

Least(a, b) == IF a < b THEN a ELSE b

Greatest(a, b) == IF a < b THEN b ELSE a

SumOf(f) == FoldFunction(LAMBDA x, y : x + y, 0, f)

(* Mutant of VerificationRoof: an entry below the batch size is taken as   *)
(* it is.                                                                  *)
VerificationRoofUnclamped(batch, contextLen) ==
    LET bucket == (contextLen + ContextBucket - 1) \div ContextBucket
    IN  IF <<batch, bucket>> \in DOMAIN RooflineBatchContext
        THEN RooflineBatchContext[<<batch, bucket>>]
        ELSE IF batch \in DOMAIN RooflineBatch THEN RooflineBatch[batch]
        ELSE IF RooflineDefault > 0 THEN RooflineDefault ELSE batch * MaxGamma

VerificationRoof(batch, contextLen) ==
    LET bucket == (contextLen + ContextBucket - 1) \div ContextBucket
    IN  IF <<batch, bucket>> \in DOMAIN RooflineBatchContext
        THEN Greatest(batch, RooflineBatchContext[<<batch, bucket>>])
        ELSE IF batch \in DOMAIN RooflineBatch THEN Greatest(batch, RooflineBatch[batch])
        ELSE IF RooflineDefault > 0 THEN Greatest(batch, RooflineDefault)
        ELSE batch * MaxGamma

NoBudget == -1

AvailableDraft(roof, draftTokenBudget) ==
    IF draftTokenBudget = NoBudget THEN 2 * roof ELSE draftTokenBudget

Cap(r) == Least(MaxGamma, RequestMaxGamma[r])

MinimumBudgets(normal) == [r \in normal |-> Least(MinGamma, Cap(r))]

(* shape raises when even the minimum does not fit.                        *)
MinimumFits(normal, roof, available) ==
    SumOf(MinimumBudgets(normal)) <= Least(roof, available)

(* The budgets shape may return: every normal proposal has its minimum,    *)
(* nobody exceeds a cap, and capacity is left only when every cap is       *)
(* reached.  eager holds the candidates above the acceptance floor; a      *)
(* budget of 0 is an absent key.                                           *)
ShapeOutcomes(normal, eager, roof, available) ==
    LET caps == [r \in normal \cup eager |-> Cap(r)]
        total == Least(SumOf(caps), Least(roof, available))
    IN  {b \in [normal \cup eager -> 0..MaxGamma] :
            /\ \A r \in normal \cup eager : b[r] <= Cap(r)
            /\ \A r \in normal : b[r] >= MinimumBudgets(normal)[r]
            /\ SumOf(b) = total}
=============================================================================
