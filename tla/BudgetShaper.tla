----------------------------- MODULE BudgetShaper -----------------------------
(***************************************************************************)
(* SpecRhythmBudgetShaper.shape (spec_rhythm.py 186-316) as an algorithm:  *)
(* stage 1 closes projected progress gaps request by request, stage 2      *)
(* spends what is left token by token.  The order of both stages comes     *)
(* from float-valued priorities and is left open.                          *)
(***************************************************************************)
EXTENDS SpecRhythmBudget

CONSTANTS
    Request,
    DraftBudgets,   \* the draft_token_budget of a call: numbers or NoBudget
    MaxGap,         \* bound: the largest projected progress gap
    MaxContext      \* bound: the longest context

ASSUME ShaperAssumption ==
    /\ DOMAIN RequestMaxGamma = Request
    /\ DraftBudgets \subseteq Nat \cup {NoBudget}
    /\ MaxGap \in Nat /\ MaxContext \in Nat \ {0}

VARIABLES
    normal, eager,  \* the two request sets of the call
    gap,            \* requested -> projected_progress_gap
    eligible,       \* the requests whose expected benefit reaches the floor
    roof,           \* verification_roof
    available,      \* available_draft
    stage,          \* "minimum", "gaps", "residual", "done" or "raised"
    todo,           \* the requests stage 1 has not come to yet
    budget,         \* normal_budgets and eager_budgets, 0 for an absent key
    remainingRoof, remainingDraft

inputs == <<normal, eager, gap, eligible, roof, available>>

vars == <<inputs, stage, todo, budget, remainingRoof, remainingDraft>>

Requested == normal \cup eager

(* The engine asks for disjoint parts of its active batch.                 *)
Init ==
    /\ \E active \in SUBSET Request \ {{}} :
          /\ normal \in SUBSET active
          /\ eager \in SUBSET (active \ normal)
          /\ \E contextLen \in 1..MaxContext :
                roof = VerificationRoof(Cardinality(active), contextLen)
    /\ \E b \in DraftBudgets : available = AvailableDraft(roof, b)
    /\ gap \in [Requested -> 0..MaxGap]
    /\ eligible \in SUBSET Requested
    /\ stage = "minimum"
    /\ todo = {}
    /\ budget = [r \in Requested |-> 0]
    /\ remainingRoof = roof
    /\ remainingDraft = available

(* Every normal proposal gets its minimum, or the call raises.             *)
AllocateMinimum ==
    LET needed == SumOf(MinimumBudgets(normal))
    IN  /\ stage = "minimum"
        /\ IF ~MinimumFits(normal, roof, available)
           THEN stage' = "raised" /\ UNCHANGED <<todo, budget, remainingRoof, remainingDraft>>
           ELSE /\ stage' = "gaps"
                /\ todo' = Requested
                /\ budget' = [r \in Requested |->
                      IF r \in normal THEN MinimumBudgets(normal)[r] ELSE 0]
                /\ remainingRoof' = remainingRoof - needed
                /\ remainingDraft' = remainingDraft - needed
        /\ UNCHANGED inputs

(* Mutant of Wanted: one token short of the gap.                           *)
WantedShort(r) ==
    IF r \in normal THEN Greatest(0, Least(Cap(r), gap[r] - 1) - budget[r])
                    ELSE Least(Cap(r), Greatest(MinGamma, gap[r] - 1))

Wanted(r) ==
    IF r \in normal THEN Greatest(0, Least(Cap(r), gap[r]) - budget[r])
                    ELSE Least(Cap(r), Greatest(MinGamma, gap[r]))

Grant(r) == Least(Wanted(r), Least(remainingRoof, remainingDraft))

(* Stage 1, one request.                                                   *)
CloseGap(r) ==
    /\ stage = "gaps"
    /\ r \in todo
    /\ todo' = todo \ {r}
    /\ IF gap[r] <= 0 \/ r \notin eligible
       THEN UNCHANGED <<stage, budget, remainingRoof, remainingDraft>>
       ELSE /\ budget' = [budget EXCEPT ![r] = @ + Grant(r)]
            /\ remainingRoof' = remainingRoof - Grant(r)
            /\ remainingDraft' = remainingDraft - Grant(r)
            /\ stage' = IF remainingDraft' <= 0 THEN "residual" ELSE stage
    /\ UNCHANGED inputs

GapsClosed ==
    /\ stage = "gaps"
    /\ todo = {}
    /\ stage' = "residual"
    /\ UNCHANGED <<inputs, todo, budget, remainingRoof, remainingDraft>>

(* Mutant of Candidates: eager requests below the floor take part.         *)
CandidatesBelowFloor ==
    {r \in Requested : remainingDraft > 0 /\ remainingRoof > 0 /\ budget[r] < Cap(r)}

Candidates ==
    {r \in Requested :
        /\ remainingDraft > 0 /\ remainingRoof > 0
        /\ budget[r] < Cap(r)
        /\ r \in eager => r \in eligible}

(* Stage 2, one token.                                                     *)
SpendResidual(r) ==
    /\ stage = "residual"
    /\ r \in Candidates
    /\ budget' = [budget EXCEPT ![r] = @ + 1]
    /\ remainingRoof' = remainingRoof - 1
    /\ remainingDraft' = remainingDraft - 1
    /\ UNCHANGED <<inputs, stage, todo>>

(* Mutant of ReturnPlan: the loop goes on when nobody can take a token.    *)
ReturnPlanContinues ==
    /\ stage = "residual"
    /\ Candidates = {}
    /\ stage' = IF remainingDraft <= 0 THEN "done" ELSE stage
    /\ UNCHANGED <<inputs, todo, budget, remainingRoof, remainingDraft>>

ReturnPlan ==
    /\ stage = "residual"
    /\ Candidates = {}
    /\ stage' = "done"
    /\ UNCHANGED <<inputs, todo, budget, remainingRoof, remainingDraft>>

Step ==
    \/ AllocateMinimum
    \/ \E r \in Requested : CloseGap(r)
    \/ GapsClosed
    \/ \E r \in Requested : SpendResidual(r)
    \/ ReturnPlan

Finish == stage \in {"done", "raised"} /\ UNCHANGED vars

Next == Step \/ Finish

Spec == Init /\ [][Next]_vars /\ WF_vars(Step)
------------------------------------------------------------------------------
(* Properties.                                                             *)

(* What shape returns is what the pipeline relies on: minima and caps are  *)
(* respected, the shared roofline and the draft budget are, and capacity   *)
(* is left over only when everyone has all it may have.  The guards of     *)
(* SpecRhythmBudgetPlan (125-145) follow.                                  *)
KeepsPromise ==
    stage = "done" =>
        /\ [r \in normal \cup (eager \cap eligible) |-> budget[r]]
              \in ShapeOutcomes(normal, eager \cap eligible, roof, available)
        /\ \A r \in eager \ eligible : budget[r] = 0

(* "Stage 1: close projected progress gaps" (237): no token is spent on    *)
(* residual progress while an eligible request is short of its gap.        *)
GapsBeforeResidual ==
    stage = "residual" /\ remainingRoof > 0 /\ remainingDraft > 0 =>
        \A r \in Requested \cap eligible : budget[r] >= Least(Cap(r), gap[r])

(* With the default minimum of one token and a draft budget that is not    *)
(* below the batch, as without an explicit one, the call cannot raise      *)
(* (218-223): the roof is at least the batch size.                         *)
DefaultsNeverRaise ==
    MinGamma = 1 /\ available >= Cardinality(normal) => stage # "raised"

(* The allocation loop ends.                                               *)
Termination == <>(stage \in {"done", "raised"})
=============================================================================
