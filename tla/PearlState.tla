----------------------------- MODULE PearlState -----------------------------
(***************************************************************************)
(* The logical sequence state that every draft and target worker keeps for *)
(* a request (PearlPipelineState in native_engine.py), and the pure        *)
(* functions the engine applies to it: the two verification transitions,   *)
(* the verdicts, the stop test and the truncation of the result.           *)
(*                                                                         *)
(* A state is a record                                                     *)
(*   tokens     token_ids: prompt, committed and still unverified tokens   *)
(*   pre        pre_verify: the next round verifies one token only         *)
(*   committed  committed_length                                           *)
(*   pending    pending_window_size: width of the unverified window        *)
(*   epoch      continuation_epoch (verification_rounds moves with it)     *)
(*   segments   the sum of num_acc_tokens                                  *)
(*   current    cur_acc_tokens                                             *)
(* The counters accepted_draft_tokens and verified_draft_tokens are only   *)
(* reported, never read, and are left out.                                 *)
(***************************************************************************)
EXTENDS Integers, Sequences

CONSTANTS
    Token,      \* the draft vocabulary both models share
    Eos,        \* eos_token_ids
    NoToken     \* -1 in a verdict tensor: no correction

ASSUME TokenAssumption == Eos \subseteq Token /\ NoToken \notin Token

(* A state as generate_batch leaves it after prefill: the prompt and the   *)
(* target's first token, both committed.                                   *)
PrefilledState(prompt, first) ==
    [ tokens |-> Append(prompt, first), pre |-> TRUE,
      committed |-> Len(prompt) + 1, pending |-> 0, epoch |-> 0,
      segments |-> 0, current |-> 0 ]

DropLast(s, n) == SubSeq(s, 1, Len(s) - n)

TakeLast(s, n) == SubSeq(s, Len(s) - n + 1, Len(s))

(* _verification_size; explicit is 0 when the caller passes no             *)
(* verification_size.                                                      *)
VerificationSize(st, gamma, explicit) ==
    IF st.pre THEN 1
    ELSE IF explicit > 0 THEN explicit
    ELSE IF st.pending > 0 THEN st.pending ELSE gamma

(* The tests of _validate_verification and of _verification_size.          *)
ValidVerification(gamma, expected, accepted, correction, next) ==
    /\ expected \in 1..gamma
    /\ Len(next) \in 1..gamma
    /\ accepted \in 0..expected
    /\ (accepted = expected) <=> (correction = NoToken)

(* The part that both transitions share; they differ in the tokens kept.   *)
Account(st, tokens, expected, accepted, next) ==
    LET full == accepted = expected
    IN  [ tokens |-> tokens,
          pre |-> ~full,
          committed |-> st.committed + accepted + (IF full THEN 0 ELSE 1),
          pending |-> IF full THEN Len(next) ELSE 0,
          epoch |-> st.epoch + 1,
          segments |-> IF full THEN st.segments ELSE st.segments + st.current + accepted + 1,
          current |-> IF full THEN st.current + accepted ELSE 0 ]

(* Mutant of RolledBack: drops one token too many.                         *)
RolledBackTooFar(st, tokens, expected, accepted, correction) ==
    Append(IF st.pre THEN tokens ELSE DropLast(tokens, expected - accepted), correction)

(* token_ids of a rejected window: drop the unverified part of the window  *)
(* that was already appended, then append the target's correction.         *)
RolledBack(st, tokens, expected, accepted, correction) ==
    LET rollout == expected - accepted
        kept == IF ~st.pre /\ rollout > 1 THEN DropLast(tokens, rollout - 1)
                                          ELSE tokens
    IN  Append(kept, correction)

ApplyTargetVerification(st, expected, accepted, correction, next) ==
    Account(st, IF accepted = expected THEN st.tokens \o next
                ELSE RolledBack(st, st.tokens, expected, accepted, correction),
            expected, accepted, next)

(* Mutant of ApplyDraftVerification: the own window is not taken back.     *)
ApplyDraftKeepsWindow(st, expected, accepted, correction, next) ==
    Account(st, IF accepted = expected THEN st.tokens
                ELSE RolledBack(st, st.tokens, expected, accepted, correction),
            expected, accepted, next)

(* Mutant of ApplyDraftVerification: the verification mode is not updated. *)
ApplyDraftKeepsMode(st, expected, accepted, correction, next) ==
    [ Account(st, IF accepted = expected THEN st.tokens
                  ELSE RolledBack(st, DropLast(st.tokens, Len(next)),
                                  expected, accepted, correction),
              expected, accepted, next) EXCEPT !.pre = st.pre ]

(* The draft has already appended next to its own token_ids.               *)
ApplyDraftVerification(st, expected, accepted, correction, next) ==
    Account(st, IF accepted = expected THEN st.tokens
                ELSE RolledBack(st, DropLast(st.tokens, Len(next)),
                                expected, accepted, correction),
            expected, accepted, next)

(* Mutant of GreedyVerdict: counts the first mismatch as accepted.         *)
GreedyVerdictOffByOne(predicted, proposed) ==
    LET mismatches == {i \in 1..Len(proposed) : predicted[i] # proposed[i]}
        first == CHOOSE i \in mismatches : \A j \in mismatches : i <= j
    IN  IF mismatches = {} \/ first = Len(proposed)
        THEN [accepted |-> Len(proposed), correction |-> NoToken]
        ELSE [accepted |-> first, correction |-> predicted[first + 1]]

(* The greedy verdict of one row: the length of the common prefix of what  *)
(* the target predicts and what the draft proposed, and the prediction at  *)
(* the first mismatch.                                                     *)
GreedyVerdict(predicted, proposed) ==
    LET mismatches == {i \in 1..Len(proposed) : predicted[i] # proposed[i]}
        first == CHOOSE i \in mismatches : \A j \in mismatches : i <= j
    IN  IF mismatches = {}
        THEN [accepted |-> Len(proposed), correction |-> NoToken]
        ELSE [accepted |-> first - 1, correction |-> predicted[first]]

(* Mutant of StochasticVerdicts: the window is accepted without a look at  *)
(* the target.                                                             *)
StochasticVerdictsAcceptAll(support, proposed) ==
    {[accepted |-> Len(proposed), correction |-> NoToken]}

(* The verdicts that sampling can produce for one row when support[i] is   *)
(* the set of tokens of non-zero probability at position i: a proposed     *)
(* token is accepted with its own probability, and the correction is drawn *)
(* from the distribution without the rejected token.                       *)
StochasticVerdicts(support, proposed) ==
    LET width == Len(proposed)
        acceptable(k) == \A i \in 1..k : proposed[i] \in support[i]
    IN  {[accepted |-> width, correction |-> NoToken] : k \in {n \in {width} : acceptable(n)}}
        \cup
        UNION { {[accepted |-> k, correction |-> c] :
                    c \in support[k + 1] \ {proposed[k + 1]}} :
                k \in {n \in 0..(width - 1) : acceptable(n)} }

CommittedCompletion(st, promptLen) ==
    SubSeq(st.tokens, promptLen + 1, st.committed)

(* Mutant of Finished: max_tokens is not tested.                           *)
FinishedOnlyByEos(st, promptLen, maxTokens) ==
    LET completion == CommittedCompletion(st, promptLen)
    IN  \E i \in 1..Len(completion) : completion[i] \in Eos

(* Mutant of Finished: off by one, one token short.                        *)
FinishedEarly(st, promptLen, maxTokens) ==
    LET completion == CommittedCompletion(st, promptLen)
    IN  Len(completion) >= maxTokens - 1 \/ \E i \in 1..Len(completion) : completion[i] \in Eos

Finished(st, promptLen, maxTokens) ==
    LET completion == CommittedCompletion(st, promptLen)
    IN  \/ Len(completion) >= maxTokens
        \/ \E i \in 1..Len(completion) : completion[i] \in Eos

(* _truncate_completion: at most max_tokens tokens, cut after the first    *)
(* end-of-sequence token.                                                  *)
TruncateCompletion(completion, maxTokens) ==
    LET size == IF Len(completion) < maxTokens THEN Len(completion) ELSE maxTokens
        ends == {i \in 1..size : completion[i] \in Eos}
    IN  SubSeq(completion, 1,
               IF ends = {} THEN size
               ELSE CHOOSE i \in ends : \A j \in ends : i <= j)
=============================================================================
