---------------------------- MODULE MCPearlRounds ----------------------------
(* Instances of PearlRounds small enough for TLC.                          *)
EXTENDS PearlRounds

(* A model whose prediction depends on every token of its prefix.          *)
Mix(s) ==
    LET mix[i \in 0..Len(s)] == IF i = 0 THEN 0 ELSE (5 * mix[i - 1] + s[i] + 1) % 11
    IN  mix[Len(s)]

MCGreedySupport(s) == {Mix(s) % 2}

(* Half of the prefixes leave the sampler a choice; token 2 ends a request. *)
MCSampledSupport(s) ==
    CASE Mix(s) % 4 = 0 -> {0, 1}
      [] Mix(s) % 4 = 1 -> {1, 2}
      [] OTHER -> {Mix(s) % 2}

MCPrompt == [r \in 0..(NumRequests - 1) |-> <<r % 2>>]

(* The requests of a batch finish at different rounds.                     *)
MCMaxTokens == [r \in 0..(NumRequests - 1) |-> IF r = 1 THEN 2 ELSE 4]

MCOnePrompt == [r \in {0} |-> <<0, 1>>]

MCOneMaxTokens == [r \in {0} |-> 6]

(* Short requests: one is complete after prefill, one finishes when nobody *)
(* waits any more, so that the tail bucket has to be padded.               *)
MCQueueMaxTokens == [r \in 0..(NumRequests - 1) |-> IF r = 2 THEN 1 ELSE IF r = 1 THEN 2 ELSE 3]
=============================================================================
