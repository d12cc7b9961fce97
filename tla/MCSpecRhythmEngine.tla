-------------------------- MODULE MCSpecRhythmEngine --------------------------
(* Instances of SpecRhythmEngine small enough for TLC.                     *)
EXTENDS SpecRhythmEngine

(* A model whose prediction depends on every token of its prefix.          *)
Mix(s) ==
    LET mix[i \in 0..Len(s)] == IF i = 0 THEN 0 ELSE (5 * mix[i - 1] + s[i] + 1) % 11
    IN  mix[Len(s)]

MCGreedySupport(s) == {Mix(s) % 2}

MCPrompt == [r \in 0..(NumRequests - 1) |-> <<r % 2>>]

MCMaxTokens == [r \in 0..(NumRequests - 1) |-> 3]

(* One request is complete after prefill, one needs two verdicts or more.  *)
MCArrivalMaxTokens == [r \in 0..(NumRequests - 1) |-> CASE r = 0 -> 3 [] r = 1 -> 1 [] OTHER -> 2]

MCRequestMaxGamma == [r \in 0..(NumRequests - 1) |-> Gamma]

NoEntries == [k \in {} |-> 0]

(* A profiled roofline that depends on the context length.                 *)
MCContextRoofline == [k \in {<<2, 1>>} |-> 4]
=============================================================================
