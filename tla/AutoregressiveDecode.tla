------------------------- MODULE AutoregressiveDecode -------------------------
(***************************************************************************)
(* What speculative decoding promises: every request's output is one the   *)
(* target model could have produced on its own, one token at a time,       *)
(* stopping after max_tokens tokens or the first end-of-sequence token.    *)
(* A step delivers a run of tokens to any number of requests; delivered    *)
(* tokens are never taken back.                                            *)
(***************************************************************************)
EXTENDS Integers, Sequences

CONSTANTS
    Request, Prompt, MaxTokens, Eos,
    MaxRun,             \* the most tokens one step may deliver to a request
    TargetSupport(_)

VARIABLE out            \* request -> delivered completion

Stopped(s, r) == Len(s) >= MaxTokens[r] \/ \E i \in 1..Len(s) : s[i] \in Eos

(* longer continues shorter as target-only decoding of request r could.    *)
Continues(r, shorter, longer) ==
    /\ Len(longer) \in Len(shorter)..(Len(shorter) + MaxRun)
    /\ SubSeq(longer, 1, Len(shorter)) = shorter
    /\ \A i \in (Len(shorter) + 1)..Len(longer) :
          /\ ~Stopped(SubSeq(longer, 1, i - 1), r)
          /\ longer[i] \in TargetSupport(Prompt[r] \o SubSeq(longer, 1, i - 1))

Init == \A r \in Request : Len(out[r]) = 1 /\ Continues(r, <<>>, out[r])

Deliver == \A r \in Request : Continues(r, out[r], out'[r])

Spec == Init /\ [][Deliver]_out
=============================================================================
