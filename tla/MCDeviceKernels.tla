---------------------------- MODULE MCDeviceKernels ----------------------------
(***************************************************************************)
(* The device kernels on small instances.  A behaviour is about one of     *)
(* them, chosen initially:                                                 *)
(*   allreduce  two ranks of two cores run the fused matmul and all-reduce *)
(*              kernel, with or without the gathered sums;                 *)
(*   moe        two ranks of three experts run the fused mixture-of-       *)
(*              experts kernel;                                            *)
(*   ngram      a request's row in the n-gram speculator kernel.           *)
(***************************************************************************)
EXTENDS MatmulAllreduce

CONSTANTS EP, ExpertPerRank, MaxOutputSize, Routings, UintModulus, MaxRows, MaxCalls

CONSTANTS Paths, VocabSize, MaxSeqLen, MaxNewTokens, MinN, MaxN, K, CmpMax, StaleTokens, Lane

VARIABLES
  subject,
  moe_call, routing, stage, core, group, token_per_expert, peer_a, peer_d, status,
  self_state, pre_sum, cumsum, prev_sum, copied, gmm1, gmm2, activated, gm_a, gm_c,
  permuted_token, gm_c2, expert_token_nums, result,
  path, token_ids, num_tokens, appended, next_token, draft

Moe == INSTANCE DispatchFFNCombine
Ngram == INSTANCE NgramSpecDecode

\* Rows for three experts on each of two ranks: thinly spread, and more than the
\* second rank can take in if both ranks route this way.
MCCounts == {<<1, 0, 1, 0, 1, 0>>, <<0, 0, 0, 1, 0, 2>>}
MCRoutings == {[q \in 0..1 |-> [g \in 0..2 |-> f[3 * q + g + 1]]] : f \in MCCounts}

moeVars == <<moe_call, routing, stage, core, group, token_per_expert, peer_a, peer_d,
             status, self_state, pre_sum, cumsum, prev_sum, copied, gmm1, gmm2, activated,
             gm_a, gm_c, permuted_token, gm_c2, expert_token_nums, result>>
ngramVars == <<path, token_ids, num_tokens, appended, next_token, draft>>
mcVars == <<subject, allreduceVars, moeVars, ngramVars>>

\* The kernels that are not chosen stay in one initial state.
MCInit ==
  /\ subject \in {"allreduce", "moe", "ngram"}
  /\ AllreduceInit /\ (subject # "allreduce" => ~gather_add_out)
  /\ Moe!MoeInit
  /\ Ngram!NgramInit
  /\ subject # "ngram" => /\ path = "scalar" /\ num_tokens = 1
                          /\ \A i \in DOMAIN token_ids : token_ids[i] = 0

MCNext ==
  \/ subject = "allreduce" /\ AllreduceNext /\ UNCHANGED <<subject, moeVars, ngramVars>>
  \/ subject = "moe" /\ Moe!MoeNext /\ UNCHANGED <<subject, allreduceVars, ngramVars>>
  \/ subject = "ngram" /\ Ngram!NgramNext /\ UNCHANGED <<subject, allreduceVars, moeVars>>

MCSpec == MCInit /\ [][MCNext]_mcVars

\* The mixture-of-experts kernel brings every row back to its place, computed by
\* its expert in this launch (DispatchFFNCombine!TokensComeHome).
TokensComeHome == Moe!TokensComeHome

\* The n-gram kernel's draft continues an earlier occurrence of the row's suffix
\* (NgramSpecDecode!DraftContinuesSuffix).
DraftContinuesSuffix == Ngram!DraftContinuesSuffix

\* Every launch of the two collective kernels returns on every rank
\* (AllreduceNeverHangs, DispatchFFNCombine!MoeNeverHangs).
LaunchesNeverHang ==
  /\ subject = "allreduce" => AllreduceNeverHangs
  /\ subject = "moe" => Moe!MoeNeverHangs
================================================================================
