-------------------------- MODULE DispatchFFNCombine --------------------------
(***************************************************************************)
(* The fused mixture-of-experts kernel (csrc/mc2/dispatch_ffn_combine_bf16 *)
(* /op_kernel).  In one launch every rank sorts its token rows by expert   *)
(* into its HCCL window, tells every other rank how many rows each expert  *)
(* gets, copies the rows of its own experts from the windows of all ranks, *)
(* one expert (group) after the other, and runs two grouped matmuls with a *)
(* SwiGLU between them; the results are written back into the window of    *)
(* the rank each row came from.  A barrier on toggled states ends it.      *)
(*                                                                         *)
(* A rank has one vector core per peer (EP <= coreNum; shmem(.., coreIdx)  *)
(* reaches the wrong window otherwise), and cube cores that are one        *)
(* process here.  Rows are abstracted to where they come from and which    *)
(* weights they went through; the tiles of a group are one step.           *)
(***************************************************************************)
EXTENDS Integers, Sequences, FiniteSetsExt

CONSTANTS
  EP,             \* ranks of the expert-parallel group
  ExpertPerRank,
  MaxOutputSize,  \* rows a rank can take in
  Routings,       \* numbers of rows per rank and expert a launch may route
  UintModulus,    \* values of an unsigned integer: 2^32 in the source
  MaxRows,        \* rows a rank routes at most: m * topK
  MaxCalls        \* bound: launches of the kernel in one behaviour

Peers == 0..(EP - 1)
Groups == 0..(ExpertPerRank - 1)

VARIABLES
  moe_call,          \* rank -> launch under way
  routing,           \* rank -> routing of each of its launches so far
  stage,             \* rank -> what its vector cores are doing
  core,              \* rank -> peer -> what the vector core of that peer still does
  group,             \* rank -> groupIdx of the loop its vector cores are in
  token_per_expert,  \* rank -> peer -> row of the table in its window
  peer_a,            \* rank -> rows at offsetA of its window
  peer_d,            \* rank -> rows at offsetD of its window
  status,            \* rank -> peer -> state received from that peer
  self_state,        \* rank -> the state it toggles
  pre_sum,           \* rank -> peer -> expert -> preSumBeforeRank
  cumsum,            \* rank -> peer -> expert -> cumsumMM
  prev_sum,          \* rank -> peer -> next row to copy from that peer
  copied,            \* rank -> groups whose rows the cube cores may use
  gmm1, gmm2,        \* rank -> groups its cube cores have multiplied
  activated,         \* rank -> SYNCFLAGV2C signals of this launch
  gm_a, gm_c, permuted_token, gm_c2,   \* rank -> rows in its workspace
  expert_token_nums, \* rank -> output: rows of each of its experts
  result             \* rank -> output: its rows, before they are weighted and added

windowVars == <<token_per_expert, peer_a, peer_d, status>>
workspaceVars == <<gm_a, gm_c, permuted_token, gm_c2>>
cubeVars == <<gmm1, gmm2, gm_c, gm_c2>>
outputVars == <<expert_token_nums, result>>
sumVars == <<pre_sum, cumsum, prev_sum>>
moeVars == <<moe_call, routing, stage, core, group, token_per_expert, peer_a, peer_d, status,
             self_state, pre_sum, cumsum, prev_sum, copied, gmm1, gmm2, activated, gm_a, gm_c,
             permuted_token, gm_c2, expert_token_nums, result>>

--------------------------------------------------------------------------------
\* Counting rows.  A row is <<rank, index, launch>>; a matmul pairs it with its weights.

Cleared == [bias |-> 0, counts |-> [q \in Peers |-> [g \in Groups |-> 0]]]
Unknown == <<"unknown">>

Total(f) == MapThenSumSet(LAMBDA x : f[x], DOMAIN f)

\* preSumBeforeRank: rows a rank with these counts puts before expert g of rank q.
Before(counts, q, g) ==
  Total([e \in {e \in Peers \X Groups : e[1] < q \/ (e[1] = q /\ e[2] < g)} |->
           counts[e[1]][e[2]]])

\* Rows of peer d for expert g of rank r, as r sees them after it has removed the
\* bias.  A number that lost its bias twice counts nothing real.
Tokens(r, d, g) ==
  LET row == token_per_expert[r][d] IN IF row.bias = 0 THEN row.counts[r][g] ELSE 0

\* Rows for expert g of rank r, and where those of peer d start in the workspace.
CurrentM(r, g) == cumsum[r][EP - 1][g]
RowStart(r, d, g) ==
  Total([h \in 0..(g - 1) |-> CurrentM(r, h)]) + (IF d = 0 THEN 0 ELSE cumsum[r][d - 1][g])

\* The first n rows of the workspace that fit; the rows of group g that fit.
Fitting(n) == Min({n, MaxOutputSize})
GroupRows(r, g) ==
  Fitting(RowStart(r, 0, g))..(Fitting(RowStart(r, 0, g) + CurrentM(r, g)) - 1)

\* When the groups are activated: in one batch, or the last two in a second one.
EpilogueGranularity == (ExpertPerRank - 2) % UintModulus
Batches == IF EpilogueGranularity \in 1..(ExpertPerRank - 1) THEN 2 ELSE 1

\* The rows a SwiGLU batch works on: dequantSum1 and dequantSum2 of them.
DequantSum1(r) ==
  Fitting(Total([g \in {g \in Groups : g < EpilogueGranularity} |-> CurrentM(r, g)]))
BatchRows(r, batch) ==
  IF batch = 1 THEN 0..(DequantSum1(r) - 1)
  ELSE DequantSum1(r)..(Fitting(Total([g \in Groups |-> CurrentM(r, g)])) - 1)

MoeInit ==
  LET rows(n) == [r \in Peers |-> [i \in 0..(n - 1) |-> Unknown]] IN
  /\ moe_call = [r \in Peers |-> 1]
  /\ routing = [r \in Peers |-> << >>]
  /\ stage = [r \in Peers |-> "route"]
  /\ core = [r \in Peers |-> [d \in Peers |-> "idle"]]
  /\ group = [r \in Peers |-> 0]
  /\ token_per_expert = [r \in Peers |-> [d \in Peers |-> Cleared]]
  /\ peer_a = rows(MaxRows)
  /\ peer_d = rows(MaxRows)
  /\ status = [r \in Peers |-> [d \in Peers |-> 0]]
  /\ self_state = [r \in Peers |-> 0]
  /\ prev_sum = [r \in Peers |-> [d \in Peers |-> 0]]
  /\ pre_sum = [r \in Peers |-> [d \in Peers |-> [g \in Groups |-> 0]]]
  /\ cumsum = pre_sum
  /\ copied = group /\ gmm1 = group /\ gmm2 = group /\ activated = group
  /\ gm_a = rows(MaxOutputSize) /\ gm_c = gm_a /\ permuted_token = gm_a /\ gm_c2 = gm_a
  /\ expert_token_nums = [r \in Peers |-> [g \in Groups |-> 0]]
  /\ result = peer_d

--------------------------------------------------------------------------------
\* Dispatch

\* moe_init_routing_v2: the rows sorted by expert into the window, and their
\* numbers into the own row of the table.
Route(r) ==
  /\ stage[r] = "route"
  /\ \E counts \in Routings :
       /\ routing' = [routing EXCEPT ![r] = Append(@, counts)]
       /\ token_per_expert' = [token_per_expert EXCEPT
                                 ![r][r] = [bias |-> 0, counts |-> counts]]
       /\ peer_a' = [peer_a EXCEPT ![r] = [i \in DOMAIN @ |->
                       IF i < Before(counts, EP, 0) THEN <<r, i, moe_call[r]>> ELSE @[i]]]
  /\ stage' = [stage EXCEPT ![r] = "exchange"]
  /\ core' = [core EXCEPT ![r] = [d \in Peers |-> IF d = r THEN "collect" ELSE "publish"]]
  /\ UNCHANGED <<moe_call, group, peer_d, status, self_state, sumVars, copied, activated,
                 gm_a, permuted_token, cubeVars, outputVars>>

\* CrossRankSyncAndlocalTokenPerExpertAllGatherAndGetSumPreRankV2, first loop: the
\* own row, with a bias that makes it differ from zero, into the peer's window.
Publish(r, d) ==
  /\ core[r][d] = "publish"
  /\ token_per_expert' = [token_per_expert EXCEPT
                            ![d][r] = [token_per_expert[r][r] EXCEPT !.bias = @ + 1]]
  /\ core' = [core EXCEPT ![r][d] = "collect"]
  /\ UNCHANGED <<moe_call, routing, stage, group, peer_a, peer_d, status, self_state, sumVars,
                 copied, activated, gm_a, permuted_token, cubeVars, outputVars>>

\* ... second loop: poll the peer's row until it is not zero, remove the bias and
\* find the peer's first row for each expert.
Collect(r, d) ==
  /\ core[r][d] = "collect"
  /\ d # r => token_per_expert[r][d] # Cleared
  /\ token_per_expert' = IF d = r THEN token_per_expert
                         ELSE [token_per_expert EXCEPT ![r][d].bias = @ - 1]
  /\ pre_sum' = [pre_sum EXCEPT ![r][d] =
                   [g \in Groups |-> Before(token_per_expert[r][d].counts, r, g)]]
  /\ core' = [core EXCEPT ![r][d] = "idle"]
  /\ UNCHANGED <<moe_call, routing, stage, group, peer_a, peer_d, status, self_state, cumsum,
                 prev_sum, copied, activated, gm_a, permuted_token, cubeVars, outputVars>>

\* SyncAll, GetCumsumForMMAIV, ExpertTokenNums.
Cumsum(r) ==
  /\ stage[r] = "exchange"
  /\ \A d \in Peers : core[r][d] = "idle"
  /\ cumsum' = [cumsum EXCEPT ![r] = [d \in Peers |-> [g \in Groups |->
                  Total([p \in 0..d |-> Tokens(r, p, g)])]]]
  /\ expert_token_nums' = [expert_token_nums EXCEPT ![r] = cumsum'[r][EP - 1]]
  /\ prev_sum' = [prev_sum EXCEPT ![r] = [d \in Peers |-> pre_sum[r][d][0]]]
  /\ stage' = [stage EXCEPT ![r] = "copy"]
  /\ core' = [core EXCEPT ![r] = [d \in Peers |-> "copy"]]
  /\ UNCHANGED <<moe_call, routing, group, windowVars, self_state, pre_sum, copied, activated,
                 gm_a, permuted_token, cubeVars, result>>

\* A core copies the rows of the group from the window of its peer.
CopyRows(r, d) ==
  LET start == RowStart(r, d, group[r])
      rows == Fitting(start + Tokens(r, d, group[r])) - start
      src == prev_sum[r][d]
  IN
  /\ core[r][d] = "copy"
  /\ IF start < MaxOutputSize
       THEN /\ gm_a' = [gm_a EXCEPT ![r] = [p \in DOMAIN @ |->
                          IF p \in start..(start + rows - 1)
                            THEN peer_a[d][src + p - start] ELSE @[p]]]
            /\ prev_sum' = [prev_sum EXCEPT ![r][d] = @ + rows]
       ELSE UNCHANGED <<gm_a, prev_sum>>
  /\ core' = [core EXCEPT ![r][d] = "idle"]
  /\ UNCHANGED <<moe_call, routing, stage, group, windowVars, self_state, pre_sum, cumsum,
                 copied, activated, permuted_token, cubeVars, outputVars>>

\* SyncAll at the end of a turn of the loop over groupIdx; the cube cores are told.
GroupCopied(r) ==
  /\ stage[r] = "copy"
  /\ \A d \in Peers : core[r][d] = "idle"
  /\ copied' = [copied EXCEPT ![r] = @ + 1]
  /\ IF group[r] + 1 < ExpertPerRank
       THEN /\ group' = [group EXCEPT ![r] = @ + 1]
            /\ core' = [core EXCEPT ![r] = [d \in Peers |-> "copy"]]
            /\ UNCHANGED stage
       ELSE /\ group' = [group EXCEPT ![r] = 0]
            /\ stage' = [stage EXCEPT ![r] = "swiglu"]
            /\ UNCHANGED core
  /\ UNCHANGED <<moe_call, routing, windowVars, self_state, sumVars, activated, gm_a,
                 permuted_token, cubeVars, outputVars>>

--------------------------------------------------------------------------------
\* Expert computation

\* GMM1, one group: wait until its rows are there, multiply.  A group without rows
\* is passed over; the last turn waits for all groups.
GMM1(r) ==
  /\ stage[r] \notin {"route", "exchange"}
  /\ gmm1[r] < ExpertPerRank
  /\ GroupRows(r, gmm1[r]) # {} => gmm1[r] < copied[r]
  /\ gmm1[r] + 1 = ExpertPerRank => copied[r] = ExpertPerRank
  /\ gm_c' = [gm_c EXCEPT ![r] = [p \in DOMAIN @ |->
                IF p \in GroupRows(r, gmm1[r])
                  THEN <<gm_a[r][p], <<r, gmm1[r]>>>> ELSE @[p]]]
  /\ gmm1' = [gmm1 EXCEPT ![r] = @ + 1]
  /\ UNCHANGED <<moe_call, routing, stage, core, group, windowVars, self_state, sumVars, copied,
                 gmm2, activated, gm_a, permuted_token, gm_c2, outputVars>>

\* SYNCFLAGC2V signals GMM1 has sent: one for the groups before the granularity,
\* if there are groups after it, and one at its end.
Multiplied(r) ==
  IF gmm1[r] = ExpertPerRank THEN Batches
  ELSE IF Batches = 2 /\ gmm1[r] >= EpilogueGranularity THEN 1 ELSE 0

\* A SwiGLU batch: wait for GMM1, activate its rows, signal GMM2.
SwiGLU(r) ==
  LET batch == activated[r] + 1 IN
  /\ stage[r] = "swiglu"
  /\ Multiplied(r) >= batch
  /\ permuted_token' = [permuted_token EXCEPT ![r] = [p \in DOMAIN @ |->
                          IF p \in BatchRows(r, batch) THEN gm_c[r][p] ELSE @[p]]]
  /\ activated' = [activated EXCEPT ![r] = batch]
  /\ stage' = [stage EXCEPT ![r] = IF batch = Batches THEN "combine" ELSE @]
  /\ UNCHANGED <<moe_call, routing, core, group, windowVars, self_state, sumVars, copied, gm_a,
                 cubeVars, outputVars>>

\* GMM2, one group: after the first batch, and from the group before the
\* granularity on after the second.
GMM2(r) ==
  LET needed == IF Batches = 2 /\ gmm2[r] + 1 >= EpilogueGranularity THEN 2 ELSE 1 IN
  /\ gmm1[r] = ExpertPerRank
  /\ gmm2[r] < ExpertPerRank
  /\ activated[r] >= needed
  /\ gm_c2' = [gm_c2 EXCEPT ![r] = [p \in DOMAIN @ |->
                 IF p \in GroupRows(r, gmm2[r])
                   THEN <<permuted_token[r][p], <<r, gmm2[r]>>>> ELSE @[p]]]
  /\ gmm2' = [gmm2 EXCEPT ![r] = @ + 1]
  /\ UNCHANGED <<moe_call, routing, stage, core, group, windowVars, self_state, sumVars, copied,
                 gmm1, activated, gm_a, gm_c, permuted_token, outputVars>>

--------------------------------------------------------------------------------
\* Combine

\* CombineV2 and its epilogue, one group: every row into the window of the rank it
\* came from, where that rank had it.  SyncAll after the last group.
Combine(r) ==
  LET g == group[r]
      from(d) == RowStart(r, d, g)..(Fitting(RowStart(r, d, g) + Tokens(r, d, g)) - 1)
      place(d, p) == pre_sum[r][d][g] + p - RowStart(r, d, g)
  IN
  /\ stage[r] = "combine"
  /\ GroupRows(r, g) # {} => gmm2[r] > g
  /\ peer_d' = [d \in Peers |-> [i \in DOMAIN peer_d[d] |->
                  IF \E p \in from(d) : place(d, p) = i
                    THEN gm_c2[r][CHOOSE p \in from(d) : place(d, p) = i] ELSE peer_d[d][i]]]
  /\ IF g + 1 < ExpertPerRank
       THEN group' = [group EXCEPT ![r] = g + 1] /\ UNCHANGED stage
       ELSE group' = [group EXCEPT ![r] = 0] /\ stage' = [stage EXCEPT ![r] = "reset"]
  /\ UNCHANGED <<moe_call, routing, core, token_per_expert, peer_a, status, self_state, sumVars,
                 copied, activated, gm_a, permuted_token, cubeVars, outputVars>>

\* Mutant of ResetTokenPerExpert: the state of the barrier is set, not toggled.
ResetWithoutToggle(r) ==
  /\ stage[r] = "reset"
  /\ token_per_expert' = [token_per_expert EXCEPT ![r] = [d \in Peers |-> Cleared]]
  /\ self_state' = [self_state EXCEPT ![r] = 1]
  /\ core' = [core EXCEPT ![r] = [d \in Peers |-> "signal"]]
  /\ stage' = [stage EXCEPT ![r] = "wait"]
  /\ UNCHANGED <<moe_call, routing, group, peer_a, peer_d, status, sumVars, copied, activated,
                 gm_a, permuted_token, cubeVars, outputVars>>

\* ResetTokenPerExpert and InitStatusTargetSum; the barrier at the head of
\* CrossRankSyncV2Set holds the signals back until both are done.
ResetTokenPerExpert(r) ==
  /\ stage[r] = "reset"
  /\ token_per_expert' = [token_per_expert EXCEPT ![r] = [d \in Peers |-> Cleared]]
  /\ self_state' = [self_state EXCEPT ![r] = 1 - @]
  /\ core' = [core EXCEPT ![r] = [d \in Peers |-> "signal"]]
  /\ stage' = [stage EXCEPT ![r] = "wait"]
  /\ UNCHANGED <<moe_call, routing, group, peer_a, peer_d, status, sumVars, copied, activated,
                 gm_a, permuted_token, cubeVars, outputVars>>

\* CrossRankSyncV2Set on the first vector cores.
CrossRankSyncV2Set(r, d) ==
  /\ core[r][d] = "signal"
  /\ status' = [status EXCEPT ![d][r] = self_state[r]]
  /\ core' = [core EXCEPT ![r][d] = "idle"]
  /\ UNCHANGED <<moe_call, routing, stage, group, token_per_expert, peer_a, peer_d, self_state,
                 sumVars, copied, activated, gm_a, permuted_token, cubeVars, outputVars>>

\* CrossRankSyncV2Wait on the second ones: the states must add up.
CrossRankSyncV2Wait(r) ==
  /\ stage[r] = "wait"
  /\ Total(status[r]) = EP * self_state[r]
  /\ stage' = [stage EXCEPT ![r] = "unpermute"]
  /\ UNCHANGED <<moe_call, routing, core, group, windowVars, self_state, sumVars, copied,
                 activated, gm_a, permuted_token, cubeVars, outputVars>>

\* Mutant of Unpermute: the table is cleared once more behind the barrier.
UnpermuteResets(r) ==
  /\ stage[r] = "unpermute"
  /\ result' = [result EXCEPT ![r] = peer_d[r]]
  /\ token_per_expert' = [token_per_expert EXCEPT ![r] = [d \in Peers |-> Cleared]]
  /\ stage' = [stage EXCEPT ![r] = "done"]
  /\ UNCHANGED <<moe_call, routing, core, group, peer_a, peer_d, status, self_state, sumVars,
                 copied, activated, gm_a, permuted_token, cubeVars, expert_token_nums>>

\* KernelMoeTokenUnpermute reads the rows the other ranks have sent back.
Unpermute(r) ==
  /\ stage[r] = "unpermute"
  /\ result' = [result EXCEPT ![r] = peer_d[r]]
  /\ stage' = [stage EXCEPT ![r] = "done"]
  /\ UNCHANGED <<moe_call, routing, core, group, windowVars, self_state, sumVars, copied,
                 activated, gm_a, permuted_token, cubeVars, expert_token_nums>>

--------------------------------------------------------------------------------
\* The kernel has returned on rank r; the stream launches the next one.
KernelReturned(r) ==
  /\ stage[r] = "done" /\ gmm2[r] = ExpertPerRank
  /\ \A d \in Peers : core[r][d] = "idle"

CallNext(r) ==
  /\ KernelReturned(r)
  /\ moe_call[r] < MaxCalls
  /\ moe_call' = [moe_call EXCEPT ![r] = @ + 1]
  /\ stage' = [stage EXCEPT ![r] = "route"]
  /\ copied' = [copied EXCEPT ![r] = 0]
  /\ gmm1' = [gmm1 EXCEPT ![r] = 0]
  /\ gmm2' = [gmm2 EXCEPT ![r] = 0]
  /\ activated' = [activated EXCEPT ![r] = 0]
  /\ UNCHANGED <<routing, core, group, windowVars, self_state, sumVars, workspaceVars,
                 outputVars>>

MoeNext ==
  \E r \in Peers :
    \/ Route(r) \/ Cumsum(r) \/ GroupCopied(r)
    \/ GMM1(r) \/ SwiGLU(r) \/ GMM2(r) \/ Combine(r)
    \/ ResetTokenPerExpert(r) \/ CrossRankSyncV2Wait(r) \/ Unpermute(r)
    \/ CallNext(r)
    \/ \E d \in Peers :
         Publish(r, d) \/ Collect(r, d) \/ CopyRows(r, d) \/ CrossRankSyncV2Set(r, d)

--------------------------------------------------------------------------------
\* Where the workspace of rank q has row j of rank r for its expert g, by what all
\* ranks have routed in launch n.
PlaceOf(n, q, g, r, j) ==
  Total([e \in {e \in Groups \X Peers : e[1] < g \/ (e[1] = g /\ e[2] < r)} |->
           routing[e[2]][n][q][e[1]]]) + j

\* When the kernel returns on a rank, every row the rank has routed to an expert
\* that had room for it is back in its place, computed in this launch from this
\* row with both weights of that expert; and the rank reports how many rows its own
\* experts were sent.  No rank mixes up the tables, rows or results of two
\* launches, whatever the ranks' speeds.
TokensComeHome ==
  \A r \in Peers : KernelReturned(r) =>
    LET n == moe_call[r]
        mine == routing[r][n]
    IN
    /\ \A g \in Groups :
         expert_token_nums[r][g] = Total([d \in Peers |-> routing[d][n][r][g]])
    /\ \A q \in Peers, g \in Groups : \A j \in 0..(mine[q][g] - 1) :
         PlaceOf(n, q, g, r, j) < MaxOutputSize =>
           LET i == Before(mine, q, g) + j IN
           result[r][i] = << <<<<r, i, n>>, <<q, g>>>>, <<q, g>> >>

\* No launch hangs: as long as a rank has a launch to finish, some core can take a
\* step.  No published row of the table is lost to the reset of a slower rank, and no
\* rank misses a toggled state.  Every step moves a core forward, so every launch
\* returns.
MoeNeverHangs ==
  (\A r \in Peers : KernelReturned(r) /\ moe_call[r] = MaxCalls) \/ ENABLED MoeNext
================================================================================
