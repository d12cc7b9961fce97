---------------------------- MODULE MatmulAllreduce ----------------------------
(***************************************************************************)
(* The fused matmul + all-reduce + add + RMSNorm kernel (csrc/mc2/         *)
(* matmul_allreduce_add_rmsnorm/op_kernel).  On every rank each core is a  *)
(* cube unit (AIC), which multiplies its tiles of one split of the rows    *)
(* after the other into the rank's HCCL window, and a vector unit (AIV).   *)
(* The vector units of all ranks reduce and normalise the rows of a split  *)
(* in place, each rank its own share, gather the shares of the others and, *)
(* if asked, exchange the sums as well.  They synchronise through          *)
(*   - flags of a core group, counted per core (FFTS);                     *)
(*   - a barrier of the vector units of one rank;                          *)
(*   - counters in the windows of all ranks, which are reset at the start  *)
(*     and at the end of a launch and otherwise compared exactly;          *)
(*   - one counter in the window of rank 0 that is never reset.            *)
(*                                                                         *)
(* Numbers are abstracted to what a row holds: nothing useful, the product *)
(* of one rank, the normalised sum or the sum, of a given launch.  The     *)
(* second vector unit of a core (aiv_idx 1) only joins the barriers and is *)
(* not a process of its own.  A busy-wait is a guard.                      *)
(***************************************************************************)
EXTENDS Integers, SequencesExt

CONSTANTS
  RankSize,      \* rank_size
  CoreNum,       \* core_num
  CommCores,     \* cores the collective may use: 16 in the source
  Rows,          \* m
  RowsPerRound,  \* swizzl_count * m0
  Tiles,         \* column blocks of a split
  PipeDepth,     \* pipe_depth and PIPE_DEPTH
  ExModulus,     \* values of a counter: 2^32 in the source
  StaleFlags,    \* what an earlier use of the windows may have left in the flags
  StaleEx,       \* ... and in the counter of CrossRankSyncEx
  Launches       \* bound: launches of the kernel in one behaviour

Ranks == 0..(RankSize - 1)
Cores == 0..(CoreNum - 1)
Flags == {"ZERO", "ADD", "TWO", "STEP1", "STEP2"}

VARIABLES
  gather_add_out,  \* isGatherAddOut of the tiling data
  launch,          \* rank -> launch under way
  aiv,             \* rank -> core -> next instruction of its vector unit
  aic,             \* rank -> core -> splits its cube unit has finished; -1: waits
                   \*         for AIC_WAIT_AIV_FINISH_ALIGN_FLAG_ID
  product_ready,   \* rank -> core -> flag_idx -> FFTS count, cube to vector
  released,        \* rank -> core -> flag_idx -> FFTS count, vector to cube
  flags,           \* rank -> flag -> counter in its window
  ex,              \* the counter of CrossRankSyncEx, in the window of rank 0
  ex_old,          \* rank -> old_flag_data
  window,          \* rank -> row -> tile -> what the window holds
  out,             \* rank -> row -> what gm_out holds
  add_out          \* rank -> row -> what gm_add_output holds

allreduceVars == <<gather_add_out, launch, aiv, aic, product_ready, released, flags,
                   ex, ex_old, window, out, add_out>>

DivCeil(a, b) == (a + b - 1) \div b
LimitRange(val, low, high) == Min({Max({val, low}), high})

--------------------------------------------------------------------------------
\* The rows of a round and who works on them

Rounds == DivCeil(Rows, RowsPerRound)                 \* comm_count and splitM
UsedCores == (CommCores \div RankSize) * RankSize     \* allreduce_used_core
UsedPerRank == UsedCores \div RankSize                \* used_core_per_rank

MTotal(k) == IF k = Rounds - 1 THEN Rows - k * RowsPerRound ELSE RowsPerRound
MPerRank(k) == DivCeil(MTotal(k), RankSize)
MOfRank(k, q) == LimitRange(MTotal(k) - q * MPerRank(k), 0, MPerRank(k))

\* Piece i of rank q's share of round k when the share is cut into n pieces.
Piece(k, q, i, n) ==
  LET per == DivCeil(MOfRank(k, q), n)
      first == k * RowsPerRound + q * MPerRank(k) + i * per
  IN first..(first + LimitRange(MOfRank(k, q) - i * per, 0, per) - 1)

ReduceRows(r, c, k) == IF c < UsedCores THEN Piece(k, r, c, UsedCores) ELSE {}
GatherRank(c) == c \div UsedPerRank
GatherRows(c, k) ==
  IF c < UsedCores THEN Piece(k, GatherRank(c), c % UsedPerRank, UsedPerRank) ELSE {}

\* The rows a cube unit writes in split s, and its tiles of them.
SplitRows(s) == (s * RowsPerRound)..(s * RowsPerRound + MTotal(s) - 1)
TilesOf(c) == {t \in 0..(Tiles - 1) : t % CoreNum = c}

--------------------------------------------------------------------------------
\* Process of the vector unit, as the sequence of its synchronising operations

Do(op) == [op |-> op, flag |-> "ZERO"]
On(op, flag) == [op |-> op, flag |-> flag]
Sync == Do("sync")                                    \* SetAndWaitAivSync, SyncAll
CrossRankSyncV2(flag) == <<On("v2Add", flag), On("v2Check", flag)>>

ResetIpcFlags == <<Do("resetZero"), Do("resetRest")>>
CrossRankSyncEx == <<Sync, Do("exRead"), Do("exAdd"), Do("exWait"), Do("exLeave"), Sync>>

\* Mutant of Round: the shares are gathered without waiting for the other ranks.
RoundWithoutAddSync(g) ==
  <<Do("aicWait"), Sync, On("v1", "ZERO"), Sync, Do("reduce"), Sync, Do("gather"), Sync>>
    \o CrossRankSyncV2("TWO") \o <<Sync>>
    \o (IF ~g THEN << >> ELSE
          <<Do("share"), Sync>> \o CrossRankSyncV2("STEP1") \o <<Sync>>
          \o <<Do("fetch"), Sync>> \o CrossRankSyncV2("STEP2") \o <<Sync>>)
    \o <<Do("release")>>

\* One turn of the loop over cal_idx.
Round(g) ==
  <<Do("aicWait"), Sync, On("v1", "ZERO"), Sync, Do("reduce"),
    Sync, On("v1", "ADD"), Sync, Do("gather"), Sync>>
    \o CrossRankSyncV2("TWO") \o <<Sync>>
    \o (IF ~g THEN << >> ELSE
          <<Do("share"), Sync>> \o CrossRankSyncV2("STEP1") \o <<Sync>>
          \o <<Do("fetch"), Sync>> \o CrossRankSyncV2("STEP2") \o <<Sync>>)
    \o <<Do("release")>>

Epilogue == ResetIpcFlags \o <<Do("check")>>

At(steps, k) == [i \in DOMAIN steps |-> steps[i] @@ [round |-> k]]
Process(g) ==
  At(<<Do("align")>> \o ResetIpcFlags \o CrossRankSyncEx, 0)
    \o FlattenSeq([k \in 1..Rounds |-> At(Round(g), k - 1)])
    \o At(Epilogue, 0)

\* The conditions on core_idx and rank: does core c of rank r execute step s?
TakesPart(r, c, s) ==
  CASE s.op \in {"align", "sync", "aicWait"} -> TRUE
    [] s.op \in {"resetZero", "resetRest", "exRead", "exAdd", "exWait", "exLeave"} -> c = 0
    [] s.op \in {"v1", "v2Add", "check"} -> c < RankSize
    [] s.op = "v2Check" -> c = r
    [] s.op = "reduce" -> ReduceRows(r, c, s.round) # {}
    [] s.op = "gather" -> GatherRows(c, s.round) # {}
    [] s.op = "share" -> GatherRows(c, s.round) # {} /\ GatherRank(c) = r
    [] s.op = "fetch" -> GatherRows(c, s.round) # {} /\ GatherRank(c) # r
    [] s.op = "release" -> s.round <= Rounds - PipeDepth

Code == [r \in Ranks |-> [c \in Cores |-> [g \in BOOLEAN |->
           SelectSeq(Process(g), LAMBDA s : TakesPart(r, c, s))]]]
End(r, c) == Len(Code[r][c][gather_add_out]) + 1
Here(r, c) == Code[r][c][gather_add_out][aiv[r][c]]
Executes(r, c, op) == aiv[r][c] < End(r, c) /\ Here(r, c).op = op
Advance(r, c) == aiv' = [aiv EXCEPT ![r][c] = @ + 1]

AllreduceInit ==
  /\ gather_add_out \in BOOLEAN
  /\ launch = [r \in Ranks |-> 1]
  /\ aiv = [r \in Ranks |-> [c \in Cores |-> 1]]
  /\ aic = [r \in Ranks |-> [c \in Cores |-> -1]]
  /\ product_ready = [r \in Ranks |-> [c \in Cores |-> [i \in 0..(PipeDepth - 1) |-> 0]]]
  /\ released = product_ready
  /\ \E stale \in StaleFlags : flags = [r \in Ranks |-> [f \in Flags |-> stale]]
  /\ ex \in StaleEx
  /\ ex_old = [r \in Ranks |-> 0]
  /\ window = [r \in Ranks |-> [i \in 0..(Rows - 1) |->
                 [t \in 0..(Tiles - 1) |-> <<"unknown", 0>>]]]
  /\ out = [r \in Ranks |-> [i \in 0..(Rows - 1) |-> <<"unknown", 0>>]]
  /\ add_out = out

--------------------------------------------------------------------------------
\* Cube units

\* Process of the cube unit, one split: wait for the vector units, multiply into
\* the window, tell the vector unit of the core.
AicSplit(r, c) ==
  LET s == aic[r][c] IN
  /\ s \in 0..(Rounds - 1)
  /\ s >= PipeDepth => released[r][c][s % PipeDepth] > 0
  /\ released' = IF s < PipeDepth THEN released
                 ELSE [released EXCEPT ![r][c][s % PipeDepth] = @ - 1]
  /\ window' = [window EXCEPT ![r] = [i \in DOMAIN @ |-> [t \in DOMAIN @[i] |->
                  IF i \in SplitRows(s) /\ t \in TilesOf(c)
                    THEN <<"product", launch[r]>> ELSE @[i][t]]]]
  /\ product_ready' = [product_ready EXCEPT ![r][c][s % PipeDepth] = @ + 1]
  /\ aic' = [aic EXCEPT ![r][c] = s + 1]
  /\ UNCHANGED <<gather_add_out, launch, aiv, flags, ex, ex_old, out, add_out>>

--------------------------------------------------------------------------------
\* Vector units

\* FFTSCrossCoreSync at the start of Process lets the cube unit of the core begin.
Align(r, c) ==
  /\ Executes(r, c, "align")
  /\ aic' = [aic EXCEPT ![r][c] = 0]
  /\ Advance(r, c)
  /\ UNCHANGED <<gather_add_out, launch, product_ready, released, flags, ex, ex_old,
                 window, out, add_out>>

\* SetAndWaitAivSync and SyncAll: the vector units of the rank leave together.
AivSync(r) ==
  /\ \A c \in Cores : Executes(r, c, "sync")
  /\ aiv' = [aiv EXCEPT ![r] = [c \in Cores |-> @[c] + 1]]
  /\ UNCHANGED <<gather_add_out, launch, aic, product_ready, released, flags, ex, ex_old,
                 window, out, add_out>>

\* WaitEvent(flag_idx) at the head of a round; SetAicSync at its end.
GroupFlag(r, c) ==
  LET i == Here(r, c).round % PipeDepth IN
  /\ \/ /\ Executes(r, c, "aicWait")
        /\ product_ready[r][c][i] > 0
        /\ product_ready' = [product_ready EXCEPT ![r][c][i] = @ - 1]
        /\ UNCHANGED released
     \/ /\ Executes(r, c, "release")
        /\ released' = [released EXCEPT ![r][c][i] = @ + 1]
        /\ UNCHANGED product_ready
  /\ Advance(r, c)
  /\ UNCHANGED <<gather_add_out, launch, aic, flags, ex, ex_old, window, out, add_out>>

\* ResetIpcFlags (FLAG_ZERO_IDX is the first flag to be reset), CrossRankSyncV1,
\* CrossRankSyncV2 and the check at the end of Process.
WindowFlag(r, c) ==
  LET s == Here(r, c)
      Zero(fs) == [flags EXCEPT ![r] = [f \in Flags |-> IF f \in fs THEN 0 ELSE @[f]]]
      Added(q) == [flags EXCEPT ![q][s.flag] = @ + 1]
  IN
  /\ \/ Executes(r, c, "resetZero") /\ flags' = Zero({"ZERO"})
     \/ Executes(r, c, "resetRest") /\ flags' = Zero(Flags \ {"ZERO"})
     \/ Executes(r, c, "v1") /\ c = r /\ flags' = Added(r)
     \/ /\ Executes(r, c, "v1") /\ c # r
        /\ flags[c][s.flag] = s.round + 1
        /\ UNCHANGED flags
     \/ Executes(r, c, "v2Add") /\ flags' = Added(c)
     \/ /\ Executes(r, c, "v2Check")
        /\ flags[r][s.flag] = RankSize * (s.round + 1)
        /\ UNCHANGED flags
     \/ Executes(r, c, "check") /\ flags[c]["ZERO"] = 0 /\ UNCHANGED flags
  /\ Advance(r, c)
  /\ UNCHANGED <<gather_add_out, launch, aic, product_ready, released, ex, ex_old, window,
                 out, add_out>>

\* CrossRankSyncEx: a barrier on one counter that wraps and is never reset.
ExCounter(r, c) ==
  /\ \/ Executes(r, c, "exRead") /\ ex_old' = [ex_old EXCEPT ![r] = ex] /\ UNCHANGED ex
     \/ Executes(r, c, "exAdd") /\ ex' = (ex + 1) % ExModulus /\ UNCHANGED ex_old
     \/ /\ Executes(r, c, "exWait")
        /\ (ex - ex_old[r]) % ExModulus >= RankSize
        /\ UNCHANGED <<ex, ex_old>>
     \/ Executes(r, c, "exLeave") /\ ex' = (ex + 1) % ExModulus /\ UNCHANGED ex_old
  /\ Advance(r, c)
  /\ UNCHANGED <<gather_add_out, launch, aic, product_ready, released, flags, window, out,
                 add_out>>

\* The whole row of a window, if all of its tiles hold the same kind of data.
RowOf(q, i) ==
  IF \A t, u \in 0..(Tiles - 1) : window[q][i][t] = window[q][i][u]
    THEN window[q][i][0] ELSE <<"unknown", 0>>
PutRows(w, q, rows, value) ==
  [w EXCEPT ![q] = [i \in DOMAIN @ |-> IF i \in rows THEN value[i] ELSE @[i]]]
PutWindow(q, rows, value) ==
  window' = PutRows(window, q, rows, [i \in rows |-> [t \in 0..(Tiles - 1) |-> value[i]]])

\* ParallelWithSplitStepOneAddNorm: add the products of all ranks and the
\* residual, keep the sum if it is asked for, normalise into the window.
Reduce(r, c) ==
  LET rows == ReduceRows(r, c, Here(r, c).round)
      Sum(i, kind) == IF \A q \in Ranks : RowOf(q, i) = <<"product", launch[r]>>
                        THEN <<kind, launch[r]>> ELSE <<"unknown", 0>>
  IN
  /\ Executes(r, c, "reduce")
  /\ PutWindow(r, rows, [i \in rows |-> Sum(i, "norm")])
  /\ add_out' = IF gather_add_out
                  THEN PutRows(add_out, r, rows, [i \in rows |-> Sum(i, "sum")]) ELSE add_out
  /\ Advance(r, c)
  /\ UNCHANGED <<gather_add_out, launch, aic, product_ready, released, flags, ex, ex_old, out>>

\* ParallelAllGather: the normalised rows of a rank into gm_out; the sums of this
\* rank into its window; the sums of another rank from its window.
AllGather(r, c) ==
  LET rows == GatherRows(c, Here(r, c).round)
      remote == [i \in rows |-> RowOf(GatherRank(c), i)]
  IN
  /\ \/ /\ Executes(r, c, "gather")
        /\ out' = PutRows(out, r, rows, remote)
        /\ UNCHANGED <<window, add_out>>
     \/ /\ Executes(r, c, "share")
        /\ PutWindow(r, rows, add_out[r])
        /\ UNCHANGED <<out, add_out>>
     \/ /\ Executes(r, c, "fetch")
        /\ add_out' = PutRows(add_out, r, rows, remote)
        /\ UNCHANGED <<window, out>>
  /\ Advance(r, c)
  /\ UNCHANGED <<gather_add_out, launch, aic, product_ready, released, flags, ex, ex_old>>

--------------------------------------------------------------------------------
\* The kernel has returned on rank r; the stream launches the next one.
Returned(r) == \A c \in Cores : aiv[r][c] = End(r, c) /\ aic[r][c] = Rounds

LaunchNext(r) ==
  /\ Returned(r)
  /\ launch[r] < Launches
  /\ launch' = [launch EXCEPT ![r] = @ + 1]
  /\ aiv' = [aiv EXCEPT ![r] = [c \in Cores |-> 1]]
  /\ aic' = [aic EXCEPT ![r] = [c \in Cores |-> -1]]
  /\ UNCHANGED <<gather_add_out, product_ready, released, flags, ex, ex_old, window, out,
                 add_out>>

AllreduceNext ==
  \E r \in Ranks :
    \/ AivSync(r)
    \/ LaunchNext(r)
    \/ \E c \in Cores :
         \/ AicSplit(r, c) \/ Align(r, c) \/ GroupFlag(r, c) \/ WindowFlag(r, c)
         \/ ExCounter(r, c) \/ Reduce(r, c) \/ AllGather(r, c)

--------------------------------------------------------------------------------
\* When the kernel returns on a rank, every row of its output is the normalised
\* sum of this launch's products of all ranks, and so is every row of the sum if
\* it was asked for: no row is reduced, gathered or exchanged before all of its
\* parts are there, none is overwritten while a slower rank still reads it, and
\* the uneven shares of the last round cover all rows.
AllreduceExact ==
  \A r \in Ranks : Returned(r) =>
    \A i \in 0..(Rows - 1) :
      /\ out[r][i] = <<"norm", launch[r]>>
      /\ gather_add_out => add_out[r][i] = <<"sum", launch[r]>>

\* No launch hangs: as long as a rank has a launch to finish, some unit can execute
\* its next step, although the flags are compared for equality, start with arbitrary
\* values, and are reset by one rank while another may still be polling them.  A
\* step moves a unit forward in a program without loops, so every launch returns.
AllreduceNeverHangs ==
  (\A r \in Ranks : Returned(r) /\ launch[r] = Launches) \/ ENABLED AllreduceNext
================================================================================
