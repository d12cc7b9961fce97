# TLA+ verification of vllm-Ascend-SpecSLO

vllm-Ascend-SpecSLO is the Ascend plugin of vLLM with an addition of its own:
a native speculative-decoding engine, PEARL, in which a draft group of ranks
proposes tokens while a target group verifies the previous proposal, and an
SLO-aware pipeline on top of it, SpecRhythm. This directory models

* that engine (`src/vllm_ascend/spec_decode/pearl/`), where most of the
  repository's protocol state lives, with the paged KV cache below it;
* the memory services of a worker that have state of their own: the registry of
  host memory mapped into the NPU, the KV offload handler that uses it, and the
  sleep-mode allocator;
* three device kernels whose difficulty is control: two that communicate
  between ranks while they compute, and the n-gram speculator.

The models are checked by TLC on small instances. All safety properties of the
linear rounds (their refinement of target-only decoding included), of the
scheduler adapter, the mapping registry, the offload handler, sleep mode and the
KV cache, and some of the SpecRhythm pipeline, are proved for every instance.
`PROJECT.json` lists the components, runs, source lines, hazards and theorems in
machine-readable form.

File names below without a directory are in `src/vllm_ascend/spec_decode/pearl/`.

## The system and its parts

| Part | Source | Here |
|---|---|---|
| Sequence state, verdicts, stop test | `native_engine.py` (`PearlPipelineState`, `_build_*_verdict`, `_finished`, `_truncate_completion`) | `PearlState` |
| Batch, KV positions, verification widths | `native_engine.py`, `native_cache.py` | `PearlBatch` |
| Linear PEARL rounds | `native_engine.py` `generate_batch` | `PearlRounds` |
| Proposal controller of the dual-batch pipeline | `spec_rhythm.py` `SpecRhythmPipelineController` | `SpecRhythmController` |
| Scheduler adapter for other front ends | `spec_rhythm.py` `SpecRhythmScheduler` | `SpecRhythmScheduler` |
| Budget shaper with roofline | `spec_rhythm.py` `SpecRhythmBudgetShaper` | `SpecRhythmBudget`, `BudgetShaper` |
| SpecRhythm in the native engine | `native_engine.py` `_generate_spec_rhythm_decode` | `SpecRhythmEngine` |
| What all of it promises | | `AutoregressiveDecode` |
| Paged KV cache with prefix reuse | `native_cache.py`, its use in `native_engine.py` | `NativePrefixCache` |
| Registry of mapped host memory | `src/csrc/kv_cache_block_gather_binding.cpp` | `HostMappingRegistry` |
| Mapped KV offload handler | `src/vllm_ascend/kv_offload/experimental_mapped.py` | `MappedOffload` |
| Sleep mode | `src/csrc/camem_allocator.cpp`, `src/vllm_ascend/device_allocator/camem.py`, `src/vllm_ascend/worker/worker.py` | `SleepModeAllocator` |
| Fused matmul, all-reduce, add and RMSNorm | `src/csrc/mc2/matmul_allreduce_add_rmsnorm` | `MatmulAllreduce` |
| Fused MoE dispatch, FFN and combine | `src/csrc/mc2/dispatch_ffn_combine_bf16` | `DispatchFFNCombine` |
| n-gram speculator kernel | `src/csrc/attention/ngram_spec_decode` | `NgramSpecDecode` |
| Everything else | | see "Not modelled" |

How the parts interact. `generate_batch` prefills the prompts, then either runs
PEARL rounds or hands over to the SpecRhythm loop. In both, the draft group and
the target group each keep a full replica of the request states and of the
scheduling state, and compute from it what to run next; only windows, verdicts
and the clock cross between them. A disagreement between the replicas is
therefore not repaired by any message, which is why most properties are about
two replicas, or about a replica and its KV cache.

In SpecRhythm the requests are split over two home batches. A service step
verifies the `ready` proposals of one batch while the draft works on the other,
and may also draft an *eager* continuation of a window that is still under
verification. The continuation sits in `staged_eager` until the verdict: a full
acceptance promotes it to `ready`, anything else invalidates it. The width of a
proposal is decided by the budget shaper under a shared token roofline.

The memory services meet the engines only through the worker: the KV cache hands
out pages, the offload handler copies blocks between CPU pools and the device
while the engine goes on, and sleep mode takes the physical pages away between
two calls. They share no state with each other, so each has a module of its own;
the offload handler and the registry do interact, and `MappedOffload` extends
`HostMappingRegistry` and calls its operations. The kernels are launched by the
model's layers and meet only other ranks of the same launch, and what an earlier
launch left in their windows.

## Modules

* **`PearlState`**: `PearlPipelineState` as a record and its methods as
  operators. `pending` is `pending_window_size`, `pre` is `pre_verify`, `epoch`
  stands for `continuation_epoch` and `verification_rounds`, which move
  together. `Account` is the part both transitions share;
  `ApplyTargetVerification` and `ApplyDraftVerification` add what happens to
  `token_ids`. `GreedyVerdict` and `StochasticVerdicts` are one row of the two
  verdict builders; the second returns every verdict sampling may produce.
* **`PearlBatch`**: the guards of `generate_batch` as an assumption, the page
  table's capacity, the KV cache (position -> token whose key was written last),
  what draft and target rows feed, the bucketed widths of the target graph, and
  the target's predictions. A prediction is computed from the *cache*, never from
  `token_ids`, so a stale entry changes the output.
* **`PearlRounds`**: the decode loop. `Schedule` is the top of the loop (restore
  completed rows, snapshot finished ones, refill, pad the tail bucket, order
  the rows), on either side; `DraftForward`, `TargetForward`, `TargetVerify` and
  `DraftApply` are the round. Three batch modes: static, padded with finished
  rows, and continuous. Errors are outcomes: a consistency check that fails
  leaves the worker in `"raised"`, a position outside the page table in
  `"overflow"`.
* **`SpecRhythmController`**: the pipeline controller as operators on a record;
  used by the next two.
* **`SpecRhythmScheduler`**: one action per method of the adapter (`Admit`,
  `Preempt`, `Reactivate`, `Remove`, `Schedule`, `ReportVerdict`), and
  `StartProposal` and `PublishProposal` for the workers that act on a schedule. A
  worker may publish arbitrarily late. `parent` and `lastVerdict` are history
  variables; `lifecycle` is the field of the ticket objects.
* **`SpecRhythmBudget`** and **`BudgetShaper`**: what `shape()` may return, and
  the two-stage algorithm that computes it, one action per granted request or
  token.
* **`SpecRhythmEngine`**: the service loop on both sides: `TargetAdmit` /
  `DraftAdmit` (retire, admit by the broadcast clock, or idle), `Plan`
  (`build_plan`, payload checks, `shape`, `new_ticket`), `DraftForward`,
  `TargetForward`, `TargetReceive` (the envelope check), `TargetVerify`,
  `DraftApply`, `Barrier` for warmup steps, `Arrive` for time.
* **`AutoregressiveDecode`**: the abstract specification. Every output is one
  the target model could have produced alone, token by token, and delivered
  tokens are never taken back. Both engines refine it with `out` mapped to the
  truncated committed completion of every request.
* **`NativePrefixCache`**: `ref_count`, `prefix_key` and the LRU age of every
  block, `prefix_to_block`, the page tables of the current batch, and what each
  slot of a block holds. `Allocate` starts a batch, then one action per block:
  `AllocateHit`, `AllocateMiss` (which may evict), or `AllocateRaises` with its
  rollback. `Prefill` writes the prompts in row order from the first token that
  counts as cached, as `generate_batch` does (775-807) before any decoding;
  `DecodeInPage` and `DecodeNewPage` follow, and `Release` ends the batch.
* **`HostMappingRegistry`**: `mappings` and `handles` are the tables of the C++
  registry, `registrations` what the driver has mapped. `RegisterPool` reuses,
  borrows (pinned memory) or owns a mapping; `ReleaseShared` drops a lease that
  is not the last; the last one takes `FenceLast` (the mutex is held and the
  device drained) and then `ReleaseLast` or `UnregisterFails`. `ResolveAlias` and
  `SubmitGather` are the two halves of a gather, between which other threads may
  run; `DeviceFinishes` is the device. `Obtain` and `Drop` are the owners'
  references to host memory: a storage nobody refers to may be allocated again.
* **`MappedOffload`**: the handler's thread. `AllocatePools`, `RegisterNext` and
  `RegisterRaises` are the constructor, `Submit...` the outcomes of `submit_store`
  and `submit_load` (tracked, undone, rejected), `GetFinished` the poll, `Drain...`
  and `Close...` the shutdown, which leaves the handler usable when it raises.
  `results` is a history variable: what the submitter of a job knows.
* **`SleepModeAllocator`**: `MyMalloc`, `MyFree` and their failures (the C
  callbacks and their Python ends), `WorkerSleep` at level 1 and 2 and
  `WorkerSleepRaises`, in which the backup, the unmapping, the release of some
  block or the final assertion fails, `WorkerWakeUp` with a set of tags, and
  `WorkerWakeUpRaises`, in which physical memory runs out or the mapping fails at
  some block. `version` and `expected` record what a block should hold.
* **`MatmulAllreduce`**: the program of a vector core is a sequence of steps
  (`Code`), built from the loops of the source; one action per kind of step.
  `AicSplit` is the cube core. Flags, the barrier and the counters in the windows
  are modelled with their resets and what an earlier use left in them.
* **`DispatchFFNCombine`**: `Route`, `Publish`, `Collect`, `Cumsum`, `CopyRows`,
  the two matmuls with `SwiGLU` between them, `Combine`, `ResetTokenPerExpert`
  and `Unpermute`, on each rank and each vector core. A row is where it comes
  from and which weights it has been through.
* **`NgramSpecDecode`**: `ScalarSearch`, `VectorSearch` and `ChunkedSearch` as
  functions of a row, and `ComputeOneRow`, which appends as many leading slots as
  there are valid ones (so a -1 in the middle lands in the row) and proposes a
  draft, over several calls on the same row.
* **`PearlBatchProofs`**, **`PearlLoopProofs`**, **`PearlRoundsProofs`**: proofs
  about the linear rounds, from the shared operators over one replica to both.
* **`SpecRhythmEngineProofs`**: proofs about `SpecRhythmEngine`.
* **`WorkerControlProofs`**: proofs about `SpecRhythmScheduler` and
  `SleepModeAllocator`, which share nothing but their size.
* **`MappedOffloadProofs`** and **`MappedLeaseProofs`**: the offload handler's jobs
  and buffers; the registry's leases, alone and composed with the handler.
* **`NativePrefixCacheProofs`**: proofs about `NativePrefixCache`.
* **`MC...`**: constants for TLC and nothing else.

Operators whose comment starts with "Mutant of" are deliberate errors. Each one
replaces the named definition to confirm that a property can fail; no
specification uses them.

### Abstractions

* Tokens are two or three values. The target model is a function of its cached
  prefix that distinguishes all short prefixes (`Mix`); the draft model may
  propose anything, so every acceptance pattern occurs.
* Temperature is the same for the whole batch. `ignore_eos` is `Eos = {}`.
* A group is one process: its ranks run the same code on the same values.
* The float-valued policy (progress gaps, urgency, acceptance averages) is
  open. In `BudgetShaper` any gap, eligibility and order may occur. In
  `SpecRhythmEngine` the first side to plan chooses, and the other repeats the
  choice because it computes it from the same broadcast values, unless its own
  lookup of the roofline differs.
* The elapsed-time and the wall-clock broadcast that end a service step are one
  clock message. Polls of an idle group that admit nobody change nothing and are
  left out.
* Eager tickets are created in the order of the active batch.
* An envelope with another number of rows is treated as the "misrouted or stale"
  error; in the code the two tensors would differ in shape.
* A worker that raises leaves the other one waiting in a collective for good
  (`Over`). That wait is a stuttering step here, so `Termination` fails.
* `accepted_draft_tokens`, `verified_draft_tokens`, `plan_id`, profiling and
  timing are reported and never read; they are left out.
* Host memory is a small set of addresses with pages. Two host allocations never
  share a page (`TensorsAreMemory`); the registry relies on it without checking.
  Direct callers gather only from tensors they hold a lease on; the handler's
  pools have storages of their own. `wait` of the handler changes no state.
* Which calls reach a sleeping worker is decided by vLLM's executor, which is
  external: it sleeps only when awake and wakes only tags that sleep. A wake-up
  after a level-2 sleep includes the weights, as the callers in the repository do.
  With `weight_nz_mode` the worker refuses every wake-up (`WeightNzMode`). The
  transposition of expert weights at the end of `wake_up` (472-491) changes how a
  parameter views its block and not what the block holds. The driver is taken to
  refuse mapping what is mapped and unmapping what is not.
* In the collective kernels, the tiles of a split and the tiles of an expert
  group are one step each, and the second vector unit of a core (`aiv_idx` 1),
  which only joins the barriers, is not a process. A rank of the MoE kernel has
  one vector core per peer, its cube cores are one process, and its windows
  start at zero.
* In the n-gram kernel, the chunked path is entered only with rows longer than
  `max_n`, and a row's length is a multiple of the vector width (see
  "Observations").

## Runs

| Run | Instance | Distinct states | Checks |
|---|---|---|---|
| `rounds_queue` | 4 requests over 3 slots, continuous | 22,224 | `NoWorkerRaises`, `ReplicasAgree`, `ResultsComplete`, `Termination` |
| `rounds_sampled` | sampling, end-of-sequence token, 2 requests, gamma 2, finished rows kept, the model length the guard asks for | 156,904 | `CacheFresh`, `AdmittedRequestsFit`, `CommittedLengthExact`, `RefinesAutoregressive` |
| `rounds_tight` | gamma 4, tightest model length | | `AdmittedRequestsFit` is violated |
| `scheduler` | 2 requests, 3 proposals | 516,649 | `ReadyIsCurrent`, `PromotedOnlyAfterFullAcceptance`, `TicketsAreUnique`, `NoDeadProposalWaits`, `LifecycleMovesForward` |
| `scheduler_parent` | the same | | `PromotedContinuesAcceptedParent` is violated |
| `engine_pair` | 2 requests, 2 home batches, gamma 2, roofline 3, one position more than the guard asks for | 393,819 | `NoWorkerRaises`, `EnvelopeMatches`, `ReplicasAgree`, `CacheFresh`, `RefinesAutoregressive` |
| `engine_arrivals` | 3 requests over 2 slots, one arrives late | 25,354 | `MailboxesClean`, `ResultsComplete`, `Termination` |
| `engine_context` | roofline keyed by context length | | `EnvelopeMatches` is violated |
| `shaper` | 3 requests, gaps 0..4, with and without a draft budget | 606,315 | `KeepsPromise`, `GapsBeforeResidual`, `DefaultsNeverRaise`, `Termination` |
| `worker_memory` | registry: 2 threads, 2 devices, a pool and a view; handler: 2 pools, 1 store and 2 loads; sleep mode: 4 blocks; KV cache: 4 pages, 3 batches | 470,211 | `ReadsAreLive`, `LeasesBalance`, `WorkKeepsItsBuffers`, `JobsAreAccountedFor`, `ClosedMeansReleased`, `JobsAreReported`, `WakeRestores`, `PhysicalMemoryIsPaired`, `PagesAreConsistent`, `ReuseIsSoundUntilEviction` |
| `device_kernels` | 2 ranks, 2 launches of each collective kernel; n-gram rows up to 8 tokens | 347,531 | `AllreduceExact`, `TokensComeHome`, `DraftContinuesSuffix`, `LaunchesNeverHang` |
| `ngram_golden` | scalar path, rows up to 8 tokens | | `DraftMatchesGolden` is violated |

What they show:

* *Speculation is invisible* (`RefinesAutoregressive`). In both engines the
  visible completions evolve as target-only decoding would produce them, under
  every draft behaviour, with padding rows, eager windows, rollbacks and, in the
  rounds, sampling.
* *Two replicas stay one* (`ReplicasAgree`, `EnvelopeMatches`,
  `NoWorkerRaises`). The draft appends windows early and takes back what was
  rejected; at every meeting point the replicas agree up to the window under way.
* *Rejected keys are never read* (`CacheFresh`). A rolled-back position, the
  repeats that widen a row, and the writes of graph capture are overwritten before a
  forward attends to them.
* *Accounting* (`CommittedLengthExact`). Committed length, pending window and
  acceptance segments always say what `token_ids` says.
* *Nothing is lost or leaked* (`ResultsComplete`, `MailboxesClean`,
  `TicketsAreUnique`, `NoDeadProposalWaits`). Every request gets a complete
  result; no payload outlives its ticket.
* *The loops end* (`Termination`).
* *The shaper keeps its promise* (`KeepsPromise`): minima, caps, the shared
  roofline and the draft budget, with nothing left unspent that somebody could
  use. `SpecRhythmEngine` relies on exactly this set of outcomes, so the two
  modules compose.
* *The device never reads memory that is gone* (`ReadsAreLive`,
  `WorkKeepsItsBuffers`). Between the lookup of an alias and the end of the gather
  a mapping stays; stream, events and buffers of unfinished work are in no pool,
  whichever call raised and however often shutdown was retried.
* *Leases and jobs balance* (`LeasesBalance`, `JobsAreAccountedFor`,
  `ClosedMeansReleased`, `JobsAreReported`). A failed unregistration is kept for
  the retry; a job is reported at most once, in order, and as a success exactly
  when its submission returned True; one that failed or was poisoned does not block
  the ones before it.
* *A sleeping model wakes up as it was* (`WakeRestores`), as long as no sleep has
  raised. A wake-up that raises half-way leaves its tags asleep, so it claims
  nothing of them; repeating it can only raise again (see "Observations").
  *Physical memory is paired with mappings* (`PhysicalMemoryIsPaired`), whatever
  raised half-way, except for a block whose mapping or release itself failed.
* *Pages are shared only where it is sound* (`PagesAreConsistent`,
  `ReuseIsSoundUntilEviction`). Reference counts and the prefix map agree with the
  page tables at all times. As long as nothing was evicted and no allocation
  failed, every cached position holds the keys of its prompt; see "Observations"
  for what eviction does.
* *The collective kernels compute the right rows* (`AllreduceExact`,
  `TokensComeHome`), under every interleaving of ranks and cores and for a second
  launch that starts on the flags of the first, *and return*
  (`LaunchesNeverHang`). Their steps only move forward, so that some step is
  possible until every rank has returned is the same as termination.
* *A draft continues what it claims to* (`DraftContinuesSuffix`): the tokens that
  followed an earlier occurrence of a suffix of allowed length, for each path, and
  that there is a draft when there is such an occurrence. Which occurrence the
  paths choose differs (`ngram_golden`).

### Findings

* `rounds_tight`: the admission guard (`native_engine.py:760`) reserves `gamma`
  positions past `max_tokens`, but a window may start `gamma - 1` positions past
  it. With `gamma = 4`, a prompt of 2, `max_tokens = 6` and `max_model_len = 12`
  an admitted request reaches the page-table error of `native_cache.py:92`.
  The proof of `RoundsFit` gives the margin that is always enough: `2*gamma - 3`,
  so the guard suffices up to `gamma = 3` (`ShortWindowsFit`). When finished
  rows stay in the batch as padding the margin is `3*gamma - 3`, and the guard is
  too weak from `gamma = 2` on: two requests with a prompt of 1,
  `max_tokens = 5` and `max_model_len = 8` overflow in the padded mode. The
  requests of `rounds_sampled` (`max_tokens` 4 and 2) still fit at the limit.
  SpecRhythm passes the same guard and needs more: with a prompt of 1,
  `max_tokens = 3` and `gamma = 2` the guard asks for `max_model_len = 6`, and an
  eager window on top of a pending and a ready one overflows there.
  `NoWorkerRaises` in `engine_pair` is checked with 7, so it says that nothing else
  raises and that one position more is enough for this instance.
* `scheduler_parent`: promotion compares epochs and not parents. If a request
  is preempted and reactivated while an eager draft is under way, the late
  continuation of the old window is promoted with a new window of the same
  epoch. The native engine never preempts between a window and its verdict, so
  this concerns front ends that use the adapter.
* `engine_context`: each side looks the roofline up with the length of its own
  `token_ids`, which on the draft includes unverified windows
  (`native_engine.py:1431`). With context-keyed entries the lengths can fall into
  different buckets, and the envelope check raises.
* `ngram_golden`: the scalar path keeps the longest matching suffix
  (`ngram_spec_decode.cpp:516-541`), while the reference of the kernel's test,
  `golden_ngram_spec_decode`, stops at the shortest
  (`tests/e2e/nightly/single_node/ops/singlecard_ops/test_ngram_spec_decode.py:103-104`).
  The drafts differ on rows where suffixes of two lengths occur.

### Observations

What modelling showed about behaviour that no document or test of the repository
describes; a maintainer may want to decide what is intended.

* Prefix reuse after eviction. The least recently used block goes first, so the
  first block of a cached prompt is evicted before later ones. With four
  blocks of two tokens, serve `<<0,0,0,0,1>>`, then `<<1,1,0,0,1>>`, then the first
  prompt again: its first block misses, its second hits, and
  `num_cached_tokens` counts hits wherever they are (`native_cache.py:64-65`).
  Prefill then skips two tokens that are not cached and computes two that are.
  `ReuseIsSoundUntilEviction` is stated up to this point for that reason.
* A failed allocation rolls references back but leaves the keys of blocks
  that were never filled registered; a later prompt can hit them.
* In the bf16 MoE kernel, `epilogueGranularity` is the unsigned
  `expertPerRank - 2` (`dispatch_ffn_combine_bf16.h:268`). With two experts per
  rank it is 0 and the activation between the matmuls is not executed (kernel
  811-884): `TokensComeHome` fails in the model with `ExpertPerRank = 2`, and
  holds with 1 and 3.
* With more peers than vector cores, counts are published to the window of the
  core index instead of the peer (kernel 609), and `Collect` would wait for ever.
  The int8 kernel of the same family lacks the barrier before the reset
  (`csrc/mc2/dispatch_ffn_combine/op_kernel/dispatch_ffn_combine_kernel.hpp:968-971`).
* The n-gram paths differ: the scalar and the vector path keep the longest
  matching suffix, the chunked path stops at the shortest. The chunked path
  misaligns its suffix when a row is shorter than `max_n` (194-195). The vector path looks at stale mask bits when
  `max_seq_len` is not a multiple of 64 (463-472), and after a shorter match
  looks for a longer one only in the first 8192 positions (510).
* `api.py`: after a worker times out, its pipe is not drained, and a retried call
  can take the late replies. `draft_server.py:117` sends its reply outside the
  `try`, so a client that has gone ends the accept loop.
* Errors on one rank only: with temperature above 0 only the target leader holds
  a verdict (`native_engine.py:3056`), so a target group of two or more ranks
  raises on the others (3142) while the leader waits; a transport error in
  `remote_proposer.py:102` raises on the leader before the broadcast that the other
  ranks wait in. A group is one process here, so no run reaches these.
* The fence before an unmapping is `aclrtSynchronizeDevice`
  (`kv_cache_block_gather_binding.cpp:810`). It waits for the device queues;
  whether it covers work still in the host task queue of torch_npu is not visible
  in this repository, and the model takes submitted work to be in the device queue.
* `get_finished` of the offload handler takes a transfer off its deque before
  `elapsed_time` (`experimental_mapped.py:847`); if that raised, the results
  gathered so far would be lost. The model takes it not to raise on a complete
  event.
* Level-2 sleep: `wake_up` restores the named buffers for any tags
  (`worker.py:494`), also while the weights are unmapped.
* A wake-up that raises half-way cannot be repeated: the second one begins with
  blocks that are mapped already, and `create_and_map` fails on them. When the
  mapping itself fails, `create_and_map` returns without freeing the physical memory
  it has just created (`camem_allocator.cpp:62`), so every attempt leaks.
  A sleep that raises half-way leaves blocks unmapped that the executor takes to be
  awake, and every further sleep raises at the first of them.
* A late draft of a removed request: `remove` and `admit` of the same request index
  start again at epoch 0 (`spec_rhythm.py:615`), so a ticket drafted for the old
  request is accepted for the new one. No property of `SpecRhythmScheduler`
  distinguishes them, because a ticket carries nothing else.
* A gather finds its alias through any mapping that covers its range
  (`kv_cache_block_gather_binding.cpp:309-322`); nothing checks that the caller holds
  a lease on it. `ReadsAreLive` is about callers that do, as the handler does.
* `camem.py:301` ignores the result of the copy that backs a block up, and the
  wake-up that of the copy that restores it.

### Bounds, and why they are enough

`gamma` is 2 in the passing runs of the rounds, the least with a pre- and a
post-verify width and a rejection inside a window; the proofs of the rounds hold
for any `gamma`. `max_tokens` is 2 to 6, so that a request sees full acceptance,
rejection and full acceptance again, and steps over `max_tokens` inside a window. In `rounds_queue` the
requests have different lengths, one is complete after prefill, and the last
rows drain into a padded tail bucket. In `engine_pair` the roofline is 3 for two
requests with caps of 2, so normal and eager proposals compete and widths vary.
`engine_arrivals` uses `gamma = 1`, because it is about the queue, the clock and
the retirement. `MaxProposals = 3` in `scheduler` is a parent, its continuation
and a competitor; the proofs remove the bound. Sampling is checked in the
rounds, since the verdict and the state transitions are the same operators in
both engines and the pipeline multiplies their outcomes.

In `worker_memory` a behaviour is about one of four subjects, chosen initially,
because they share no state. Two threads with three leases are enough for a
reused mapping, a shared and a last release, and a gather that races them; the
view lies on the pool's second page. Two loads and a store give each direction a
predecessor or a race with the other, and caches of size 1 make every pool
overflow. Sleep mode has one block of each kind: a parameter, a named buffer, a
block that stays resident, and the KV cache. Four pages of two tokens with
at most three per sequence force eviction, sharing and exhaustion within three
batches.

In `device_kernels` the rows (5) do not divide by ranks, cores or rounds (2), so
shares differ and the last is short; three rounds with a pipeline of two reuse a
buffer; counters wrap at 8. The MoE kernel has three experts on each of two ranks,
with a routing that leaves experts empty and one that exceeds the four rows
a rank can take in. The n-gram rows are over two tokens, with comparisons of three
positions in lanes of three, so a match can straddle a comparison, and any sampled
slot may be invalid.

No run replaces a definition. Deadlock is checked in all runs but
`worker_memory` and `device_kernels`: a closed handler and a finished set of
launches really stop, and `JobsAreReported` and `LaunchesNeverHang` say what must
not be left undone.

### Fairness

Weak fairness of each side's steps: a rank runs its loop without waiting for
anything but a collective, and a collective completes when both sides have come
to it. `Barrier` is fair for the same reason. `Arrive` is fair because an
arrival time is a moment that passes. `BudgetShaper` is fair in its only thread.
In `MappedOffload` the device finishes submitted work and the connector polls on
every engine step (`OffloadFairness`); nothing else of the handler is fair.
The scheduler adapter has no fairness, as the front end that drives it is not in
the repository; no liveness is claimed for it.

## Proofs

All theorems hold for every value of the constants that the named assumptions
allow. TLC evaluates those assumptions in the runs, and checked every inductive
invariant below on the run instances before it was proved.

| Theorem | Module | Establishes always |
|---|---|---|
| `TypeCorrect` | `WorkerControlProofs` | `TypeOK` of the scheduler |
| `ReadyStaysCurrent` | | `ReadyIsCurrent` |
| `PromotionNeedsFullAcceptance` | | `PromotedOnlyAfterFullAcceptance` |
| `TicketsStayUnique` | | `TicketsAreUnique` |
| `NoDeadProposalEverWaits` | | `NoDeadProposalWaits` |
| `LifecycleNeverRunsBack` | | `LifecycleMovesForward` (an action property) |
| `WakeAlwaysRestores` | | `WakeRestores` (as long as no sleep has raised) |
| `PhysicalStaysPaired` | | `PhysicalMemoryIsPaired` |
| `JobsStayAccountedFor` | `MappedOffloadProofs` | `JobsAreAccountedFor` |
| `WorkAlwaysKeepsItsBuffers` | | `WorkKeepsItsBuffers` |
| `RegistryBalances`, `HandlerLeasesBalance` | `MappedLeaseProofs` | `LeasesBalance`, of the registry alone and under its handler |
| `GathersReadLiveMappings`, `HandlerReadsAreLive` | | `ReadsAreLive`, likewise |
| `ClosedIsReleased` | | `ClosedMeansReleased` |
| `PagesStayConsistent` | `NativePrefixCacheProofs` | `PagesAreConsistent` |
| `ReuseStaysSound` | | `ReuseIsSoundUntilEviction` |
| `RoundsNeverRaise` | `PearlRoundsProofs` | `NoWorkerRaises` of the linear rounds |
| `RoundsAgree` | | `ReplicasAgree` |
| `RoundsCommitExactly` | | `CommittedLengthExact` |
| `RoundsCacheFresh` | | `CacheFresh` |
| `RoundsComplete` | | `ResultsComplete` |
| `RoundsRefineAutoregressive` | | `RefinesAutoregressive` (refinement of `AutoregressiveDecode`) |
| `RoundsFit`, `ShortWindowsFit` | | `AdmittedRequestsFit`, given `EnoughRoom`, or windows of at most three tokens and no padding rows |
| `MailboxesStayClean` | `SpecRhythmEngineProofs` | `MailboxesClean` |
| `EngineResultsComplete` | | `ResultsComplete` of the SpecRhythm engine |

**The linear rounds** (`PearlBatchProofs`, `PearlLoopProofs`,
`PearlRoundsProofs`), from the guards of `generate_batch` (`BatchAssumption`) and
the one thing asked of the target model, that it returns a non-empty set of tokens
for every prefix (`SupportAssumption`). `PearlBatchProofs` has the facts about the
shared operators: the row filter, the verdicts, the two verification
transitions, cache writes and truncation. `PearlLoopProofs` is about one replica:
`LoopTop` (restore, snapshot, refill, pad) is idempotent where it must be, keeps
every request in exactly one place, and counts the padding rows right.
`PearlRoundsProofs` puts the two together. The core of `IInv` is `LockStep`: the
replicas agree *at their loop tops* and not in between, and while a verdict is
under way the target's next loop top is the one the draft will have when it
has applied the verdict. `DraftRan` and `TargetRan` say what a forward leaves in the
cache and in the predictions, `CacheOK` to which position a cache is fresh. The
refinement takes one step of `Deliver` per `TargetVerify` and stutters otherwise:
the verdict of a fresh row is a run the target alone could have produced, and
restoring, padding or retiring a row leaves what it shows unchanged. `RoundsFit`
strengthens the bound to `FitInv`: a request stops only at a loop top, so its last
round may commit up to `gamma` tokens more while the draft is a window ahead.

**The SpecRhythm engine** (`SpecRhythmEngineProofs`), for any requests, arrivals,
rooflines and policy choices. `EngineInv` holds of each side on its own, and says
for every place in the service step what the controller, the payload store and
the queues look like: `Idle` (nothing staged, one payload per ready ticket),
`Planned` (the new tickets have the last ids drawn, no request has two, an eager
one continues a row under verification) and `Verifying` (staged tickets belong to
rows). Clean mailboxes are not inductive without it: that dropping the `Spent`
payloads removes exactly the right ones needs distinct ids across both mailboxes,
and that a publication lands in an empty slot needs the plan's epochs. `Served`
adds that every request is waiting, active or completed and that only finished
ones leave the batch, which gives `ResultsComplete`. The loops of the engine are
recursive functions; `LoopDefined` shows that they have a value, and `LoopKeeps`
carries an invariant through one.

**The scheduler adapter** (`WorkerControlProofs`), for any set of requests and any
positive bounds (`SchedulerAssumption`). The argument has two layers. `IInv` is the
conjunction of the first four theorems with `IdsAreFresh`: uniqueness across the
mailboxes is not inductive on its own, because promotion moves a staged ticket to
`ready` and publication moves a draft to a mailbox, so staged tickets and drafts
must be unique among themselves and every id below the counter. `ReadyIsCurrent`
needs the type invariant's statement that a ticket is filed under its own request.
The actions that only remove mailbox entries (`Preempt`, `Schedule`) share the
lemma `MailboxesShrink`; every other action that moves tickets has a lemma of its
own. `LInv` is the second layer, proved with the help of the first: the lifecycle
of every ticket in use is on record and names the place the ticket is in. That a
verdict touches no other ticket's record is where uniqueness is used. The action
property follows from the same step lemmas.

**Sleep mode** (`WorkerControlProofs`), for any allocations in any order of
loading, tagged as the worker tags them (`SleepAssumption`). `SleepInv` has two
parts. `MemoryInv` holds whatever fails: types, and the pairing of mappings and
physical memory. `ContentInv` holds until a sleep raises: an awake
block holds what is expected of it and has no backup (`AwakeOK`), and a
sleeping block that is unmapped has its expected content pending: in the saved
buffers, in its backup, or as empty pages (`AsleepOK`). That no backup is left is
what keeps a second sleep from restoring the first one's data.

**The offload handler** (`MappedOffloadProofs`), for any numbers of jobs, pools and
blocks (`OffloadAssumption`). `IInv` adds to the state part of
`JobsAreAccountedFor` that the outcome recorded in a transfer is what its submitter
was told (`OutcomesOK`), from which each step of a result follows, that a deque
holds its jobs in increasing order below the next id and that the device works
only on jobs of the deque (`InOrder`). Polling and draining are the same kind of
step (`TakesPrefixes`): a completed prefix leaves, so what remains is younger than
what was reported. `ResourcesOK` adds that streams and buffers of the transfers and
of the pools are all different, and that device work is served by one transfer.

**Leases** (`MappedLeaseProofs`). For the registry alone, with any owners, tensors,
devices and addresses, given that two allocations never share a page
(`TensorsAreMemory`), the counts alone are not inductive: that the last release
removes the right thing needs `ReleaseIsAlone` (while the mutex is held across
the fence the handle is the only lease and no read or pending call uses its
mapping), which needs `CallsAreLeased`. That a read is of live memory needs
`MappingsHaveOrigin`: a mapping was made for one tensor, so by the page
assumption all it contains belongs to one storage, which the lease keeps
allocated. The composition reuses this invariant, as every step of the handler is
a step of the registry on the shared tables, and adds `KnowsItsLeases`: the handles
the handler knows of are exactly the leases there are, those whose release
failed included. A clean close then leaves none.

**The KV cache** (`NativePrefixCacheProofs`), for any numbers of blocks, any block
size and any batches of non-empty prompts (`CacheAssumption`). `IInv` adds
`Progress` to `PagesAreConsistent`: an allocation never comes back to an entry it
has filled, and decoding never to the full blocks of a prompt. `RInv` says what the
pages hold: a registered block holds its prefix or some row of the batch still owes
it (`RegisteredHold`), a hit is on a block that is filled or owed by an *earlier*
row (`CachedHold`), which is why prefilling in row order is sound, and as long as
nothing was evicted, registered prefixes are closed under shorter ones
(`PrefixesClosed`), so hits come first.

### Only model-checked

* Liveness (`Termination`, `JobsAreReported`, `LaunchesNeverHang`), which needs
  fairness and `ENABLED`.
* `NoWorkerRaises`, `EnvelopeMatches`, `ReplicasAgree`, `CacheFresh` and
  `RefinesAutoregressive` of the SpecRhythm engine. They relate the two sides, or a
  cache to the windows of both. Unlike in the linear rounds the sides never meet in
  a state with nothing under way: a side may run a whole service step ahead, so an
  invariant would have to replay clock, envelope and verdict messages on the
  slower side. Besides, `NoWorkerRaises` includes the page-table bound, which
  the guard does not give for all windows.
* `BudgetShaper`: its properties are about sums over sets of requests, defined by
  folds, which need induction over data.
* The kernels: programs of steps and sums built by recursion over rounds, ranks
  and cores.

## Not modelled

* The numerical bulk of `csrc` and of `ops`, `attention`, `quantization`,
  `_310p`, `lora` and `models`: about 270,000 lines of tiling and arithmetic on
  tensors inside one launch, much of it repeated per chip and data type. It has no
  state between calls and its correctness is a statement about numbers. Whatever
  share of the source's lines is modelled here is therefore small; the models go
  to the parts with control state.
* The engine API, its workers and pipes (`api.py`, `launcher.py`) and the draft
  service (`draft_server.py`, `remote_proposer.py`, `transport.py`): one command at
  a time over operating-system pipes and sockets. What can go wrong there is
  timeouts and process death, about which the code makes no promise to check;
  what reading it showed is under "Observations" and in the hazards.
* Ranks and collectives inside a group (`topology.py`, `runtime.py`, `mc2.py`):
  `torch.distributed` and HCCL, outside the repository.
* The CPU reference protocol (`protocol.py`, `state.py`, `verifier.py`,
  `vocab.py`) and tree drafts (`tree.py`, `../tree_kv.py`), which the native engine
  does not use; the ACLGraph cache (`native_graph.py`), beyond the padded widths and
  capture writes in `PearlBatch`.
* In the linear rounds: preemptive scheduling, the bounded-round benchmark mode,
  and `generate_target_ar_batch`.
* KV transfer between nodes, KV pools on external stores, expert load balancing,
  vLLM schedulers, proposers, workers and patches: subclasses and hooks of code
  outside the repository, which decides what may run concurrently.
* Statistical promises: the acceptance rate, similarity-based KV reuse
  (`simllm`), and the latency the SLO policy aims at.
