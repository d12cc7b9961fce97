----------------------------- MODULE MappedOffload -----------------------------
(***************************************************************************)
(* The mapped KV offload worker (vllm_ascend/kv_offload/                   *)
(* experimental_mapped.py, MappedOffloadingHandler) on top of the mapped   *)
(* host memory registry: registration of its CPU pools with rollback,      *)
(* asynchronous stores and loads over pooled streams, events and buffers,  *)
(* polling, and a shutdown that may fail and be retried.                   *)
(*                                                                         *)
(* The handler is one thread; the NPU finishes submitted work behind its   *)
(* back.  Work of one direction is in order, because each submission waits *)
(* for the end event of the one before it; the two directions race.  Every *)
(* runtime call may raise.  A stream and its two events always travel      *)
(* together and are one "lane".                                            *)
(***************************************************************************)
EXTENDS HostMappingRegistry, Sequences

CONSTANTS
  Worker,          \* the owner whose thread runs the handler
  Allocator,       \* any other code of the process that allocates host memory
  Pools,           \* the handler's CPU tensors, in order
  Device,          \* the worker's NPU
  Sizes,           \* block counts a transfer may have
  MaxJobs,         \* bound: direction -> submissions
  MAX_CACHED_IDS,  \* MAPPED_GATHER_MAX_CACHED_IDS
  ID_BUFFER_CACHE_SIZE

ASSUME OffloadAssumption ==
  /\ MaxJobs \in [{"store", "load"} -> Nat]
  /\ Sizes \subseteq Nat /\ MAX_CACHED_IDS \in Nat
  /\ Worker \in Owners /\ Allocator \in Owners /\ Device \in Devices
  /\ Pools \in Seq(Tensors) \ {<< >>}   \* "canonical CPU/NPU tensor lists are empty"

VARIABLES
  phase,           \* where the handler's thread is
  mapped_handles,  \* _mapped_handles
  closing,         \* _close_mapped_pool: handles still to release
  failed_handles,  \* ... and those whose release failed
  transfers,       \* direction -> deque of tracked transfers
  poisoned,        \* direction -> poisoned
  lane_pool,       \* direction -> stream_pool with event_pool
  buffer_pool,     \* _store_descriptor_pool and _load_id_pool
  device,          \* direction -> work the NPU has not finished, in order
  next_job,        \* direction -> next job id
  results          \* direction -> job -> what its submitter knows about it

handlerVars == <<phase, mapped_handles, closing, failed_handles, transfers,
                 poisoned, lane_pool, buffer_pool, device, next_job, results>>

\* SequencesExt and FiniteSetsExt have these too; a proof about this module would
\* carry all of both in every obligation.
Front(s) == SubSeq(s, 1, Len(s) - 1)
Last(s) == s[Len(s)]
RemoveAt(s, i) == SubSeq(s, 1, i - 1) \o SubSeq(s, i + 1, Len(s))
ToSet(s) == {s[i] : i \in DOMAIN s}
Min(S) == CHOOSE x \in S : \A y \in S : x <= y
Max(S) == CHOOSE x \in S : \A y \in S : x >= y

Directions == {"store", "load"}
NoBuffer == [id |-> 0, capacity |-> 0]

OffloadInit ==
  /\ Init
  /\ phase = "registering"
  /\ mapped_handles = << >> /\ closing = << >> /\ failed_handles = << >>
  /\ transfers = [d \in Directions |-> << >>]
  /\ poisoned = [d \in Directions |-> FALSE]
  /\ lane_pool = [d \in Directions |-> << >>]
  /\ buffer_pool = [d \in Directions |-> << >>]
  /\ device = [d \in Directions |-> << >>]
  /\ next_job = [d \in Directions |-> 1]
  /\ results = [d \in Directions |-> [j \in 1..MaxJobs[d] |-> "none"]]

--------------------------------------------------------------------------------
\* __init__ and _register_mapped_pool

\* The allocation loop of __init__ (torch.zeros for every pool).
AllocatePools ==
  LET mine == {StorageOf[Pools[i]] : i \in DOMAIN Pools} IN
  /\ phase = "registering"
  /\ held[Worker] = {}
  /\ held' = [held EXCEPT ![Worker] = mine]
  /\ generation' = [s \in Storages |->
                      IF s \in mine THEN generation[s] + 1 ELSE generation[s]]
  /\ UNCHANGED <<registryVars, call, reads, handlerVars>>

\* One turn of the registration loop; the last one completes the constructor.
RegisterNext ==
  LET i == Len(mapped_handles) + 1 IN
  /\ phase = "registering"
  /\ held[Worker] # {}
  /\ RegisterPool(Worker, Pools[i], Device)
  /\ mapped_handles' = Append(mapped_handles, next_handle)
  /\ phase' = IF i = Len(Pools) THEN "open" ELSE "registering"
  /\ UNCHANGED <<closing, failed_handles, transfers, poisoned, lane_pool,
                 buffer_pool, device, next_job, results>>

\* register_op raises: _close_mapped_pool rolls the partial pool back.
RegisterRaises ==
  /\ phase = "registering"
  /\ held[Worker] # {}
  /\ phase' = "rollback"
  /\ closing' = mapped_handles
  /\ failed_handles' = << >>
  /\ UNCHANGED <<vars, mapped_handles, transfers, poisoned, lane_pool,
                 buffer_pool, device, next_job, results>>

--------------------------------------------------------------------------------
\* submit_store and submit_load

\* Objects reachable from the handler; anything else may be handed out as new.
LanesInUse(d) == ToSet(lane_pool[d]) \cup {transfers[d][i].lane : i \in DOMAIN transfers[d]}
BuffersInUse(d) ==
  {buffer_pool[d][i].id : i \in DOMAIN buffer_pool[d]}
    \cup {transfers[d][i].buffer.id : i \in DOMAIN transfers[d]}
Fresh(used) == Min({n \in 1..(Cardinality(used) + 1) : n \notin used})

\* _acquire_async_resources: the lane popped from the pool, or a new one.
AcquiredLane(d) ==
  IF lane_pool[d] = << >> THEN Fresh(LanesInUse(d)) ELSE Last(lane_pool[d])
LanesLeft(d) == IF lane_pool[d] = << >> THEN << >> ELSE Front(lane_pool[d])

\* min(1 << (n - 1).bit_length(), MAX_CACHED_IDS), or n itself when it is larger.
IdCapacity(n) ==
  IF n > MAX_CACHED_IDS THEN n
  ELSE Min({MAX_CACHED_IDS} \cup {2^k : k \in {e \in 0..n : 2^e >= n}})

\* _acquire_mapped_ids: the smallest pooled buffer that fits; 0 when none does.
BestFit(n) ==
  LET pool == buffer_pool["load"]
      fits == {i \in DOMAIN pool : pool[i].capacity >= n}
      best == {i \in fits : \A k \in fits : pool[i].capacity <= pool[k].capacity}
  IN IF fits = {} THEN 0 ELSE Min(best)

\* The buffers of a transfer of n blocks, and the pool they leave behind:
\* _prepare_store_descriptors pops the last one and drops it if it is too small.
AcquiredBuffer(d, n) ==
  LET pool == buffer_pool[d]
      new(c) == [id |-> Fresh(BuffersInUse(d)), capacity |-> c]
  IN IF d = "store"
       THEN IF pool # << >> /\ Last(pool).capacity >= n THEN Last(pool) ELSE new(n)
       ELSE IF n = 0 THEN NoBuffer
       ELSE IF BestFit(n) # 0 THEN pool[BestFit(n)] ELSE new(IdCapacity(n))
BuffersLeft(d, n) ==
  LET pool == buffer_pool[d] IN
  IF d = "store" THEN (IF pool = << >> THEN << >> ELSE Front(pool))
  ELSE IF n = 0 \/ BestFit(n) = 0 THEN pool
  ELSE RemoveAt(pool, BestFit(n))

\* _recycle_transfer_resources and _release_mapped_ids, for transfers in order.
Recycled(d, pool, done) ==
  LET Cached(p, b) ==
        b # NoBuffer /\ (d = "load" => b.capacity <= MAX_CACHED_IDS /\ Len(p) < ID_BUFFER_CACHE_SIZE)
      after[n \in 0..Len(done)] ==
        IF n = 0 THEN pool
        ELSE IF Cached(after[n - 1], done[n].buffer) THEN Append(after[n - 1], done[n].buffer)
        ELSE after[n - 1]
  IN after[Len(done)]
LanesOf(done) == [i \in DOMAIN done |-> done[i].lane]

\* _run_mapped_gather after k gathers: the device reads it has submitted.  A
\* gather resolves its alias in the registry and raises if there is none.
Resolvable(k) ==
  \A i \in 1..k : Containing(Pools[i]) # {} /\ mappings[FirstMapping(Pools[i])].dev = Device
GatherReads(j, k) ==
  {[mapping |-> FirstMapping(Pools[i]), tensor |-> Pools[i], dev |-> Device,
    alias |-> mappings[FirstMapping(Pools[i])].alias, job |-> j] : i \in 1..k}

\* How far a submission got: k copies or gathers submitted, all of them or not.
CanSubmit(d, n, k, all) ==
  IF n = 0 THEN k = 0 /\ all
  ELSE IF d = "store" THEN k = 0
  ELSE /\ k \in 0..Len(Pools) /\ Resolvable(k)
       /\ k > 0 => mapped_handles # << >>
       /\ all => k = Len(Pools)

Submitting(d) ==
  /\ phase = "open"
  /\ next_job[d] <= MaxJobs[d]
  /\ next_job' = [next_job EXCEPT ![d] = @ + 1]
  /\ UNCHANGED <<registryVars, held, generation, call, phase, mapped_handles,
                 closing, failed_handles>>

Transfer(d, n, ok, sync) ==
  [job |-> next_job[d], lane |-> AcquiredLane(d), buffer |-> AcquiredBuffer(d, n),
   ok |-> ok, needs_stream_sync |-> sync]

\* The submission is on the device and tracked.  ok: it returned True.  Not ok:
\* it raised, but _preserve_failed_submission recorded its end event; or could
\* neither record nor synchronize (sync), and poisons the direction.
SubmitTracked(d, n, k, ok, sync) ==
  LET t == Transfer(d, n, ok, sync) IN
  /\ Submitting(d)
  /\ ~poisoned[d]
  /\ \E all \in BOOLEAN : CanSubmit(d, n, k, all) /\ (ok => all)
  /\ sync => ~ok
  /\ transfers' = [transfers EXCEPT ![d] = Append(@, t)]
  /\ device' = [device EXCEPT ![d] =
                  Append(@, [job |-> t.job, lane |-> t.lane, buffer |-> t.buffer])]
  /\ reads' = reads \cup GatherReads(t.job, k)
  /\ poisoned' = [poisoned EXCEPT ![d] = sync]
  /\ lane_pool' = [lane_pool EXCEPT ![d] = LanesLeft(d)]
  /\ buffer_pool' = [buffer_pool EXCEPT ![d] = BuffersLeft(d, n)]
  /\ results' = [results EXCEPT ![d][t.job] = IF ok THEN "accepted" ELSE "raised"]

\* The submission raised and its resources are back in the pools at once: no
\* device work was submitted, or the stream was synchronized (idle).
SubmitUndone(d, n, idle) ==
  LET t == Transfer(d, n, FALSE, FALSE) IN
  /\ Submitting(d)
  /\ ~poisoned[d]
  /\ device' = IF idle THEN [device EXCEPT ![d] = << >>] ELSE device
  /\ reads' = IF idle /\ d = "load" THEN {} ELSE reads
  /\ lane_pool' = [lane_pool EXCEPT ![d] = Append(LanesLeft(d), t.lane)]
  /\ buffer_pool' = [buffer_pool EXCEPT ![d] = Recycled(d, BuffersLeft(d, n), <<t>>)]
  /\ results' = [results EXCEPT ![d][t.job] = "raised"]
  /\ UNCHANGED <<transfers, poisoned>>

\* _acquire_async_resources raises, after the buffers have left their pool: at
\* once on a poisoned direction, else after the lane has left its pool as well.
SubmitRejected(d, n) ==
  /\ Submitting(d)
  /\ buffer_pool' = [buffer_pool EXCEPT ![d] = BuffersLeft(d, n)]
  /\ lane_pool' = IF poisoned[d] THEN lane_pool
                  ELSE [lane_pool EXCEPT ![d] = LanesLeft(d)]
  /\ results' = [results EXCEPT ![d][next_job[d]] = "raised"]
  /\ UNCHANGED <<reads, transfers, poisoned, device>>

\* The NPU finishes the oldest work of a direction.
DeviceStep(d) ==
  /\ device[d] # << >>
  /\ device' = [device EXCEPT ![d] = Tail(@)]
  /\ reads' = IF d = "store" THEN reads
              ELSE {r \in reads : r.job # Head(device[d]).job}
  /\ UNCHANGED <<registryVars, held, generation, call, phase, mapped_handles, closing,
                 failed_handles, transfers, poisoned, lane_pool, buffer_pool,
                 next_job, results>>

--------------------------------------------------------------------------------
\* get_finished and shutdown

\* end_event.query() of a tracked transfer.
Complete(d, t) == \A i \in DOMAIN device[d] : device[d][i].job # t.job

\* Mutant of Finished: a transfer without an end event counts as finished.
FinishedWithoutEvent(d) ==
  LET done(n) == \A i \in 1..n : \/ transfers[d][i].needs_stream_sync
                                 \/ Complete(d, transfers[d][i])
  IN SubSeq(transfers[d], 1, Max({n \in 0..Len(transfers[d]) : done(n)}))

\* get_finished: in each direction, the leading transfers that have completed.
Finished(d) ==
  LET done(n) == \A i \in 1..n : /\ ~transfers[d][i].needs_stream_sync
                                 /\ Complete(d, transfers[d][i])
  IN SubSeq(transfers[d], 1, Max({n \in 0..Len(transfers[d]) : done(n)}))

\* Mutant of GetFinished: returns early when no store has finished.
GetFinishedStoresFirst ==
  /\ phase = "open"
  /\ Finished("store") # << >>
  /\ transfers' = [d \in Directions |->
        SubSeq(transfers[d], Len(Finished(d)) + 1, Len(transfers[d]))]
  /\ lane_pool' = [d \in Directions |-> lane_pool[d] \o LanesOf(Finished(d))]
  /\ buffer_pool' = [d \in Directions |-> Recycled(d, buffer_pool[d], Finished(d))]
  /\ results' = [d \in Directions |-> [j \in 1..MaxJobs[d] |->
        IF \E i \in DOMAIN Finished(d) : Finished(d)[i].job = j
          THEN "success" ELSE results[d][j]]]
  /\ UNCHANGED <<vars, phase, mapped_handles, closing, failed_handles, poisoned,
                 device, next_job>>

\* Mutant of GetFinished: every polled job is reported as a success.
GetFinishedAllSucceed ==
  /\ phase = "open"
  /\ \E d \in Directions : Finished(d) # << >>
  /\ transfers' = [d \in Directions |->
        SubSeq(transfers[d], Len(Finished(d)) + 1, Len(transfers[d]))]
  /\ lane_pool' = [d \in Directions |-> lane_pool[d] \o LanesOf(Finished(d))]
  /\ buffer_pool' = [d \in Directions |-> Recycled(d, buffer_pool[d], Finished(d))]
  /\ results' = [d \in Directions |-> [j \in 1..MaxJobs[d] |->
        IF \E i \in DOMAIN Finished(d) : Finished(d)[i].job = j
          THEN "success" ELSE results[d][j]]]
  /\ UNCHANGED <<vars, phase, mapped_handles, closing, failed_handles, poisoned,
                 device, next_job>>

GetFinished ==
  /\ phase = "open"
  /\ \E d \in Directions : Finished(d) # << >>
  /\ transfers' = [d \in Directions |->
        SubSeq(transfers[d], Len(Finished(d)) + 1, Len(transfers[d]))]
  /\ lane_pool' = [d \in Directions |-> lane_pool[d] \o LanesOf(Finished(d))]
  /\ buffer_pool' = [d \in Directions |-> Recycled(d, buffer_pool[d], Finished(d))]
  /\ results' = [d \in Directions |-> [j \in 1..MaxJobs[d] |->
        IF \E i \in DOMAIN Finished(d) : Finished(d)[i].job = j
          THEN IF \E i \in DOMAIN Finished(d) : Finished(d)[i].job = j /\ Finished(d)[i].ok
                 THEN "success" ELSE "failure"
          ELSE results[d][j]]]
  /\ UNCHANGED <<vars, phase, mapped_handles, closing, failed_handles, poisoned,
                 device, next_job>>

StartShutdown ==
  /\ phase = "open"
  /\ phase' = "draining"
  /\ UNCHANGED <<vars, mapped_handles, closing, failed_handles, transfers, poisoned,
                 lane_pool, buffer_pool, device, next_job, results>>

\* One turn of the drain loops, stores first: wait for the head, then drop it.
Drain(d) ==
  LET t == Head(transfers[d]) IN
  /\ phase = "draining"
  /\ transfers[d] # << >>
  /\ d = "load" => transfers["store"] = << >>
  /\ Complete(d, t)
  /\ transfers' = [transfers EXCEPT ![d] = Tail(@)]
  /\ poisoned' = IF Len(transfers[d]) = 1 THEN [poisoned EXCEPT ![d] = FALSE] ELSE poisoned
  /\ results' = [results EXCEPT ![d][t.job] = "dropped"]
  /\ UNCHANGED <<vars, phase, mapped_handles, closing, failed_handles, lane_pool,
                 buffer_pool, device, next_job>>

\* A synchronization raises: shutdown leaves everything in place for a retry.
DrainRaises ==
  /\ phase = "draining"
  /\ \E d \in Directions : transfers[d] # << >>
  /\ phase' = "open"
  /\ UNCHANGED <<vars, mapped_handles, closing, failed_handles, transfers, poisoned,
                 lane_pool, buffer_pool, device, next_job, results>>

StartClose ==
  /\ phase = "draining"
  /\ \A d \in Directions : transfers[d] = << >>
  /\ phase' = "closing"
  /\ closing' = mapped_handles
  /\ mapped_handles' = << >>
  /\ failed_handles' = << >>
  /\ UNCHANGED <<vars, transfers, poisoned, lane_pool, buffer_pool, device, next_job,
                 results>>

--------------------------------------------------------------------------------
\* _close_mapped_pool, in a shutdown or in the rollback of the constructor

CloseUnchanged == UNCHANGED <<transfers, poisoned, device, next_job, results>>

\* The registry fences the device for the last lease of the next handle ...
CloseFence ==
  /\ phase \in {"closing", "rollback"}
  /\ closing # << >>
  /\ FenceLast(Worker, Last(closing), Device)
  /\ UNCHANGED handlerVars

\* ... and releases it; or the release raises, at the fence or after it.
CloseReleases ==
  /\ phase \in {"closing", "rollback"}
  /\ ReleaseLast
  /\ closing' = Front(closing)
  /\ UNCHANGED <<phase, mapped_handles, failed_handles, lane_pool, buffer_pool>>
  /\ CloseUnchanged

\* Mutant of CloseRaises: the handle whose release failed is not kept.
CloseRaisesForgets ==
  /\ phase \in {"closing", "rollback"}
  /\ closing # << >>
  /\ \/ UnregisterFails
     \/ releasing = 0 /\ UNCHANGED vars
  /\ closing' = Front(closing)
  /\ UNCHANGED <<phase, mapped_handles, failed_handles, lane_pool, buffer_pool>>
  /\ CloseUnchanged

CloseRaises ==
  /\ phase \in {"closing", "rollback"}
  /\ closing # << >>
  /\ \/ UnregisterFails
     \/ releasing = 0 /\ UNCHANGED vars
  /\ failed_handles' = Append(failed_handles, Last(closing))
  /\ closing' = Front(closing)
  /\ UNCHANGED <<phase, mapped_handles, lane_pool, buffer_pool>>
  /\ CloseUnchanged

\* Every handle has been tried.  A failed one makes shutdown raise and keeps the
\* handler open for a retry; the rollback of a constructor has no retry, and its
\* tensors go with the handler.
CloseEnds ==
  LET closed == phase = "closing" /\ failed_handles = << >> IN
  /\ phase \in {"closing", "rollback"}
  /\ closing = << >>
  /\ mapped_handles' = failed_handles
  /\ failed_handles' = << >>
  /\ phase' = IF phase = "rollback" THEN "failed" ELSE IF closed THEN "closed" ELSE "open"
  /\ held' = IF phase = "rollback" \/ closed THEN [held EXCEPT ![Worker] = {}] ELSE held
  /\ lane_pool' = IF closed THEN [d \in Directions |-> << >>] ELSE lane_pool
  /\ buffer_pool' = IF closed THEN [d \in Directions |-> << >>] ELSE buffer_pool
  /\ UNCHANGED <<registryVars, generation, call, reads, closing>>
  /\ CloseUnchanged

\* Other code of the process reuses host memory the handler has let go of.
Reallocate(s) ==
  /\ ~Alive(s)
  /\ phase \in {"closed", "failed"}
  /\ Obtain(Allocator, s)
  /\ UNCHANGED handlerVars

--------------------------------------------------------------------------------
Submit(d, n) ==
  \/ \E k \in 0..Len(Pools), ok, sync \in BOOLEAN : SubmitTracked(d, n, k, ok, sync)
  \/ \E idle \in BOOLEAN : SubmitUndone(d, n, idle)
  \/ SubmitRejected(d, n)

OffloadNext ==
  \/ AllocatePools \/ RegisterNext \/ RegisterRaises
  \/ \E d \in Directions, n \in Sizes : Submit(d, n)
  \/ GetFinished
  \/ StartShutdown \/ DrainRaises \/ StartClose
  \/ \E d \in Directions : Drain(d) \/ DeviceStep(d)
  \/ CloseFence \/ CloseReleases \/ CloseRaises \/ CloseEnds
  \/ \E s \in Storages : Reallocate(s)

\* The NPU makes progress and the connector polls on every engine step.
OffloadFairness ==
  /\ \A d \in Directions : WF_<<vars, handlerVars>>(DeviceStep(d))
  /\ WF_<<vars, handlerVars>>(GetFinished)

OffloadSpec == OffloadInit /\ [][OffloadNext]_<<vars, handlerVars>> /\ OffloadFairness

--------------------------------------------------------------------------------
\* Until the NPU has finished a submission, the handler keeps its stream, its
\* events and its buffers reachable in a tracked transfer, no two submissions
\* share one, and none of them is in a pool: a polled, failed, poisoned or
\* half-shut-down handler never recycles or frees what the device still uses.
WorkKeepsItsBuffers ==
  \A d \in Directions :
    /\ \A i \in DOMAIN device[d] : \E k \in DOMAIN transfers[d] :
         LET w == device[d][i]
             t == transfers[d][k]
         IN t.job = w.job /\ t.lane = w.lane /\ t.buffer = w.buffer
    /\ \A i, k \in DOMAIN transfers[d] : i # k =>
         /\ transfers[d][i].lane # transfers[d][k].lane
         /\ \/ transfers[d][i].buffer.id # transfers[d][k].buffer.id
            \/ transfers[d][i].buffer = NoBuffer
    /\ \A i \in DOMAIN transfers[d] :
         /\ transfers[d][i].lane \notin ToSet(lane_pool[d])
         /\ \A k \in DOMAIN buffer_pool[d] : transfers[d][i].buffer.id # buffer_pool[d][k].id

\* A job whose submission returned True is tracked until it is reported or dropped,
\* jobs are reported in submission order, and only once their device work is done.
JobsTracked ==
  \A d \in Directions :
    LET tracked == {transfers[d][i].job : i \in DOMAIN transfers[d]} IN
    \A j \in 1..MaxJobs[d] :
      /\ results[d][j] = "accepted" => j \in tracked
      /\ results[d][j] \in {"success", "failure"} =>
           /\ \A i \in tracked : j < i
           /\ \A i \in DOMAIN device[d] : device[d][i].job > j

\* A job is submitted once and gets at most one final result, and that result
\* agrees with what its submission did: success after True, failure after a raise.
JobStep ==
  \A d \in Directions : \A j \in 1..MaxJobs[d] :
    results'[d][j] # results[d][j] =>
      /\ results'[d][j] \in {"accepted", "raised"} => results[d][j] = "none"
      /\ results'[d][j] = "success" => results[d][j] = "accepted"
      /\ results'[d][j] = "failure" => results[d][j] = "raised"
      /\ results'[d][j] = "dropped" => results[d][j] \in {"accepted", "raised"}

\* Every job whose submission returned True is tracked until get_finished reports
\* it or shutdown drops it; reports come in submission order and never before the
\* device work is done; each job is reported at most once, as a success only if
\* its submission returned True and as a failure only if it raised.
JobsAreAccountedFor == []JobsTracked /\ [][JobStep]_<<vars, handlerVars>>

\* A handler that has shut down, or whose constructor rolled back cleanly, has
\* no lease, no driver registration and no device work left: a failed release is
\* never forgotten (_close_mapped_pool keeps it for the retry).
ClosedMeansReleased ==
  phase = "closed" \/ (phase = "failed" /\ mapped_handles = << >>) =>
    /\ DOMAIN handles = {} /\ registrations = {}
    /\ \A d \in Directions : device[d] = << >>

\* A submission that returned True is eventually reported, unless a shutdown
\* begins: failed and poisoned submissions never block the ones before them.
JobsAreReported ==
  \A d \in Directions : \A j \in 1..MaxJobs[d] :
    results[d][j] = "accepted" ~> (results[d][j] # "accepted" \/ phase # "open")
================================================================================
