-------------------------- MODULE SleepModeAllocator --------------------------
(***************************************************************************)
(* Sleep mode: the NPU memory pool whose physical pages are released while *)
(* the worker sleeps (csrc/camem_allocator.cpp, CaMemAllocator in          *)
(* vllm_ascend/device_allocator/camem.py) and the worker's sleep and       *)
(* wake_up around it (vllm_ascend/worker/worker.py).  Which calls reach    *)
(* the worker is decided by vLLM's executor: it sleeps only when awake,    *)
(* wakes only tags that sleep, and keeps its record when a call raises.    *)
(* The driver is taken to refuse a mapping over a mapping and an unmap of  *)
(* what is not mapped.                                                     *)
(*                                                                         *)
(* An allocation is a block of virtual addresses; its content is a version *)
(* number, Empty for fresh pages.  Physical memory is counted per block.   *)
(***************************************************************************)
EXTENDS Integers, Sequences

CONSTANTS
  LoadOrder,    \* allocations of the pool: weights first, then the KV cache
  TagOf,        \* block -> "weights", "kv_cache" or "sleep_persistent"
  Buffers,      \* blocks that hold the model's named_buffers
  WeightNzMode, \* weight_nz_mode: the worker refuses to wake up
  MaxVersion,   \* bound: writes to one block
  MaxPhysical   \* bound: physical allocations of one block at a time

\* Blocks have addresses of their own.  The named buffers are made with the model,
\* under the tag of the weights; only the persistent tag is never put to sleep.
ASSUME SleepAssumption ==
  /\ WeightNzMode \in BOOLEAN
  /\ LoadOrder \in Seq(DOMAIN TagOf)
  /\ \A i, k \in DOMAIN LoadOrder : LoadOrder[i] = LoadOrder[k] => i = k
  /\ \A b \in DOMAIN TagOf : TagOf[b] \in {"weights", "kv_cache", "sleep_persistent"}
  /\ \A b \in Buffers : TagOf[b] = "weights"

VARIABLES
  loaded,           \* allocations made so far
  pointer_to_data,  \* allocated blocks: a dict, so in the order of allocation
  backup,           \* block -> cpu_backup_tensor
  content,          \* block -> what its addresses hold; Unmapped without pages
  physical,         \* block -> aclrtMallocPhysical minus aclrtFreePhysical
  saved_buffers,    \* _sleep_saved_buffers
  sleeping,         \* executor: the tags that sleep
  out_of_memory,    \* my_malloc has raised: the worker cannot start
  leaked,           \* blocks for which aclrtMapMem or aclrtFreePhysical has failed
  sleep_failed,     \* a sleep has raised: blocks may be gone while their tags are awake
  version,          \* block -> writes so far
  expected          \* block -> what the model may rely on while its tag is awake

sleepVars == <<loaded, pointer_to_data, backup, content, physical, saved_buffers,
               sleeping, out_of_memory, leaked, sleep_failed, version, expected>>

NoBackup == -3
Unmapped == -2
Empty == -1
Allocations == {LoadOrder[i] : i \in DOMAIN LoadOrder}
Persistent(b) == TagOf[b] = "sleep_persistent"

SleepInit ==
  /\ loaded = 0
  /\ pointer_to_data = {}
  /\ backup = [b \in Allocations |-> NoBackup]
  /\ content = [b \in Allocations |-> Unmapped]
  /\ physical = [b \in Allocations |-> 0]
  /\ saved_buffers = << >>
  /\ sleeping = {}
  /\ out_of_memory = FALSE
  /\ leaked = {}
  /\ sleep_failed = FALSE
  /\ version = [b \in Allocations |-> 0]
  /\ expected = [b \in Allocations |-> Unmapped]

\* The worker loads its model and then creates its KV cache; an address that has
\* been freed is not handed out again.
NextToLoad(b) ==
  /\ sleeping = {} /\ ~out_of_memory
  /\ loaded < Len(LoadOrder) /\ b = LoadOrder[loaded + 1]
  /\ loaded' = loaded + 1

\* my_malloc: python_malloc_callback records the block, then create_and_map.
MyMalloc(b) ==
  /\ NextToLoad(b)
  /\ pointer_to_data' = pointer_to_data \cup {b}
  /\ backup' = [backup EXCEPT ![b] = NoBackup]
  /\ content' = [content EXCEPT ![b] = Empty]
  /\ physical' = [physical EXCEPT ![b] = @ + 1]
  /\ expected' = [expected EXCEPT ![b] = Empty]
  /\ UNCHANGED <<saved_buffers, sleeping, out_of_memory, leaked, sleep_failed, version>>

\* ... create_and_map raises with the block already recorded: no physical memory,
\* or the map fails and the new physical memory is lost.
MyMallocRaises(b, mapping) ==
  /\ NextToLoad(b)
  /\ pointer_to_data' = pointer_to_data \cup {b}
  /\ physical' = [physical EXCEPT ![b] = IF mapping THEN @ + 1 ELSE @]
  /\ leaked' = IF mapping THEN leaked \cup {b} ELSE leaked
  /\ out_of_memory' = TRUE
  /\ UNCHANGED <<backup, content, saved_buffers, sleeping, sleep_failed, version, expected>>

\* my_free of a mapped block: python_free_callback, then unmap_and_release.
MyFree(b) ==
  /\ sleeping = {} /\ ~out_of_memory
  /\ b \in pointer_to_data /\ content[b] # Unmapped
  /\ pointer_to_data' = pointer_to_data \ {b}
  /\ backup' = [backup EXCEPT ![b] = NoBackup]
  /\ content' = [content EXCEPT ![b] = Unmapped]
  /\ physical' = [physical EXCEPT ![b] = @ - 1]
  /\ expected' = [expected EXCEPT ![b] = Unmapped]
  /\ UNCHANGED <<loaded, saved_buffers, sleeping, out_of_memory, leaked, sleep_failed, version>>

\* The model runner writes an awake block: weights, KV cache or buffers.  A write
\* to a block that a failed sleep has unmapped faults.
WriteBlock(b) ==
  /\ b \in pointer_to_data /\ TagOf[b] \notin sleeping /\ ~out_of_memory
  /\ content[b] # Unmapped
  /\ version[b] < MaxVersion
  /\ version' = [version EXCEPT ![b] = @ + 1]
  /\ expected' = [expected EXCEPT ![b] = version[b] + 1]
  /\ content' = [content EXCEPT ![b] = version[b] + 1]
  /\ UNCHANGED <<loaded, pointer_to_data, backup, physical, saved_buffers, sleeping,
                 out_of_memory, leaked, sleep_failed>>

\* The blocks with one of the tags, and those of them that the loops of sleep and
\* wake_up visit before b.
Visited(tags) == {b \in pointer_to_data : TagOf[b] \in tags}
VisitedBefore(tags, b) ==
  {c \in Visited(tags) : \E i, k \in DOMAIN LoadOrder :
                           i < k /\ LoadOrder[i] = c /\ LoadOrder[k] = b}

\* Everything that is not persistent.
SleepTags == {"weights", "kv_cache"}

\* The pinned copy of a block.  The copy's error code is not looked at, so a block
\* without pages leaves the new tensor as it is.
Copied(b) == IF content[b] = Unmapped THEN Empty ELSE content[b]

\* Mutant of AllocatorSleep: only offloaded blocks give their pages back.
AllocatorSleepLeaks(offloaded, unmapped, released) ==
  /\ backup' = [b \in Allocations |-> IF b \in offloaded THEN Copied(b) ELSE backup[b]]
  /\ content' = [b \in Allocations |-> IF b \in unmapped THEN Unmapped ELSE content[b]]
  /\ physical' = [b \in Allocations |->
        IF b \in released \cap offloaded THEN physical[b] - 1 ELSE physical[b]]

\* CaMemAllocator.sleep: the blocks it has backed up, unmapped and released.
AllocatorSleep(offloaded, unmapped, released) ==
  /\ backup' = [b \in Allocations |-> IF b \in offloaded THEN Copied(b) ELSE backup[b]]
  /\ content' = [b \in Allocations |-> IF b \in unmapped THEN Unmapped ELSE content[b]]
  /\ physical' = [b \in Allocations |-> IF b \in released THEN physical[b] - 1 ELSE physical[b]]

\* The head of NPUWorker.sleep: level 2 saves the named buffers, and raises before
\* anything has changed if one of them has no pages.
SaveBuffers(level) ==
  LET buffers == Buffers \cap pointer_to_data IN
  /\ sleeping = {} /\ ~out_of_memory
  /\ level = 2 => \A b \in buffers : content[b] # Unmapped
  /\ saved_buffers' = IF level = 2 THEN [b \in buffers |-> content[b]] ELSE saved_buffers

\* Level 1 offloads the weights; level 2 discards them.
OffloadTags(level) == IF level = 1 THEN {"weights"} ELSE {}

\* NPUWorker.sleep
WorkerSleep(level) ==
  LET released == Visited(SleepTags) IN
  /\ SaveBuffers(level)
  /\ \A b \in released : content[b] # Unmapped
  /\ AllocatorSleep(Visited(OffloadTags(level)), released, released)
  /\ sleeping' = SleepTags
  /\ expected' = [b \in Allocations |->
        IF \/ Persistent(b) \/ b \notin pointer_to_data
           \/ level = 1 /\ TagOf[b] = "weights"
           \/ level = 2 /\ b \in Buffers
          THEN expected[b] ELSE Empty]
  /\ UNCHANGED <<loaded, pointer_to_data, out_of_memory, leaked, sleep_failed, version>>

\* ... which raises at block b: the pinned tensor cannot be had ("backup"),
\* aclrtUnmapMem fails ("unmap") or aclrtFreePhysical does ("free"); or, after the
\* last block, the device has no more free memory than before ("assert").  The
\* executor goes on taking the worker to be awake.
WorkerSleepRaises(level, b, step) ==
  LET before == VisitedBefore(SleepTags, b)
      released == IF step = "assert" THEN before \cup {b} ELSE before
      unmapped == IF step = "free" THEN released \cup {b} ELSE released
      tried == IF step = "backup" THEN before ELSE before \cup {b}
  IN
  /\ SaveBuffers(level)
  /\ b \in Visited(SleepTags)
  /\ step = "backup" => TagOf[b] \in OffloadTags(level)
  /\ step = "assert" => released = Visited(SleepTags)
  /\ \A c \in unmapped : content[c] # Unmapped
  /\ AllocatorSleep(tried \cap Visited(OffloadTags(level)), unmapped, released)
  /\ leaked' = IF step = "free" THEN leaked \cup {b} ELSE leaked
  /\ sleep_failed' = TRUE
  /\ UNCHANGED <<loaded, pointer_to_data, sleeping, out_of_memory, version, expected>>

\* create_and_map and the copy from the backup, for one block.
Restored(b) == IF backup[b] = NoBackup THEN Empty ELSE backup[b]

\* Mutant of WakeBlocks: cpu_backup_tensor is not reset after the copy.
WakeBlocksKeepBackup(woken, buffers) ==
  /\ content' = [b \in Allocations |->
        IF b \in DOMAIN buffers \cap pointer_to_data THEN buffers[b]
        ELSE IF b \in woken THEN Restored(b) ELSE content[b]]
  /\ UNCHANGED backup

\* CaMemAllocator.wake_up over the blocks of `woken`, then the write-back of the
\* saved buffers.
WakeBlocks(woken, buffers) ==
  /\ content' = [b \in Allocations |->
        IF b \in DOMAIN buffers \cap pointer_to_data THEN buffers[b]
        ELSE IF b \in woken THEN Restored(b) ELSE content[b]]
  /\ backup' = [b \in Allocations |-> IF b \in woken THEN NoBackup ELSE backup[b]]

\* NPUWorker.wake_up.  The first wake-up after a level 2 sleep writes the saved
\* buffers back, so its caller must include the weights.  The transposition of
\* expert weights changes how a parameter views its block, not what the block holds.
WorkerWakeUp(tags) ==
  LET woken == Visited(tags) IN
  /\ ~WeightNzMode
  /\ tags # {} /\ tags \subseteq sleeping
  /\ saved_buffers # << >> => "weights" \in tags
  /\ \A b \in woken : content[b] = Unmapped
  /\ WakeBlocks(woken, saved_buffers)
  /\ physical' = [b \in Allocations |-> IF b \in woken THEN physical[b] + 1 ELSE physical[b]]
  /\ saved_buffers' = << >>
  /\ sleeping' = sleeping \ tags
  /\ UNCHANGED <<loaded, pointer_to_data, out_of_memory, leaked, sleep_failed, version, expected>>

\* ... create_and_map raises at block b: no physical memory, or the map
\* fails and the new physical memory is lost.  The latter is what happens to a
\* block that an earlier, failed wake-up has already mapped.
WorkerWakeUpRaises(tags, b, mapping) ==
  LET woken == VisitedBefore(tags, b) IN
  /\ ~WeightNzMode
  /\ tags # {} /\ tags \subseteq sleeping
  /\ b \in Visited(tags)
  /\ \A c \in woken : content[c] = Unmapped
  /\ physical[b] < MaxPhysical
  /\ WakeBlocks(woken, << >>)
  /\ physical' = [c \in Allocations |->
        IF c \in woken \/ (c = b /\ mapping) THEN physical[c] + 1 ELSE physical[c]]
  /\ leaked' = IF mapping THEN leaked \cup {b} ELSE leaked
  /\ UNCHANGED <<loaded, pointer_to_data, saved_buffers, sleeping, out_of_memory,
                 sleep_failed, version, expected>>

WakeTags == SUBSET SleepTags

SleepNext ==
  \/ \E b \in Allocations : MyMalloc(b) \/ MyFree(b) \/ WriteBlock(b)
  \/ \E b \in Allocations, mapping \in BOOLEAN : MyMallocRaises(b, mapping)
  \/ \E level \in {1, 2} : WorkerSleep(level)
  \/ \E level \in {1, 2}, b \in Allocations, step \in {"backup", "unmap", "free", "assert"} :
        WorkerSleepRaises(level, b, step)
  \/ \E tags \in WakeTags : WorkerWakeUp(tags)
  \/ \E tags \in WakeTags, b \in Allocations, mapping \in BOOLEAN :
        WorkerWakeUpRaises(tags, b, mapping)

SleepSpec == SleepInit /\ [][SleepNext]_sleepVars

--------------------------------------------------------------------------------
\* As long as no sleep has raised, and whatever was slept and woken before in one
\* or several tagged wake-ups, with or without a wake-up that raised half-way: a
\* block whose tag is awake holds what the model may rely on.  That is its last
\* write if it is persistent, was offloaded (level 1) or is a saved buffer (level
\* 2), and otherwise empty pages, never the stale backup of an earlier sleep.
\* Nothing is claimed after a sleep that raised (camem.py keeps no record of it):
\* awake blocks may then be unmapped, and backups and saved buffers outdated.
WakeRestores ==
  ~sleep_failed =>
    \A b \in pointer_to_data :
      TagOf[b] \notin sleeping /\ ~out_of_memory => content[b] = expected[b]

\* Physical memory is paired with mappings, also after sleeps and wake-ups that
\* raised half-way and were tried again: a mapped block owns one physical
\* allocation, an unmapped one (asleep, freed, or unmapped by a failed sleep) none,
\* unless aclrtMapMem or aclrtFreePhysical itself failed for the block.
PhysicalMemoryIsPaired ==
  \A b \in Allocations \ leaked : physical[b] = IF content[b] = Unmapped THEN 0 ELSE 1
================================================================================
