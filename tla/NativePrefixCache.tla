--------------------------- MODULE NativePrefixCache ---------------------------
(***************************************************************************)
(* The paged KV cache of a PEARL worker (native_cache.py) and its use by   *)
(* the engine: a batch is allocated block by block, the prompts are        *)
(* prefilled from the first token that is not cached, decoding takes more  *)
(* pages, and the whole batch is released.  Unreferenced full prompt       *)
(* blocks stay registered under their prefix until they are evicted.       *)
(*                                                                         *)
(* A slot of a block holds the prompt prefix whose last token's keys were  *)
(* written there, << >> for anything else.                                 *)
(***************************************************************************)
EXTENDS Integers, Sequences, FiniteSets

CONSTANTS
  NumBlocks,          \* num_blocks
  BlocksPerSequence,  \* blocks_per_sequence
  BlockSize,          \* block_size
  PrefixBatches,      \* batches of prompts that may be asked for
  MaxBatches          \* bound: batches in one behaviour

\* generate_batch serves at least one prompt, and no prompt is empty.
ASSUME CacheAssumption ==
  /\ NumBlocks \in Nat
  /\ BlockSize \in Nat \ {0}
  /\ \A prompts \in PrefixBatches :
        /\ prompts \in Seq(Seq(Nat)) \ {<< >>}
        /\ \A i \in DOMAIN prompts : prompts[i] # << >>

VARIABLES
  prefix_key,       \* block -> its prefix_key, NoKey for None
  ref_count,        \* block -> ref_count
  last_used,        \* block -> last_used
  clock,            \* _clock
  prefix_to_block,  \* _prefix_to_block
  batch,            \* prompts of the active batch
  caching,          \* enable_prefix_caching of the active batch
  pages,            \* <<row, logical block>> -> block: _active_tables without its -1
  num_cached,       \* row -> num_cached_tokens
  cursor,           \* <<row, logical block>> the allocation has come to
  batch_phase,      \* idle, allocating, prefill or decode
  slots,            \* block -> slot -> what it holds
  length,           \* row -> positions fed so far
  clean,            \* no registered block evicted and no allocation failed so far
  batches           \* batches so far

cacheVars == <<prefix_key, ref_count, last_used, clock, prefix_to_block>>
prefixVars == <<cacheVars, batch, caching, pages, num_cached, cursor, batch_phase, slots,
                length, clean, batches>>

NoKey == << >>
Blocks == 0..(NumBlocks - 1)
Slots == 0..(BlockSize - 1)
NoPages == [e \in {} |-> 0]

NumFullBlocks(prompt) == (Len(prompt) - 1) \div BlockSize
NumPromptBlocks(prompt) == (Len(prompt) + BlockSize - 1) \div BlockSize

\* Mutant of KeyAt: the key is the block's own tokens, not the prefix it ends.
KeyAtBlock(e) ==
  IF caching /\ e[2] < NumFullBlocks(batch[e[1]])
    THEN SubSeq(batch[e[1]], e[2] * BlockSize + 1, (e[2] + 1) * BlockSize)
    ELSE NoKey

\* The prefix_key allocate asks for at row e[1] and logical block e[2].
KeyAt(e) ==
  IF caching /\ e[2] < NumFullBlocks(batch[e[1]])
    THEN SubSeq(batch[e[1]], 1, (e[2] + 1) * BlockSize)
    ELSE NoKey

EntriesOf(b) == {e \in DOMAIN pages : pages[e] = b}

PrefixInit ==
  /\ prefix_key = [b \in Blocks |-> NoKey]
  /\ ref_count = [b \in Blocks |-> 0]
  /\ last_used = [b \in Blocks |-> 0]
  /\ clock = 0
  /\ prefix_to_block = NoPages
  /\ batch = << >>
  /\ caching = FALSE
  /\ pages = NoPages
  /\ num_cached = << >>
  /\ cursor = <<1, 0>>
  /\ batch_phase = "idle"
  /\ slots = [b \in Blocks |-> [s \in Slots |-> NoKey]]
  /\ length = << >>
  /\ clean = TRUE
  /\ batches = 0

--------------------------------------------------------------------------------
Free == {b \in Blocks : ref_count[b] = 0}

\* The order of min(): unregistered blocks first, then the least recently used.
Precedes(b, c) ==
  \/ prefix_key[b] = NoKey /\ prefix_key[c] # NoKey
  \/ /\ (prefix_key[b] = NoKey) = (prefix_key[c] = NoKey)
     /\ last_used[b] < last_used[c] \/ (last_used[b] = last_used[c] /\ b <= c)

\* _acquire_block, the key is registered: one more reference.
AcquireHit(b) ==
  /\ ref_count' = [ref_count EXCEPT ![b] = @ + 1]
  /\ last_used' = [last_used EXCEPT ![b] = clock + 1]
  /\ clock' = clock + 1
  /\ UNCHANGED <<prefix_key, prefix_to_block, clean>>

\* Mutant of AcquireFree: the evicted key stays in _prefix_to_block.
AcquireFreeKeepsKey(b, key) ==
  /\ b \in Free
  /\ \A c \in Free : Precedes(b, c)
  /\ prefix_key' = [prefix_key EXCEPT ![b] = key]
  /\ ref_count' = [ref_count EXCEPT ![b] = 1]
  /\ last_used' = [last_used EXCEPT ![b] = clock + 1]
  /\ clock' = clock + 1
  /\ prefix_to_block' =
       [k \in DOMAIN prefix_to_block \cup ({key} \ {NoKey}) |->
          IF k = key THEN b ELSE prefix_to_block[k]]
  /\ clean' = (clean /\ prefix_key[b] = NoKey)

\* ... it is not: take the first free block, evicting what is registered for it.
AcquireFree(b, key) ==
  /\ b \in Free
  /\ \A c \in Free : Precedes(b, c)
  /\ prefix_key' = [prefix_key EXCEPT ![b] = key]
  /\ ref_count' = [ref_count EXCEPT ![b] = 1]
  /\ last_used' = [last_used EXCEPT ![b] = clock + 1]
  /\ clock' = clock + 1
  /\ prefix_to_block' =
       [k \in (DOMAIN prefix_to_block \ {prefix_key[b]}) \cup ({key} \ {NoKey}) |->
          IF k = key THEN b ELSE prefix_to_block[k]]
  /\ clean' = (clean /\ prefix_key[b] = NoKey)

AddPage(e, b) ==
  pages' = [f \in DOMAIN pages \cup {e} |-> IF f = e THEN b ELSE pages[f]]

--------------------------------------------------------------------------------
\* allocate: a new batch, one block of one prompt at a time.
Allocate(prompts, enable) ==
  /\ batch_phase = "idle"
  /\ batches < MaxBatches
  /\ batch' = prompts
  /\ caching' = enable
  /\ num_cached' = [i \in DOMAIN prompts |-> 0]
  /\ cursor' = <<1, 0>>
  /\ batch_phase' = "allocating"
  /\ batches' = batches + 1
  /\ UNCHANGED <<cacheVars, pages, slots, length, clean>>

Row == cursor[1]
Fits(prompt) == Len(prompt) <= BlocksPerSequence * BlockSize

\* The next logical block, the next prompt, or the prefill of the batch.
Advance ==
  IF cursor[2] + 1 < NumPromptBlocks(batch[Row])
    THEN cursor' = <<Row, cursor[2] + 1>> /\ batch_phase' = batch_phase
  ELSE IF Row < Len(batch)
    THEN cursor' = <<Row + 1, 0>> /\ batch_phase' = batch_phase
    ELSE cursor' = <<1, 0>> /\ batch_phase' = "prefill"

AllocateHit ==
  /\ batch_phase = "allocating"
  /\ Fits(batch[Row])
  /\ KeyAt(cursor) \in DOMAIN prefix_to_block
  /\ AcquireHit(prefix_to_block[KeyAt(cursor)])
  /\ AddPage(cursor, prefix_to_block[KeyAt(cursor)])
  /\ num_cached' = [num_cached EXCEPT ![Row] = @ + BlockSize]
  /\ Advance
  /\ UNCHANGED <<batch, caching, slots, length, batches>>

AllocateMiss ==
  /\ batch_phase = "allocating"
  /\ Fits(batch[Row])
  /\ KeyAt(cursor) \notin DOMAIN prefix_to_block
  /\ \E b \in Blocks : AcquireFree(b, KeyAt(cursor)) /\ AddPage(cursor, b)
  /\ Advance
  /\ UNCHANGED <<batch, caching, num_cached, slots, length, batches>>

\* Every page of the batch gives its reference back.
ReleasePages ==
  /\ ref_count' = [b \in Blocks |-> ref_count[b] - Cardinality(EntriesOf(b))]
  /\ pages' = NoPages
  /\ UNCHANGED <<prefix_key, last_used, clock, prefix_to_block>>

\* ... a prompt is too long or no block is free: the references are taken back;
\* keys registered on the way stay.
AllocateRaises ==
  /\ batch_phase = "allocating"
  /\ \/ ~Fits(batch[Row])
     \/ KeyAt(cursor) \notin DOMAIN prefix_to_block /\ Free = {}
  /\ ReleasePages
  /\ batch_phase' = "idle"
  /\ clean' = FALSE
  /\ UNCHANGED <<batch, caching, num_cached, cursor, slots, length, batches>>

\* The slot of position p of row i.
PageOfPosition(i, p) == pages[<<i, p \div BlockSize>>]

\* _prefill_and_sample_target_batch: feed the tokens of a prompt that are not
\* cached, prompt by prompt.
Prefill ==
  LET Fed == num_cached[Row]..(Len(batch[Row]) - 1)
      At(b, s) == {p \in Fed : PageOfPosition(Row, p) = b /\ p % BlockSize = s}
  IN
  /\ batch_phase = "prefill"
  /\ slots' = [b \in Blocks |-> [s \in Slots |->
        IF At(b, s) = {} THEN slots[b][s]
        ELSE SubSeq(batch[Row], 1, (CHOOSE p \in At(b, s) : TRUE) + 1)]]
  /\ IF Row < Len(batch) THEN cursor' = <<Row + 1, 0>> /\ batch_phase' = batch_phase
     ELSE cursor' = <<1, 0>> /\ batch_phase' = "decode"
  /\ length' = [i \in DOMAIN batch |-> Len(batch[i])]
  /\ UNCHANGED <<cacheVars, batch, caching, pages, num_cached, clean, batches>>

\* Decoding feeds the next position of row i; ensure_capacity has taken its page.
WriteDecoded(b, p) ==
  slots' = [slots EXCEPT ![b] = [@ EXCEPT ![p % BlockSize] = NoKey]]

DecodeInPage(i) ==
  /\ batch_phase = "decode"
  /\ <<i, length[i] \div BlockSize>> \in DOMAIN pages
  /\ WriteDecoded(PageOfPosition(i, length[i]), length[i])
  /\ length' = [length EXCEPT ![i] = @ + 1]
  /\ UNCHANGED <<cacheVars, batch, caching, pages, num_cached, cursor, batch_phase, clean, batches>>

\* ensure_capacity with a page missing.  Without a free block it raises and
\* nothing changes.
DecodeNewPage(i) ==
  LET e == <<i, length[i] \div BlockSize>> IN
  /\ batch_phase = "decode"
  /\ e[2] < BlocksPerSequence
  /\ e \notin DOMAIN pages
  /\ \E b \in Blocks :
       AcquireFree(b, NoKey) /\ AddPage(e, b) /\ WriteDecoded(b, length[i])
  /\ length' = [length EXCEPT ![i] = @ + 1]
  /\ UNCHANGED <<batch, caching, num_cached, cursor, batch_phase, batches>>

Release ==
  /\ batch_phase = "decode"
  /\ ReleasePages
  /\ batch_phase' = "idle"
  /\ UNCHANGED <<batch, caching, num_cached, cursor, slots, length, clean, batches>>

PrefixNext ==
  \/ \E prompts \in PrefixBatches, enable \in BOOLEAN : Allocate(prompts, enable)
  \/ AllocateHit
  \/ AllocateMiss
  \/ AllocateRaises
  \/ Prefill
  \/ \E i \in DOMAIN batch : DecodeInPage(i) \/ DecodeNewPage(i)
  \/ Release

PrefixSpec == PrefixInit /\ [][PrefixNext]_prefixVars

--------------------------------------------------------------------------------
\* A reference count is the number of table entries that name the block; the map
\* and the blocks agree on what is registered; a page of a prompt's full block
\* carries that prefix, any other page carries none and belongs to one row
\* only.  So no batch gets a block that is in use, and decoding never writes
\* into a shared block (_acquire_block, _release_table).
PagesAreConsistent ==
  /\ \A b \in Blocks : ref_count[b] = Cardinality(EntriesOf(b))
  /\ \A k \in DOMAIN prefix_to_block : prefix_key[prefix_to_block[k]] = k
  /\ \A b \in Blocks : prefix_key[b] # NoKey =>
        prefix_key[b] \in DOMAIN prefix_to_block /\ prefix_to_block[prefix_key[b]] = b
  /\ \A e \in DOMAIN pages : prefix_key[pages[e]] = KeyAt(e)
  /\ \A e, f \in DOMAIN pages : pages[e] = pages[f] /\ e # f => KeyAt(e) # NoKey

\* As long as no registered block has been evicted and no allocation has failed,
\* num_cached_tokens is right: when a batch starts to decode, every position of
\* every prompt holds the keys of exactly that prompt prefix, whether it was
\* prefilled now, by another row or by an earlier batch.
ReuseIsSoundUntilEviction ==
  batch_phase = "decode" /\ clean =>
    \A i \in DOMAIN batch : \A p \in 0..(Len(batch[i]) - 1) :
      slots[PageOfPosition(i, p)][p % BlockSize] = SubSeq(batch[i], 1, p + 1)
================================================================================
