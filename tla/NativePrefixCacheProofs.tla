----------------------- MODULE NativePrefixCacheProofs -----------------------
(***************************************************************************)
(* Proofs about the prefix cache of the PEARL engine.                      *)
(***************************************************************************)
EXTENDS NativePrefixCache, FiniteSetTheorems, TLAPS

USE SMTT(20), ZenonT(60)

------------------------------------------------------------------------------
(***************************************************************************)
(* The page tables, the reference counts and the prefix map of             *)
(* the PEARL KV cache stay consistent, for any number of blocks, any block *)
(* size and any batches of non-empty prompts.                              *)
(*                                                                         *)
(* The argument: a block without references is in no table, so it can be   *)
(* given a new key; a key that is not registered is carried by no block,   *)
(* so registering it keeps map and blocks inverse to each other; and an    *)
(* allocation never comes back to an entry it has filled (Progress), nor   *)
(* decoding to the full blocks of a prompt, so every entry carries the key *)
(* that its place in its prompt asks for.                                  *)
(***************************************************************************)

\* The shape of the cache and of the tables.
TablesOK ==
  /\ prefix_key = [b \in Blocks |-> prefix_key[b]]
  /\ ref_count \in [Blocks -> Int]
  /\ NoKey \notin DOMAIN prefix_to_block
  /\ \A k \in DOMAIN prefix_to_block : prefix_to_block[k] \in Blocks
  /\ IsFiniteSet(DOMAIN pages)
  /\ \A e \in DOMAIN pages : e \in Nat \X Nat /\ pages[e] \in Blocks

BatchOK ==
  /\ batch \in Seq(Seq(Nat))
  /\ cursor \in Nat \X Nat

\* Where the engine is: no pages between batches, an allocation is ahead of all
\* pages, and decoding has passed the prompts.
Progress ==
  /\ batch_phase = "idle" => pages = NoPages
  /\ batch_phase = "allocating" =>
       /\ cursor[1] \in 1..Len(batch)
       /\ \A e \in DOMAIN pages :
             e[1] < cursor[1] \/ (e[1] = cursor[1] /\ e[2] < cursor[2])
  /\ batch_phase = "decode" =>
       /\ length \in [DOMAIN batch -> Nat]
       /\ \A i \in DOMAIN batch : Len(batch[i]) <= length[i]

IInv == TablesOK /\ BatchOK /\ Progress /\ PagesAreConsistent

--------------------------------------------------------------------------------
\* Integer division by the block size is monotone.
LEMMA DivMonotone ==
  ASSUME NEW x \in Int, NEW y \in Int, NEW d \in Nat \ {0}, x <= y
  PROVE  x \div d <= y \div d
  <1>1. /\ x \div d \in Int /\ x % d \in 0..(d - 1) /\ x = d * (x \div d) + (x % d)
        /\ y \div d \in Int /\ y % d \in 0..(d - 1) /\ y = d * (y \div d) + (y % d)
    OBVIOUS
  <1> DEFINE p == x \div d
             q == y \div d
  <1>2. SUFFICES ASSUME q + 1 <= p PROVE FALSE
    BY <1>1
  <1>3. d * (q + 1) <= d * p
    BY <1>1, <1>2
  <1>4. d * (q + 1) = d * q + d
    BY <1>1
  <1> QED
    BY <1>1, <1>3, <1>4

\* The block of a position behind the prompt carries no prefix key.
LEMMA DecodedHasNoKey ==
  ASSUME BatchOK, NEW i \in DOMAIN batch, NEW p \in Nat, Len(batch[i]) <= p
  PROVE  KeyAt(<<i, p \div BlockSize>>) = NoKey
  <1>1. Len(batch[i]) \in Nat
    BY DEF BatchOK
  <1>2. (Len(batch[i]) - 1) \div BlockSize <= p \div BlockSize
    BY <1>1, DivMonotone, CacheAssumption
  <1>3. (Len(batch[i]) - 1) \div BlockSize \in Int /\ p \div BlockSize \in Int
    BY <1>1, CacheAssumption
  <1> QED
    BY <1>2, <1>3 DEF KeyAt, NumFullBlocks

\* A block without references is in no table.
LEMMA FreeIsUnused ==
  ASSUME TablesOK, PagesAreConsistent, NEW b \in Free
  PROVE  \A e \in DOMAIN pages : pages[e] # b
  <1>1. Cardinality(EntriesOf(b)) = 0
    BY DEF Free, PagesAreConsistent
  <1>2. IsFiniteSet(EntriesOf(b))
    BY FS_Subset DEF EntriesOf, TablesOK
  <1>3. EntriesOf(b) = {}
    BY <1>1, <1>2, FS_EmptySet
  <1> QED
    BY <1>3 DEF EntriesOf

\* A new entry adds one to the count of its block and to no other.
LEMMA OneMoreEntry ==
  ASSUME TablesOK, NEW e \in Nat \X Nat, e \notin DOMAIN pages, NEW b \in Blocks,
         AddPage(e, b)
  PROVE  /\ IsFiniteSet(DOMAIN pages')
         /\ \A f \in DOMAIN pages' : f \in Nat \X Nat /\ pages'[f] \in Blocks
         /\ \A c \in Blocks : Cardinality(EntriesOf(c)') =
              IF c = b THEN Cardinality(EntriesOf(c)) + 1 ELSE Cardinality(EntriesOf(c))
  <1>1. DOMAIN pages' = DOMAIN pages \cup {e}
    BY DEF AddPage
  <1>2. IsFiniteSet(DOMAIN pages')
    BY <1>1, FS_AddElement DEF TablesOK
  <1>3. ASSUME NEW c \in Blocks
        PROVE  Cardinality(EntriesOf(c)') =
                 IF c = b THEN Cardinality(EntriesOf(c)) + 1 ELSE Cardinality(EntriesOf(c))
    <2>1. EntriesOf(c)' = IF c = b THEN EntriesOf(c) \cup {e} ELSE EntriesOf(c)
      BY <1>1 DEF AddPage, EntriesOf
    <2>2. IsFiniteSet(EntriesOf(c)) /\ e \notin EntriesOf(c)
      BY FS_Subset DEF EntriesOf, TablesOK
    <2> QED
      BY <2>1, <2>2, FS_AddElement, ZenonT(60)
  <1>4. \A f \in DOMAIN pages' : f \in Nat \X Nat /\ pages'[f] \in Blocks
    BY <1>1 DEF AddPage, TablesOK
  <1> QED
    BY <1>2, <1>3, <1>4

--------------------------------------------------------------------------------
\* _acquire_block for a key that is registered, into an entry that is new.
LEMMA HitKeeps ==
  ASSUME IInv, NEW e \in Nat \X Nat, e \notin DOMAIN pages,
         KeyAt(e) \in DOMAIN prefix_to_block,
         AcquireHit(prefix_to_block[KeyAt(e)]), AddPage(e, prefix_to_block[KeyAt(e)]),
         UNCHANGED <<batch, caching>>
  PROVE  TablesOK' /\ PagesAreConsistent'
  <1> DEFINE b == prefix_to_block[KeyAt(e)]
  <1>1. b \in Blocks /\ prefix_key[b] = KeyAt(e) /\ KeyAt(e) # NoKey
    BY DEF IInv, TablesOK, PagesAreConsistent
  <1>2. /\ IsFiniteSet(DOMAIN pages')
        /\ \A f \in DOMAIN pages' : f \in Nat \X Nat /\ pages'[f] \in Blocks
        /\ \A c \in Blocks : Cardinality(EntriesOf(c)') =
             IF c = b THEN Cardinality(EntriesOf(c)) + 1 ELSE Cardinality(EntriesOf(c))
    BY <1>1, OneMoreEntry DEF IInv
  <1>3. TablesOK'
    BY <1>1, <1>2 DEF IInv, TablesOK, AcquireHit, Blocks
  <1>4. \A f : KeyAt(f)' = KeyAt(f)
    BY DEF KeyAt
  <1>5. \A c \in Blocks : ref_count'[c] = Cardinality(EntriesOf(c)')
    BY <1>1, <1>2 DEF IInv, TablesOK, PagesAreConsistent, AcquireHit
  <1>6. prefix_key' = prefix_key /\ prefix_to_block' = prefix_to_block
    BY DEF AcquireHit
  <1>7. \A f \in DOMAIN pages' : (f = e /\ pages'[f] = b) \/ (f \in DOMAIN pages /\ pages'[f] = pages[f])
    BY DEF AddPage
  <1>8. \A f \in DOMAIN pages' : prefix_key'[pages'[f]] = KeyAt(f)'
    BY <1>1, <1>4, <1>6, <1>7 DEF IInv, PagesAreConsistent
  <1>9. \A f, g \in DOMAIN pages' : pages'[f] = pages'[g] /\ f # g => KeyAt(f)' # NoKey
    BY <1>1, <1>4, <1>6, <1>7, <1>8 DEF IInv, PagesAreConsistent
  <1> QED
    BY <1>3, <1>5, <1>6, <1>8, <1>9 DEF IInv, PagesAreConsistent

\* _acquire_block for a key that is not registered, or for none.
LEMMA MissKeeps ==
  ASSUME IInv, NEW e \in Nat \X Nat, e \notin DOMAIN pages, NEW b \in Blocks,
         KeyAt(e) \notin DOMAIN prefix_to_block,
         AcquireFree(b, KeyAt(e)), AddPage(e, b), UNCHANGED <<batch, caching>>
  PROVE  TablesOK' /\ PagesAreConsistent'
  <1> DEFINE key == KeyAt(e)
  <1>1. \A f \in DOMAIN pages : pages[f] # b
    BY FreeIsUnused DEF IInv, AcquireFree
  <1>2. /\ IsFiniteSet(DOMAIN pages')
        /\ \A f \in DOMAIN pages' : f \in Nat \X Nat /\ pages'[f] \in Blocks
        /\ \A c \in Blocks : Cardinality(EntriesOf(c)') =
             IF c = b THEN Cardinality(EntriesOf(c)) + 1 ELSE Cardinality(EntriesOf(c))
    BY OneMoreEntry DEF IInv
  <1>3. \A c \in Blocks : prefix_key'[c] = IF c = b THEN key ELSE prefix_key[c]
    BY DEF AcquireFree, IInv, TablesOK
  <1>4. prefix_key' = [c \in Blocks |-> prefix_key'[c]]
    BY DEF AcquireFree, IInv, TablesOK
  <1>5. /\ \A k : k \in DOMAIN prefix_to_block' <=>
              (k \in DOMAIN prefix_to_block /\ k # prefix_key[b]) \/ (k = key /\ k # NoKey)
        /\ \A k \in DOMAIN prefix_to_block' :
              prefix_to_block'[k] = IF k = key THEN b ELSE prefix_to_block[k]
    BY DEF AcquireFree
  <1>6. TablesOK'
    <2>1. ref_count' \in [Blocks -> Int]
      BY DEF IInv, TablesOK, AcquireFree
    <2>2. NoKey \notin DOMAIN prefix_to_block'
      BY <1>5 DEF IInv, TablesOK
    <2>3. \A k \in DOMAIN prefix_to_block' : prefix_to_block'[k] \in Blocks
      BY <1>5 DEF IInv, TablesOK
    <2> QED
      BY <1>2, <1>4, <2>1, <2>2, <2>3 DEF TablesOK, Blocks, NoKey
  <1>7. \A f : KeyAt(f)' = KeyAt(f)
    BY DEF KeyAt
  <1>8. \A c \in Blocks : ref_count'[c] = Cardinality(EntriesOf(c)')
    BY <1>2 DEF IInv, TablesOK, PagesAreConsistent, AcquireFree, Free
  <1>9. \A k \in DOMAIN prefix_to_block' : prefix_key'[prefix_to_block'[k]] = k
    <2> SUFFICES ASSUME NEW k \in DOMAIN prefix_to_block'
                 PROVE  prefix_key'[prefix_to_block'[k]] = k
      OBVIOUS
    <2>1. CASE k = key
      BY <1>3, <1>5, <2>1
    <2>2. CASE k # key
      <3>1. k \in DOMAIN prefix_to_block /\ k # prefix_key[b] /\ prefix_to_block'[k] = prefix_to_block[k]
        BY <1>5, <2>2
      <3>2. prefix_key[prefix_to_block[k]] = k /\ prefix_to_block[k] \in Blocks
        BY <3>1 DEF IInv, TablesOK, PagesAreConsistent
      <3> QED
        BY <1>3, <3>1, <3>2
    <2> QED
      BY <2>1, <2>2
  <1>10. \A c \in Blocks : prefix_key'[c] # NoKey =>
            prefix_key'[c] \in DOMAIN prefix_to_block' /\ prefix_to_block'[prefix_key'[c]] = c
    <2> SUFFICES ASSUME NEW c \in Blocks, prefix_key'[c] # NoKey
                 PROVE  /\ prefix_key'[c] \in DOMAIN prefix_to_block'
                        /\ prefix_to_block'[prefix_key'[c]] = c
      OBVIOUS
    <2>1. CASE c = b
      BY <1>3, <1>5, <2>1
    <2>2. CASE c # b
      <3>1. prefix_key'[c] = prefix_key[c]
        BY <1>3, <2>2
      <3>2. prefix_key[c] \in DOMAIN prefix_to_block /\ prefix_to_block[prefix_key[c]] = c
        BY <3>1 DEF IInv, PagesAreConsistent
      <3>3. prefix_key[c] # key
        BY <3>2
      <3>4. prefix_key[c] # prefix_key[b]
        <4> SUFFICES ASSUME prefix_key[c] = prefix_key[b] PROVE FALSE
          OBVIOUS
        <4>1. prefix_key[b] # NoKey
          BY <3>1
        <4>2. prefix_to_block[prefix_key[b]] = b
          BY <4>1 DEF IInv, PagesAreConsistent
        <4> QED
          BY <3>2, <4>2, <2>2
      <3> QED
        BY <1>5, <3>1, <3>2, <3>3, <3>4
    <2> QED
      BY <2>1, <2>2
  <1>11. \A f \in DOMAIN pages' : (f = e /\ pages'[f] = b) \/ (f \in DOMAIN pages /\ pages'[f] = pages[f])
    BY DEF AddPage
  <1>12. \A f \in DOMAIN pages : pages[f] \in Blocks /\ pages[f] # b
    BY <1>1 DEF IInv, TablesOK
  <1>13. \A f \in DOMAIN pages' : prefix_key'[pages'[f]] = KeyAt(f)'
    BY <1>3, <1>7, <1>11, <1>12 DEF IInv, PagesAreConsistent
  <1>14. \A f, g \in DOMAIN pages' : pages'[f] = pages'[g] /\ f # g => KeyAt(f)' # NoKey
    BY <1>7, <1>11, <1>12 DEF IInv, PagesAreConsistent
  <1>15. PagesAreConsistent'
    BY <1>8, <1>9, <1>10, <1>13, <1>14 DEF PagesAreConsistent, Blocks, NoKey
  <1> QED
    BY <1>6, <1>15

\* Giving the references of all tables back leaves every block free.
LEMMA ReleaseKeeps ==
  ASSUME IInv, ReleasePages, UNCHANGED <<batch, caching>>
  PROVE  TablesOK' /\ PagesAreConsistent'
  <1>1. ref_count' = [b \in Blocks |-> 0]
    BY DEF ReleasePages, IInv, PagesAreConsistent, TablesOK
  <1>2. DOMAIN pages' = {}
    BY DEF ReleasePages, NoPages
  <1>3. \A b : EntriesOf(b)' = {}
    BY <1>2 DEF EntriesOf
  <1>4. IsFiniteSet({}) /\ Cardinality({}) = 0
    BY FS_EmptySet
  <1>5. prefix_key' = prefix_key /\ prefix_to_block' = prefix_to_block
    BY DEF ReleasePages
  <1>6. TablesOK'
    BY <1>1, <1>2, <1>4, <1>5 DEF IInv, TablesOK, Blocks, NoKey
  <1>7. PagesAreConsistent'
    BY <1>1, <1>2, <1>3, <1>4, <1>5, ZenonT(60) DEF IInv, PagesAreConsistent, Blocks, NoKey
  <1> QED
    BY <1>6, <1>7

\* A step that touches neither the cache nor the tables nor the batch.
LEMMA CacheUnchanged ==
  ASSUME IInv, UNCHANGED <<cacheVars, batch, caching, pages>>
  PROVE  TablesOK' /\ PagesAreConsistent'
  <1>1. TablesOK'
    BY DEF IInv, TablesOK, cacheVars, Blocks, NoKey
  <1>2. (\A f : KeyAt(f)' = KeyAt(f)) /\ (\A b : EntriesOf(b)' = EntriesOf(b))
    BY DEF KeyAt, EntriesOf
  <1> QED
    BY <1>1, <1>2 DEF IInv, PagesAreConsistent, cacheVars, Blocks, NoKey

--------------------------------------------------------------------------------
\* An allocation is at an entry it has not filled, and stays ahead of the tables.
LEMMA AllocationMovesOn ==
  ASSUME IInv, batch_phase = "allocating", Advance, UNCHANGED batch,
         DOMAIN pages' = DOMAIN pages \cup {cursor}
  PROVE  cursor \notin DOMAIN pages /\ BatchOK' /\ Progress'
  <1>1. /\ cursor[1] \in 1..Len(batch) /\ cursor[1] \in Nat /\ cursor[2] \in Nat
        /\ cursor = <<cursor[1], cursor[2]>> /\ Len(batch) \in Nat
        /\ \A e \in DOMAIN pages : e[1] \in Nat /\ e[2] \in Nat
        /\ \A e \in DOMAIN pages :
              e[1] < cursor[1] \/ (e[1] = cursor[1] /\ e[2] < cursor[2])
    BY DEF IInv, TablesOK, BatchOK, Progress
  <1>2. cursor \notin DOMAIN pages
    BY <1>1
  <1>3. \/ cursor' = <<cursor[1], cursor[2] + 1>> /\ batch_phase' = "allocating"
        \/ cursor[1] < Len(batch) /\ cursor' = <<cursor[1] + 1, 0>> /\ batch_phase' = "allocating"
        \/ cursor' = <<1, 0>> /\ batch_phase' = "prefill"
    BY DEF Advance, Row
  <1>4. BatchOK'
    BY <1>1, <1>3 DEF IInv, BatchOK
  <1>5. Progress'
    BY <1>1, <1>3 DEF Progress
  <1> QED
    BY <1>2, <1>4, <1>5

--------------------------------------------------------------------------------
\* The empty cache satisfies the invariant.
LEMMA InitIInv == PrefixInit => IInv
  <1> SUFFICES ASSUME PrefixInit PROVE IInv
    OBVIOUS
  <1>1. DOMAIN pages = {} /\ DOMAIN prefix_to_block = {}
    BY DEF PrefixInit, NoPages
  <1>2. (\A b : EntriesOf(b) = {}) /\ IsFiniteSet({}) /\ Cardinality({}) = 0
    BY <1>1, FS_EmptySet DEF EntriesOf
  <1>3. TablesOK
    BY <1>1, <1>2 DEF PrefixInit, TablesOK
  <1>4. BatchOK /\ Progress
    BY DEF PrefixInit, BatchOK, Progress
  <1>5. PagesAreConsistent
    BY <1>1, <1>2, ZenonT(60) DEF PrefixInit, PagesAreConsistent
  <1> QED
    BY <1>3, <1>4, <1>5 DEF IInv

\* Every step keeps the invariant.
LEMMA NextIInv == IInv /\ [PrefixNext]_prefixVars => IInv'
  <1> SUFFICES ASSUME IInv, [PrefixNext]_prefixVars PROVE IInv'
    OBVIOUS
  <1>1. CASE \E prompts \in PrefixBatches, enable \in BOOLEAN : Allocate(prompts, enable)
    <2>1. PICK prompts \in PrefixBatches, enable \in BOOLEAN : Allocate(prompts, enable)
      BY <1>1
    <2>2. DOMAIN pages = {} /\ pages' = pages
      BY <2>1 DEF Allocate, IInv, Progress, NoPages
    <2>3. prompts \in Seq(Seq(Nat)) /\ prompts # << >>
      BY CacheAssumption
    <2>4. BatchOK' /\ Progress'
      BY <2>1, <2>2, <2>3 DEF Allocate, BatchOK, Progress
    <2>5. TablesOK'
      BY <2>1 DEF Allocate, IInv, TablesOK, cacheVars, Blocks, NoKey
    <2>6. \A b : EntriesOf(b)' = EntriesOf(b)
      BY <2>2 DEF EntriesOf
    <2>7. PagesAreConsistent'
      BY <2>1, <2>2, <2>6 DEF Allocate, IInv, PagesAreConsistent, cacheVars, Blocks, NoKey
    <2> QED
      BY <2>4, <2>5, <2>7 DEF IInv
  <1>2. CASE AllocateHit
    <2>1. cursor \in Nat \X Nat /\ DOMAIN pages' = DOMAIN pages \cup {cursor}
      BY <1>2 DEF AllocateHit, AddPage, IInv, BatchOK
    <2>2. cursor \notin DOMAIN pages /\ BatchOK' /\ Progress'
      BY <1>2, <2>1, AllocationMovesOn DEF AllocateHit
    <2>3. TablesOK' /\ PagesAreConsistent'
      BY <1>2, <2>1, <2>2, HitKeeps DEF AllocateHit
    <2> QED
      BY <2>2, <2>3 DEF IInv
  <1>3. CASE AllocateMiss
    <2>1. PICK b \in Blocks : AcquireFree(b, KeyAt(cursor)) /\ AddPage(cursor, b)
      BY <1>3 DEF AllocateMiss
    <2>2. cursor \in Nat \X Nat /\ DOMAIN pages' = DOMAIN pages \cup {cursor}
      BY <2>1 DEF AddPage, IInv, BatchOK
    <2>3. cursor \notin DOMAIN pages /\ BatchOK' /\ Progress'
      BY <1>3, <2>2, AllocationMovesOn DEF AllocateMiss
    <2>4. TablesOK' /\ PagesAreConsistent'
      BY <1>3, <2>1, <2>2, <2>3, MissKeeps DEF AllocateMiss
    <2> QED
      BY <2>3, <2>4 DEF IInv
  <1>4. CASE AllocateRaises \/ Release
    <2>1. ReleasePages /\ UNCHANGED <<batch, caching, cursor>> /\ batch_phase' = "idle"
      BY <1>4 DEF AllocateRaises, Release
    <2>2. TablesOK' /\ PagesAreConsistent'
      BY <2>1, ReleaseKeeps
    <2>3. BatchOK' /\ Progress'
      BY <2>1 DEF ReleasePages, IInv, BatchOK, Progress, NoPages
    <2> QED
      BY <2>2, <2>3 DEF IInv
  <1>5. CASE Prefill
    <2>1. /\ UNCHANGED <<cacheVars, batch, caching, pages>>
          /\ length' = [i \in DOMAIN batch |-> Len(batch[i])]
          /\ \/ cursor' = <<cursor[1] + 1, 0>> /\ batch_phase' = "prefill"
             \/ cursor' = <<1, 0>> /\ batch_phase' = "decode"
      BY <1>5 DEF Prefill, Row
    <2>2. TablesOK' /\ PagesAreConsistent'
      BY <2>1, CacheUnchanged
    <2>3. \A i \in DOMAIN batch : Len(batch[i]) \in Nat
      BY DEF IInv, BatchOK
    <2>4. BatchOK' /\ Progress'
      BY <2>1, <2>3 DEF IInv, BatchOK, Progress
    <2> QED
      BY <2>2, <2>4 DEF IInv
  <1>6. ASSUME NEW i \in DOMAIN batch, DecodeInPage(i) \/ DecodeNewPage(i)
        PROVE  IInv'
    <2>1. /\ length \in [DOMAIN batch -> Nat] /\ Len(batch[i]) <= length[i]
          /\ Len(batch[i]) \in Nat
      BY <1>6 DEF DecodeInPage, DecodeNewPage, IInv, Progress, BatchOK
    <2>2. /\ batch_phase' = "decode" /\ batch_phase = "decode"
          /\ length' = [length EXCEPT ![i] = @ + 1]
          /\ UNCHANGED <<batch, caching, cursor>>
      BY <1>6 DEF DecodeInPage, DecodeNewPage
    <2>3. \A j \in DOMAIN batch : Len(batch[j]) \in Nat /\ Len(batch[j]) <= length[j]
      BY <2>2 DEF IInv, Progress, BatchOK
    <2>4. BatchOK' /\ Progress'
      BY <2>1, <2>2, <2>3 DEF IInv, BatchOK, Progress
    <2>5. CASE DecodeInPage(i)
      BY <2>4, <2>5, CacheUnchanged DEF DecodeInPage, IInv
    <2>6. CASE DecodeNewPage(i)
      <3> DEFINE e == <<i, length[i] \div BlockSize>>
      <3>1. PICK b \in Blocks : AcquireFree(b, NoKey) /\ AddPage(e, b)
        BY <2>6 DEF DecodeNewPage
      <3>2. KeyAt(e) = NoKey
        BY <2>1, DecodedHasNoKey DEF IInv
      <3>3. e \in Nat \X Nat
        <4>1. i \in Nat
          BY DEF IInv, BatchOK
        <4>2. length[i] \in Nat
          BY <2>1
        <4>3. length[i] \div BlockSize \in Nat
          BY <4>2, CacheAssumption
        <4> QED
          BY <4>1, <4>3
      <3>4. e \notin DOMAIN pages
        BY <2>6 DEF DecodeNewPage
      <3>5. KeyAt(e) \notin DOMAIN prefix_to_block
        BY <3>2 DEF IInv, TablesOK
      <3>6. TablesOK' /\ PagesAreConsistent'
        BY <2>2, <3>1, <3>2, <3>3, <3>4, <3>5, MissKeeps
      <3> QED
        BY <2>4, <3>6 DEF IInv
    <2> QED
      BY <1>6, <2>5, <2>6
  <1>7. CASE UNCHANGED prefixVars
    <2>1. TablesOK' /\ PagesAreConsistent'
      BY <1>7, CacheUnchanged DEF prefixVars
    <2>2. BatchOK' /\ Progress'
      BY <1>7 DEF prefixVars, IInv, BatchOK, Progress, NoPages
    <2> QED
      BY <2>1, <2>2 DEF IInv
  <1> QED
    BY <1>1, <1>2, <1>3, <1>4, <1>5, <1>6, <1>7 DEF PrefixNext

\* For every cache size, block size and sequence of batches: reference counts
\* match the tables, the prefix map and the blocks agree, and only full prompt
\* blocks are shared (allocate, ensure_capacity and release of NativePrefixCache).
THEOREM PagesStayConsistent == PrefixSpec => []PagesAreConsistent
  <1>1. IInv => PagesAreConsistent
    BY DEF IInv
  <1> QED
    BY <1>1, InitIInv, NextIInv, PTL DEF PrefixSpec

--------------------------------------------------------------------------------
(* What the cached prefixes hold.                                               *)

\* Where the walks over the batch are: the tables cover the prompts behind the
\* allocation's cursor, and whole blocks of a prompt are cached.
WalkOK ==
  /\ batch_phase \in {"idle", "allocating", "prefill", "decode"}
  /\ slots = [b \in Blocks |-> [s \in Slots |-> slots[b][s]]]
  /\ \A i \in DOMAIN batch : batch[i] # << >>
  /\ \A e \in DOMAIN pages : e[1] \in DOMAIN batch
  /\ batch_phase = "allocating" => cursor[2] < NumPromptBlocks(batch[cursor[1]])
  /\ batch_phase = "prefill" => cursor[1] \in 1..Len(batch)
  /\ batch_phase # "idle" =>
       /\ num_cached = [i \in DOMAIN batch |-> num_cached[i]]
       /\ \A i \in DOMAIN batch : \E h \in Nat : num_cached[i] = h * BlockSize
       /\ \A i \in DOMAIN batch : \A j \in 0..(NumPromptBlocks(batch[i]) - 1) :
            \/ <<i, j>> \in DOMAIN pages
            \/ /\ batch_phase = "allocating"
               /\ cursor[1] < i \/ (cursor[1] = i /\ cursor[2] <= j)

\* The block holds the prefix it is registered for.
Filled(keys, contents, b) ==
  \A s \in Slots : contents[b][s] = SubSeq(keys[b], 1, Len(keys[b]) - BlockSize + s + 1)

Holds(b) == Filled(prefix_key, slots, b)

\* Row i has not been prefilled yet.
Waiting(i) == batch_phase = "allocating" \/ (batch_phase = "prefill" /\ cursor[1] <= i)

\* The entry is of a row whose prefill will write the block.
Owed(e) == Waiting(e[1]) /\ num_cached[e[1]] <= e[2] * BlockSize

\* A registered prefix has all its shorter ones registered.
PrefixesClosed ==
  \A k \in DOMAIN prefix_to_block :
    /\ k \in Seq(Nat)
    /\ \A m \in Nat \ {0} : m * BlockSize < Len(k) => SubSeq(k, 1, m * BlockSize) \in DOMAIN prefix_to_block

\* A registered block holds its prefix or is owed it.
RegisteredHold ==
  \A b \in Blocks : prefix_key[b] # NoKey =>
    Holds(b) \/ \E e \in DOMAIN pages : pages[e] = b /\ Owed(e)

\* A block that a row found in the cache holds its prefix or an earlier row owes it.
CachedHold ==
  \A e \in DOMAIN pages : Waiting(e[1]) /\ e[2] * BlockSize < num_cached[e[1]] =>
    /\ KeyAt(e) # NoKey
    /\ \/ Holds(pages[e])
       \/ \E f \in DOMAIN pages : pages[f] = pages[e] /\ f[1] < e[1] /\ Owed(f)

\* A row finds its blocks up to the first one that is not registered.
HitsComeFirst ==
  batch_phase = "allocating" =>
    /\ \/ num_cached[cursor[1]] = cursor[2] * BlockSize
       \/ /\ num_cached[cursor[1]] < cursor[2] * BlockSize
          /\ \A j \in Nat : cursor[2] <= j => KeyAt(<<cursor[1], j>>) \notin DOMAIN prefix_to_block
    /\ \A i \in DOMAIN batch : cursor[1] < i => num_cached[i] = 0

\* The prompts that have been prefilled are in their pages.
PrefilledHold ==
  \A i \in DOMAIN batch :
    (batch_phase = "decode" \/ (batch_phase = "prefill" /\ i < cursor[1])) =>
       \A p \in 0..(Len(batch[i]) - 1) :
          slots[PageOfPosition(i, p)][p % BlockSize] = SubSeq(batch[i], 1, p + 1)

Content == PrefixesClosed /\ RegisteredHold /\ CachedHold /\ HitsComeFirst /\ PrefilledHold

RInv == WalkOK /\ (clean => Content)

--------------------------------------------------------------------------------
(* Positions and blocks.                                                        *)

\* A position is a slot of a block.
LEMMA PositionIs ==
  ASSUME NEW p \in Nat
  PROVE  /\ p \div BlockSize \in Nat /\ p % BlockSize \in Slots
         /\ p = (p \div BlockSize) * BlockSize + (p % BlockSize)
  BY CacheAssumption DEF Slots

\* A slot of a block is a position.
LEMMA SlotIs ==
  ASSUME NEW j \in Nat, NEW s \in Slots
  PROVE  /\ j * BlockSize + s \in Nat
         /\ (j * BlockSize + s) \div BlockSize = j
         /\ (j * BlockSize + s) % BlockSize = s
  <1> DEFINE p == j * BlockSize + s
             q == p \div BlockSize
             t == p % BlockSize
             d == BlockSize
  <1>1. d \in Nat \ {0} /\ s \in 0..(d - 1) /\ s \in Nat
    BY CacheAssumption DEF Slots
  <1>2. j * d \in Nat
    BY <1>1
  <1>3. p \in Nat
    BY <1>1, <1>2
  <1>4. q \in Nat /\ t \in 0..(d - 1) /\ p = q * d + t
    BY <1>3, PositionIs DEF Slots
  <1> HIDE DEF q, t
  <1>5. q * d + t = j * d + s
    BY <1>4
  <1> HIDE DEF p, d
  <1>6. ~(q + 1 <= j)
    <2> SUFFICES ASSUME q + 1 <= j PROVE FALSE
      OBVIOUS
    <2>1. (q + 1) * d <= j * d /\ (q + 1) * d = q * d + d
      BY <1>1, <1>4
    <2> QED
      BY <1>1, <1>4, <1>5, <2>1
  <1>7. ~(j + 1 <= q)
    <2> SUFFICES ASSUME j + 1 <= q PROVE FALSE
      OBVIOUS
    <2>1. (j + 1) * d <= q * d /\ (j + 1) * d = j * d + d
      BY <1>1, <1>4
    <2> QED
      BY <1>1, <1>4, <1>5, <2>1
  <1>8. q = j
    BY <1>4, <1>6, <1>7
  <1>9. t = s
    BY <1>1, <1>2, <1>4, <1>5, <1>8
  <1> QED
    BY <1>3, <1>8, <1>9 DEF q, t, p, d

\* Whole blocks, in order.
LEMMA BlocksInOrder ==
  ASSUME NEW a \in Nat, NEW b \in Nat
  PROVE  /\ a * BlockSize \in Nat /\ (a + 1) * BlockSize = a * BlockSize + BlockSize
         /\ a * BlockSize < b * BlockSize <=> a < b
         /\ a < b => a * BlockSize + BlockSize <= b * BlockSize
         /\ a * BlockSize = b * BlockSize <=> a = b
  <1> DEFINE d == BlockSize
  <1>1. d \in Nat \ {0}
    BY CacheAssumption
  <1> HIDE DEF d
  <1>2. a * d \in Nat /\ b * d \in Nat /\ (a + 1) * d = a * d + d
    BY <1>1
  <1>3. ASSUME a < b PROVE a * d + d <= b * d
    <2>1. (a + 1) * d <= b * d
      BY <1>1, <1>3
    <2> QED
      BY <1>2, <2>1
  <1>4. ASSUME b < a PROVE b * d + d <= a * d
    <2>1. (b + 1) * d <= a * d /\ (b + 1) * d = b * d + d
      BY <1>1, <1>4
    <2> QED
      BY <2>1
  <1>5. a * d < b * d <=> a < b
    BY <1>1, <1>2, <1>3, <1>4
  <1>6. a * d = b * d <=> a = b
    BY <1>1, <1>2, <1>3, <1>4
  <1> QED
    BY <1>2, <1>3, <1>5, <1>6 DEF d

\* A position is in the first h blocks iff its block is one of them.
LEMMA PositionInBlocks ==
  ASSUME NEW p \in Nat, NEW h \in Nat
  PROVE  /\ p < h * BlockSize <=> (p \div BlockSize) * BlockSize < h * BlockSize
         /\ p < h * BlockSize <=> p \div BlockSize < h
  <1> DEFINE j == p \div BlockSize
             s == p % BlockSize
             d == BlockSize
  <1>1. j \in Nat /\ s \in 0..(d - 1) /\ p = j * d + s /\ d \in Nat \ {0}
    BY PositionIs, CacheAssumption, ZenonT(60) DEF Slots
  <1> HIDE DEF j, s
  <1>2. /\ j * d \in Nat /\ h * d \in Nat
        /\ j * d < h * d <=> j < h
        /\ j < h => j * d + d <= h * d
    BY <1>1, BlocksInOrder
  <1> HIDE DEF d
  <1> QED
    BY <1>1, <1>2 DEF j, d

\* The blocks of a prompt of n tokens.
LEMMA PromptBlocks ==
  ASSUME NEW n \in Nat \ {0}
  PROVE  /\ (n + BlockSize - 1) \div BlockSize \in Nat \ {0}
         /\ (n - 1) \div BlockSize \in Nat
         /\ \A p \in 0..(n - 1) : p \div BlockSize \in 0..((n + BlockSize - 1) \div BlockSize - 1)
         /\ \A j \in Nat : j < (n - 1) \div BlockSize => (j + 1) * BlockSize < n
  <1> DEFINE d == BlockSize
             N == (n + d - 1) \div d
             F == (n - 1) \div d
  <1>1. d \in Nat \ {0} /\ n - 1 \in Nat /\ n + d - 1 \in Nat
    BY CacheAssumption
  <1>2. N \in Nat /\ (n + d - 1) % d \in 0..(d - 1) /\ n + d - 1 = N * d + ((n + d - 1) % d)
    BY <1>1, PositionIs, ZenonT(60) DEF Slots
  <1>3. F \in Nat /\ (n - 1) % d \in 0..(d - 1) /\ n - 1 = F * d + ((n - 1) % d)
    BY <1>1, PositionIs DEF Slots
  <1>4. N * d \in Nat /\ n <= N * d
    BY <1>1, <1>2
  <1>5. N # 0
    BY <1>1, <1>4
  <1>6. ASSUME NEW p \in 0..(n - 1) PROVE p \div d \in 0..(N - 1)
    <2>1. p \in Nat /\ p < N * d
      BY <1>4
    <2>2. p \div d < N /\ p \div d \in Nat
      BY <1>2, <2>1, PositionInBlocks, PositionIs
    <2> QED
      BY <1>2, <2>2
  <1>7. ASSUME NEW j \in Nat, j < F PROVE (j + 1) * d < n
    <2>1. /\ j * d + d <= F * d /\ (j + 1) * d = j * d + d /\ F * d \in Nat
      BY <1>3, <1>7, BlocksInOrder
    <2> QED
      BY <1>1, <1>3, <2>1
  <1> QED
    BY <1>2, <1>3, <1>5, <1>6, <1>7

\* k is the key of a full block of the prompt.
KeyOf(i, j, k) ==
  /\ k \in Seq(Nat) /\ k # NoKey
  /\ Len(k) = (j + 1) * BlockSize /\ (j + 1) * BlockSize < Len(batch[i])
  /\ \A q \in 0..((j + 1) * BlockSize) : SubSeq(k, 1, q) = SubSeq(batch[i], 1, q)

\* Taking a part of the beginning of a sequence.
LEMMA BeginningOf ==
  ASSUME NEW s \in Seq(Nat), NEW n \in 0..Len(s)
  PROVE  /\ SubSeq(s, 1, n) \in Seq(Nat) /\ Len(SubSeq(s, 1, n)) = n
         /\ \A q \in 0..n : SubSeq(SubSeq(s, 1, n), 1, q) = SubSeq(s, 1, q)
  <1> DEFINE t == SubSeq(s, 1, n)
  <1>1. t \in Seq(Nat) /\ Len(t) = n /\ \A x \in 1..n : t[x] = s[x]
    OBVIOUS
  <1> HIDE DEF t
  <1>2. ASSUME NEW q \in 0..n PROVE SubSeq(t, 1, q) = SubSeq(s, 1, q)
    <2>1. /\ SubSeq(t, 1, q) = [x \in 1..q |-> t[x]]
          /\ SubSeq(s, 1, q) = [x \in 1..q |-> s[x]]
      BY <1>1
    <2>2. \A x \in 1..q : x \in 1..n
      OBVIOUS
    <2> QED
      BY <1>1, <2>1, <2>2
  <1> QED
    BY <1>1, <1>2 DEF t

\* The prompts are sequences of tokens.
LEMMA PromptIs ==
  ASSUME BatchOK, WalkOK, NEW i \in DOMAIN batch
  PROVE  batch[i] \in Seq(Nat) /\ Len(batch[i]) \in Nat \ {0}
  <1>1. batch[i] \in Seq(Nat) /\ batch[i] # << >>
    BY DEF BatchOK, WalkOK
  <1> QED
    BY <1>1

\* The key of a block, in terms of the prompt.
LEMMA KeyIs ==
  ASSUME BatchOK, WalkOK, NEW i \in DOMAIN batch, NEW j \in Nat,
         caching, j < NumFullBlocks(batch[i])
  PROVE  KeyOf(i, j, KeyAt(<<i, j>>))
  <1> DEFINE n == (j + 1) * BlockSize
             k == KeyAt(<<i, j>>)
  <1>1. batch[i] \in Seq(Nat) /\ Len(batch[i]) \in Nat \ {0}
    BY PromptIs
  <1>2. n < Len(batch[i])
    BY <1>1, PromptBlocks DEF NumFullBlocks
  <1>3. n \in Nat /\ n # 0
    <2>1. /\ n = j * BlockSize + BlockSize /\ j * BlockSize \in Nat
      BY BlocksInOrder
    <2> QED
      BY <2>1, CacheAssumption
  <1>4. k = SubSeq(batch[i], 1, n)
    BY ZenonT(60) DEF KeyAt
  <1>5. n \in 0..Len(batch[i])
    BY <1>1, <1>2, <1>3
  <1> HIDE DEF n, k
  <1>6. k \in Seq(Nat) /\ Len(k) = n /\ \A q \in 0..n : SubSeq(k, 1, q) = SubSeq(batch[i], 1, q)
    BY <1>1, <1>4, <1>5, BeginningOf
  <1>7. k # NoKey
    BY <1>3, <1>6 DEF NoKey
  <1> QED
    BY <1>2, <1>6, <1>7, ZenonT(60) DEF KeyOf, n, k

\* A block has a key iff prefixes are cached and it is full.
LEMMA KeyedBlocks ==
  ASSUME BatchOK, WalkOK, NEW i \in DOMAIN batch, NEW j \in Nat
  PROVE  KeyAt(<<i, j>>) # NoKey <=> caching /\ j < NumFullBlocks(batch[i])
  <1>1. CASE caching /\ j < NumFullBlocks(batch[i])
    BY <1>1, KeyIs DEF KeyOf
  <1>2. CASE ~(caching /\ j < NumFullBlocks(batch[i]))
    BY <1>2 DEF KeyAt
  <1> QED
    BY <1>1, <1>2

\* Equal keys are keys of blocks at the same place.
LEMMA SamePlace ==
  ASSUME BatchOK, WalkOK, NEW i \in DOMAIN batch, NEW j \in Nat, NEW i2 \in DOMAIN batch, NEW j2 \in Nat,
         KeyAt(<<i, j>>) = KeyAt(<<i2, j2>>), KeyAt(<<i, j>>) # NoKey
  PROVE  j = j2
  <1>1. Len(KeyAt(<<i, j>>)) = (j + 1) * BlockSize
    BY KeyIs, KeyedBlocks DEF KeyOf
  <1>2. Len(KeyAt(<<i2, j2>>)) = (j2 + 1) * BlockSize
    BY KeyIs, KeyedBlocks DEF KeyOf
  <1>3. (j + 1) * BlockSize = (j2 + 1) * BlockSize
    BY <1>1, <1>2
  <1>4. j + 1 \in Nat /\ j2 + 1 \in Nat
    OBVIOUS
  <1>5. j + 1 = j2 + 1
    BY <1>3, <1>4, BlocksInOrder
  <1> QED
    BY <1>5

\* The blocks before a full block have the shorter keys.
LEMMA ShorterKey ==
  ASSUME BatchOK, WalkOK, NEW i \in DOMAIN batch, NEW j \in Nat, KeyAt(<<i, j>>) # NoKey,
         NEW m \in Nat, m <= j
  PROVE  /\ KeyAt(<<i, m>>) # NoKey
         /\ KeyAt(<<i, m>>) = SubSeq(KeyAt(<<i, j>>), 1, (m + 1) * BlockSize)
  <1>1. caching /\ j < NumFullBlocks(batch[i]) /\ NumFullBlocks(batch[i]) \in Int
    BY KeyedBlocks, PromptIs, PromptBlocks DEF NumFullBlocks
  <1>2. m < NumFullBlocks(batch[i])
    BY <1>1
  <1>3. KeyOf(i, j, KeyAt(<<i, j>>)) /\ KeyAt(<<i, m>>) # NoKey
    BY <1>1, <1>2, KeyIs, KeyedBlocks
  <1>4. KeyAt(<<i, m>>) = SubSeq(batch[i], 1, (m + 1) * BlockSize)
    BY <1>1, <1>2, ZenonT(60) DEF KeyAt
  <1>5. (m + 1) * BlockSize \in 0..((j + 1) * BlockSize)
    <2>1. m + 1 \in Nat /\ j + 1 \in Nat /\ (m + 1 < j + 1 \/ m + 1 = j + 1)
      OBVIOUS
    <2>2. (m + 1) * BlockSize \in Nat /\ (j + 1) * BlockSize \in Nat
      BY <2>1, BlocksInOrder
    <2>3. (m + 1) * BlockSize < (j + 1) * BlockSize \/ (m + 1) * BlockSize = (j + 1) * BlockSize
      BY <2>1, BlocksInOrder
    <2> QED
      BY <2>2, <2>3
  <1> QED
    BY <1>3, <1>4, <1>5, ZenonT(60) DEF KeyOf

\* A full block that holds its prefix holds the prompt's tokens.
LEMMA HoldsPrompt ==
  ASSUME BatchOK, WalkOK, NEW i \in DOMAIN batch, NEW j \in Nat, KeyAt(<<i, j>>) # NoKey,
         NEW s \in Slots
  PROVE  SubSeq(KeyAt(<<i, j>>), 1, Len(KeyAt(<<i, j>>)) - BlockSize + s + 1)
           = SubSeq(batch[i], 1, j * BlockSize + s + 1)
  <1> DEFINE k == KeyAt(<<i, j>>)
             d == BlockSize
  <1>1. KeyOf(i, j, k)
    BY KeyIs, KeyedBlocks
  <1>2. (j + 1) * d = j * d + d /\ j * d \in Nat /\ d \in Nat \ {0} /\ s \in 0..(d - 1)
    BY BlocksInOrder, CacheAssumption DEF Slots
  <1>3. Len(k) = (j + 1) * d /\ \A q \in 0..((j + 1) * d) : SubSeq(k, 1, q) = SubSeq(batch[i], 1, q)
    BY <1>1, ZenonT(60) DEF KeyOf
  <1> HIDE DEF k, d
  <1>4. Len(k) - d + s + 1 = j * d + s + 1 /\ j * d + s + 1 \in 0..((j + 1) * d)
    BY <1>2, <1>3
  <1> QED
    BY <1>3, <1>4, ZenonT(60) DEF k, d

--------------------------------------------------------------------------------
(* The walk over the batch.                                                     *)

\* The cached tokens of every row of the batch are whole blocks.
WholeBlocks(counts) ==
  /\ counts = [i \in DOMAIN batch |-> counts[i]]
  /\ \A i \in DOMAIN batch : \E h \in Nat : counts[i] = h * BlockSize

\* A step of the allocation.
LEMMA WalkAdvances ==
  ASSUME IInv, WalkOK, batch_phase = "allocating", Advance, UNCHANGED <<batch, slots>>,
         DOMAIN pages' = DOMAIN pages \cup {cursor}, WholeBlocks(num_cached')
  PROVE  WalkOK'
  <1> DEFINE r == cursor[1]
             c == cursor[2]
             n(i) == NumPromptBlocks(batch[i])
  <1>1. /\ r \in 1..Len(batch) /\ r \in Nat /\ c \in Nat /\ cursor = <<r, c>> /\ Len(batch) \in Nat
        /\ DOMAIN batch = 1..Len(batch) /\ r \in DOMAIN batch
    BY DEF IInv, BatchOK, Progress
  <1>2. \A i \in DOMAIN batch : n(i) \in Nat \ {0}
    BY PromptIs, PromptBlocks DEF IInv, NumPromptBlocks
  <1>3. \/ cursor' = <<r, c + 1>> /\ batch_phase' = "allocating" /\ c + 1 < n(r)
        \/ r < Len(batch) /\ cursor' = <<r + 1, 0>> /\ batch_phase' = "allocating" /\ ~(c + 1 < n(r))
        \/ ~(r < Len(batch)) /\ cursor' = <<1, 0>> /\ batch_phase' = "prefill" /\ ~(c + 1 < n(r))
    BY DEF Advance, Row
  <1>4. /\ \A i \in DOMAIN batch : batch[i] # << >>
        /\ \A e \in DOMAIN pages : e[1] \in DOMAIN batch
        /\ \A i \in DOMAIN batch : \A j \in 0..(n(i) - 1) :
              <<i, j>> \in DOMAIN pages \/ r < i \/ (r = i /\ c <= j)
    BY DEF WalkOK
  <1>5. /\ batch_phase' \in {"allocating", "prefill"}
        /\ \A e \in DOMAIN pages' : e[1] \in DOMAIN batch
    BY <1>1, <1>3, <1>4
  <1>6. /\ batch_phase' = "allocating" => cursor'[2] < n(cursor'[1])
        /\ batch_phase' = "prefill" => cursor'[1] \in 1..Len(batch)
    <2>1. CASE cursor' = <<r, c + 1>> /\ batch_phase' = "allocating" /\ c + 1 < n(r)
      BY <2>1
    <2>2. CASE r < Len(batch) /\ cursor' = <<r + 1, 0>> /\ batch_phase' = "allocating"
      <3>1. r + 1 \in DOMAIN batch
        BY <1>1, <2>2
      <3>2. 0 < n(r + 1)
        BY <1>2, <3>1
      <3> QED
        BY <2>2, <3>2
    <2>3. CASE cursor' = <<1, 0>> /\ batch_phase' = "prefill"
      BY <1>1, <2>3
    <2> QED
      BY <1>3, <2>1, <2>2, <2>3
  <1>7. ASSUME NEW i \in DOMAIN batch, NEW j \in 0..(n(i) - 1)
        PROVE  \/ <<i, j>> \in DOMAIN pages'
               \/ /\ batch_phase' = "allocating"
                  /\ cursor'[1] < i \/ (cursor'[1] = i /\ cursor'[2] <= j)
    <2>0. i \in Nat /\ j \in Nat /\ n(i) \in Nat /\ j < n(i) /\ n(r) \in Nat /\ i <= Len(batch)
      BY <1>1, <1>2
    <2> HIDE DEF n
    <2>1. CASE <<i, j>> \in DOMAIN pages
      BY <2>1
    <2>2. CASE r = i /\ c = j
      BY <1>1, <2>2
    <2>3. CASE r = i /\ c < j
      BY <1>1, <1>3, <2>0, <2>3
    <2>4. CASE r < i
      BY <1>1, <1>3, <2>0, <2>4
    <2>5. r < i \/ (r = i /\ c < j) \/ (r = i /\ c = j) \/ <<i, j>> \in DOMAIN pages
      BY <1>1, <1>4, <2>0
    <2> QED
      BY <2>1, <2>2, <2>3, <2>4, <2>5
  <1> QED
    BY <1>4, <1>5, <1>6, <1>7, ZenonT(60) DEF WalkOK, WholeBlocks, Blocks, Slots, NoKey, NumPromptBlocks

\* The walk of every step.
LEMMA WalkKeeps ==
  ASSUME IInv, WalkOK, [PrefixNext]_prefixVars
  PROVE  WalkOK'
  <1> USE DEF Blocks, Slots, NoKey, NumPromptBlocks
  <1>1. ASSUME NEW prompts \in PrefixBatches, NEW enable \in BOOLEAN, Allocate(prompts, enable)
        PROVE  WalkOK'
    <2>1. /\ DOMAIN pages' = {} /\ batch' = prompts /\ slots' = slots /\ cursor' = <<1, 0>>
          /\ batch_phase' = "allocating" /\ num_cached' = [i \in DOMAIN prompts |-> 0]
      BY <1>1 DEF Allocate, IInv, Progress, NoPages
    <2>2. prompts \in Seq(Seq(Nat)) /\ prompts # << >> /\ \A i \in DOMAIN prompts : prompts[i] # << >>
      BY CacheAssumption
    <2>3. \A i \in DOMAIN prompts : i \in Nat /\ (1 < i \/ 1 = i)
      BY <2>2
    <2>4. 1 \in DOMAIN prompts
      BY <2>2
    <2>5. Len(prompts[1]) \in Nat \ {0}
      BY <2>2, <2>4
    <2>6. 0 < (Len(prompts[1]) + BlockSize - 1) \div BlockSize
      <3> DEFINE n == Len(prompts[1])
      <3> HIDE DEF n
      <3>1. (n + BlockSize - 1) \div BlockSize \in Nat \ {0}
        BY <2>5, PromptBlocks, ZenonT(60) DEF n
      <3>2. 0 < (n + BlockSize - 1) \div BlockSize
        BY <3>1
      <3> QED
        BY <3>2 DEF n
    <2>7. 0 = 0 * BlockSize
      BY CacheAssumption
    <2>8. \A i \in DOMAIN prompts : \A j \in 0..((Len(prompts[i]) + BlockSize - 1) \div BlockSize - 1) :
             1 < i \/ (1 = i /\ 0 <= j)
      BY <2>3
    <2> QED
      BY <2>1, <2>2, <2>6, <2>7, <2>8, ZenonT(60) DEF WalkOK
  <1>2. CASE AllocateHit
    <2>1. cursor[1] \in DOMAIN batch /\ num_cached = [i \in DOMAIN batch |-> num_cached[i]]
          /\ \A i \in DOMAIN batch : \E h \in Nat : num_cached[i] = h * BlockSize
      <3>1. batch_phase = "allocating"
        BY <1>2 DEF AllocateHit
      <3>2. cursor[1] \in DOMAIN batch
        BY <3>1 DEF IInv, BatchOK, Progress
      <3> QED
        BY <3>1, <3>2 DEF WalkOK
    <2>2. num_cached' = [num_cached EXCEPT ![cursor[1]] = @ + BlockSize]
      BY <1>2 DEF AllocateHit, Row
    <2>3. ASSUME NEW i \in DOMAIN batch PROVE \E h \in Nat : num_cached'[i] = h * BlockSize
      <3>1. PICK h \in Nat : num_cached[i] = h * BlockSize
        BY <2>1
      <3>2. CASE i = cursor[1]
        <4>1. num_cached'[i] = (h + 1) * BlockSize /\ h + 1 \in Nat
          BY <2>1, <2>2, <3>1, <3>2, BlocksInOrder
        <4> QED
          BY <4>1
      <3>3. CASE i # cursor[1]
        BY <2>1, <2>2, <3>1, <3>3
      <3> QED
        BY <3>2, <3>3
    <2>4. WholeBlocks(num_cached')
      BY <2>1, <2>2, <2>3 DEF WholeBlocks
    <2>5. DOMAIN pages' = DOMAIN pages \cup {cursor}
      BY <1>2 DEF AllocateHit, AddPage
    <2> QED
      BY <1>2, <2>4, <2>5, WalkAdvances, ZenonT(60) DEF AllocateHit
  <1>3. CASE AllocateMiss
    <2>1. WholeBlocks(num_cached')
      BY <1>3 DEF AllocateMiss, WalkOK, WholeBlocks
    <2>2. DOMAIN pages' = DOMAIN pages \cup {cursor}
      BY <1>3 DEF AllocateMiss, AddPage
    <2> QED
      BY <1>3, <2>1, <2>2, WalkAdvances DEF AllocateMiss
  <1>4. CASE AllocateRaises \/ Release
    BY <1>4, ZenonT(60) DEF AllocateRaises, Release, ReleasePages, NoPages, WalkOK
  <1>5. CASE Prefill
    <2>1. /\ UNCHANGED <<batch, pages, num_cached>> /\ batch_phase = "prefill"
          /\ \/ cursor[1] < Len(batch) /\ cursor' = <<cursor[1] + 1, 0>> /\ batch_phase' = "prefill"
             \/ batch_phase' = "decode"
      BY <1>5 DEF Prefill, Row
    <2>2. slots' = [b \in Blocks |-> [s \in Slots |-> slots'[b][s]]]
      BY <1>5 DEF Prefill
    <2>3. cursor[1] \in 1..Len(batch) /\ Len(batch) \in Nat
      BY <2>1 DEF WalkOK, IInv, BatchOK
    <2>4. batch_phase' = "prefill" => cursor'[1] \in 1..Len(batch)
      BY <2>1, <2>3
    <2> QED
      BY <2>1, <2>2, <2>4 DEF WalkOK
  <1>6. ASSUME NEW i \in DOMAIN batch, DecodeInPage(i) \/ DecodeNewPage(i)
        PROVE  WalkOK'
    <2>1. /\ UNCHANGED <<batch, num_cached>> /\ batch_phase = "decode" /\ batch_phase' = "decode"
      BY <1>6, ZenonT(60) DEF DecodeInPage, DecodeNewPage
    <2>2. /\ DOMAIN pages \subseteq DOMAIN pages'
          /\ \A e \in DOMAIN pages' : e \in DOMAIN pages \/ e = <<i, length[i] \div BlockSize>>
      BY <1>6 DEF DecodeInPage, DecodeNewPage, AddPage
    <2>3. \E b, p : WriteDecoded(b, p)
      BY <1>6, ZenonT(60) DEF DecodeInPage, DecodeNewPage
    <2>4. slots' = [b \in Blocks |-> [s \in Slots |-> slots'[b][s]]]
      <3>1. PICK b, p : slots' = [slots EXCEPT ![b] = [@ EXCEPT ![p % BlockSize] = NoKey]]
        BY <2>3, ZenonT(60) DEF WriteDecoded
      <3>2. slots = [x \in Blocks |-> [s \in Slots |-> slots[x][s]]]
        BY DEF WalkOK
      <3> QED
        BY <3>1, <3>2, ZenonT(60)
    <2>5. \A e \in DOMAIN pages' : e[1] \in DOMAIN batch
      BY <2>2 DEF WalkOK
    <2> QED
      BY <2>1, <2>2, <2>4, <2>5 DEF WalkOK
  <1>7. CASE UNCHANGED prefixVars
    BY <1>7 DEF prefixVars, WalkOK
  <1> QED
    BY <1>1, <1>2, <1>3, <1>4, <1>5, <1>6, <1>7 DEF PrefixNext

--------------------------------------------------------------------------------
(* What an allocation leaves in the blocks.                                     *)

\* Entries that share a page are at the same place of their prompts.
LEMMA OnePage ==
  ASSUME IInv, WalkOK, NEW e \in DOMAIN pages, NEW f \in DOMAIN pages, pages[e] = pages[f]
  PROVE  /\ e[2] = f[2]
         /\ e # f => KeyAt(e) = KeyAt(f) /\ KeyAt(e) # NoKey
  <1>1. /\ e \in Nat \X Nat /\ f \in Nat \X Nat
        /\ e[1] \in DOMAIN batch /\ f[1] \in DOMAIN batch
    BY DEF IInv, TablesOK, WalkOK
  <1>2. e = <<e[1], e[2]>> /\ f = <<f[1], f[2]>> /\ e[2] \in Nat /\ f[2] \in Nat
    BY <1>1
  <1>3. ASSUME e # f PROVE KeyAt(e) = KeyAt(f) /\ KeyAt(e) # NoKey
    BY <1>3 DEF IInv, PagesAreConsistent
  <1>4. ASSUME e # f PROVE e[2] = f[2]
    <2>1. KeyAt(<<e[1], e[2]>>) = KeyAt(<<f[1], f[2]>>) /\ KeyAt(<<e[1], e[2]>>) # NoKey
      BY <1>2, <1>3, <1>4
    <2> QED
      BY <1>1, <1>2, <2>1, SamePlace DEF IInv
  <1> QED
    BY <1>3, <1>4

\* A new batch.
LEMMA AllocateContent ==
  ASSUME IInv, WalkOK, Content, NEW prompts \in PrefixBatches, NEW enable \in BOOLEAN,
         Allocate(prompts, enable)
  PROVE  Content'
  <1>1. /\ batch_phase = "idle" /\ batch_phase' = "allocating" /\ DOMAIN pages = {} /\ pages' = pages
        /\ UNCHANGED <<prefix_key, prefix_to_block, slots>> /\ cursor' = <<1, 0>> /\ batch' = prompts
        /\ num_cached' = [i \in DOMAIN prompts |-> 0]
    BY DEF Allocate, IInv, Progress, NoPages, cacheVars
  <1>2. PrefixesClosed'
    BY <1>1 DEF Content, PrefixesClosed
  <1>3. RegisteredHold'
    BY <1>1, ZenonT(60) DEF Content, RegisteredHold, Blocks, NoKey, Holds
  <1>4. CachedHold' /\ PrefilledHold'
    BY <1>1 DEF CachedHold, PrefilledHold
  <1>5. HitsComeFirst'
    <2>1. 1 \in DOMAIN prompts
      BY CacheAssumption
    <2>2. 0 = 0 * BlockSize
      BY CacheAssumption
    <2> QED
      BY <1>1, <2>1, <2>2 DEF HitsComeFirst
  <1> QED
    BY <1>2, <1>3, <1>4, <1>5 DEF Content

\* While a batch is allocated, and when its prefill starts, all its rows wait.
LEMMA AllWait ==
  ASSUME IInv, WalkOK, batch_phase = "allocating", Advance, UNCHANGED batch
  PROVE  \A i \in DOMAIN batch : Waiting(i) /\ Waiting(i)'
  <1>1. \A i \in DOMAIN batch : i \in Nat /\ 1 <= i
    BY DEF IInv, BatchOK
  <1>2. batch_phase' = "allocating" \/ (batch_phase' = "prefill" /\ cursor' = <<1, 0>>)
    BY DEF Advance
  <1> QED
    BY <1>1, <1>2 DEF Waiting

\* The allocation finds a registered block.
LEMMA HitContent ==
  ASSUME IInv, WalkOK, Content, AllocateHit
  PROVE  Content'
  <1> DEFINE r == cursor[1]
             c == cursor[2]
             b == prefix_to_block[KeyAt(cursor)]
  <1>1. /\ batch_phase = "allocating" /\ KeyAt(cursor) \in DOMAIN prefix_to_block
        /\ UNCHANGED <<batch, caching, slots, prefix_key, prefix_to_block>>
        /\ num_cached' = [num_cached EXCEPT ![r] = @ + BlockSize]
        /\ pages' = [f \in DOMAIN pages \cup {cursor} |-> IF f = cursor THEN b ELSE pages[f]]
        /\ Advance
    BY DEF AllocateHit, AddPage, AcquireHit, Row
  <1>2. /\ r \in DOMAIN batch /\ r \in Nat /\ c \in Nat /\ cursor = <<r, c>>
        /\ \A e \in DOMAIN pages : e[1] < r \/ (e[1] = r /\ e[2] < c)
        /\ \A e \in DOMAIN pages : e[1] \in Nat /\ e[2] \in Nat /\ e[1] \in DOMAIN batch
    <2>1. /\ r \in DOMAIN batch /\ r \in Nat /\ c \in Nat /\ cursor = <<r, c>>
          /\ \A e \in DOMAIN pages : e[1] < r \/ (e[1] = r /\ e[2] < c)
      BY <1>1 DEF IInv, BatchOK, Progress
    <2>2. \A e \in DOMAIN pages : e[1] \in Nat /\ e[2] \in Nat /\ e[1] \in DOMAIN batch
      BY DEF IInv, TablesOK, WalkOK
    <2> QED
      BY <2>1, <2>2
  <1>3. /\ cursor \notin DOMAIN pages /\ \A e \in DOMAIN pages : pages'[e] = pages[e]
        /\ pages'[cursor] = b /\ DOMAIN pages' = DOMAIN pages \cup {cursor}
    BY <1>1, <1>2
  <1>4. \A i \in DOMAIN batch : Waiting(i) /\ Waiting(i)'
    BY <1>1, AllWait
  <1>5. b \in Blocks /\ prefix_key[b] = KeyAt(cursor) /\ KeyAt(cursor) # NoKey
    BY <1>1, ZenonT(60) DEF IInv, TablesOK, PagesAreConsistent
  <1>6. /\ num_cached[r] = c * BlockSize
        /\ \A i \in DOMAIN batch : r < i => num_cached[i] = 0
    BY <1>1, <1>2 DEF Content, HitsComeFirst
  <1>7. /\ num_cached'[r] = (c + 1) * BlockSize
        /\ \A i \in DOMAIN batch \ {r} : num_cached'[i] = num_cached[i]
    BY <1>1, <1>2, <1>6, BlocksInOrder DEF WalkOK
  <1>8. ASSUME NEW f \in DOMAIN pages, Owed(f) PROVE f[1] < r /\ Owed(f)'
    <2>1. f[1] # r
      <3> SUFFICES ASSUME f[1] = r PROVE FALSE
        OBVIOUS
      <3>1. f[2] < c /\ f[2] \in Nat /\ c * BlockSize <= f[2] * BlockSize
        BY <1>2, <1>6, <1>8 DEF Owed
      <3>2. f[2] * BlockSize < c * BlockSize /\ f[2] * BlockSize \in Nat /\ c * BlockSize \in Nat
        BY <1>2, <3>1, BlocksInOrder
      <3> QED
        BY <3>1, <3>2
    <2>2. f[1] < r
      BY <1>2, <2>1
    <2>3. num_cached'[f[1]] <= f[2] * BlockSize
      BY <1>2, <1>7, <1>8, <2>1 DEF Owed
    <2> QED
      BY <1>2, <1>4, <2>2, <2>3 DEF Owed
  <1>9. \A x : Filled(prefix_key', slots', x) <=> Filled(prefix_key, slots, x)
    BY <1>1
  <1>10. \A e : KeyAt(e)' = KeyAt(e)
    BY <1>1 DEF KeyAt
  <1>11. PrefixesClosed'
    BY <1>1 DEF Content, PrefixesClosed
  <1>12. RegisteredHold'
    <2> SUFFICES ASSUME NEW x \in Blocks, prefix_key[x] # NoKey
                 PROVE  \/ Filled(prefix_key', slots', x)
                        \/ \E e \in DOMAIN pages' : pages'[e] = x /\ Owed(e)'
      BY <1>1, ZenonT(60) DEF RegisteredHold, Blocks, NoKey, Holds
    <2>1. Filled(prefix_key, slots, x) \/ \E e \in DOMAIN pages : pages[e] = x /\ Owed(e)
      BY DEF Content, RegisteredHold, Holds
    <2> QED
      BY <1>3, <1>8, <1>9, <2>1
  <1>13. CachedHold'
    <2> SUFFICES ASSUME NEW e \in DOMAIN pages', e[2] * BlockSize < num_cached'[e[1]]
                 PROVE  /\ KeyAt(e) # NoKey
                        /\ \/ Filled(prefix_key', slots', pages'[e])
                           \/ \E f \in DOMAIN pages' : pages'[f] = pages'[e] /\ f[1] < e[1] /\ Owed(f)'
      BY <1>10 DEF CachedHold, NoKey, Holds
    <2>1. CASE e = cursor
      <3>1. Filled(prefix_key, slots, b) \/ \E f \in DOMAIN pages : pages[f] = b /\ Owed(f)
        BY <1>5 DEF Content, RegisteredHold, Holds
      <3> QED
        BY <1>3, <1>5, <1>8, <1>9, <2>1, <3>1, ZenonT(60)
    <2>2. CASE e \in DOMAIN pages
      <3>1. e[2] * BlockSize < num_cached[e[1]]
        <4>0. e[1] \in DOMAIN batch /\ e[2] \in Nat /\ (e[1] = r => e[2] < c)
          BY <1>2, <2>2
        <4>1. CASE e[1] = r
          BY <1>2, <1>6, <4>0, <4>1, BlocksInOrder
        <4>2. CASE e[1] # r
          BY <1>7, <4>0, <4>2
        <4> QED
          BY <4>1, <4>2
      <3>2. Waiting(e[1])
        BY <1>2, <1>4, <2>2
      <3>3. /\ KeyAt(e) # NoKey
            /\ \/ Filled(prefix_key, slots, pages[e])
               \/ \E f \in DOMAIN pages : pages[f] = pages[e] /\ f[1] < e[1] /\ Owed(f)
        BY <2>2, <3>1, <3>2 DEF Content, CachedHold, Holds
      <3> QED
        BY <1>3, <1>8, <1>9, <2>2, <3>3
    <2> QED
      BY <1>3, <2>1, <2>2
  <1>14. HitsComeFirst'
    <2>1. CASE cursor' = <<r, c + 1>>
      BY <1>1, <1>2, <1>6, <1>7, <2>1 DEF HitsComeFirst
    <2>2. CASE cursor' = <<r + 1, 0>> /\ r + 1 \in DOMAIN batch
      <3>1. 0 = 0 * BlockSize /\ r < r + 1 /\ r + 1 # r
        BY <1>2, CacheAssumption
      <3>2. \A i \in DOMAIN batch : r + 1 < i => r < i /\ i # r
        BY <1>2 DEF IInv, BatchOK
      <3>3. num_cached'[r + 1] = 0 /\ \A i \in DOMAIN batch : r + 1 < i => num_cached'[i] = 0
        BY <1>6, <1>7, <2>2, <3>1, <3>2
      <3> QED
        BY <1>1, <2>2, <3>1, <3>3 DEF HitsComeFirst
    <2>3. CASE batch_phase' = "prefill"
      BY <2>3 DEF HitsComeFirst
    <2>4. r < Len(batch) => r + 1 \in DOMAIN batch
      BY <1>2 DEF IInv, BatchOK
    <2> QED
      BY <1>1, <2>1, <2>2, <2>3, <2>4 DEF Advance, Row
  <1>15. PrefilledHold'
    <2>1. batch_phase' = "allocating" \/ (batch_phase' = "prefill" /\ cursor' = <<1, 0>>)
      BY <1>1 DEF Advance
    <2>2. \A i \in DOMAIN batch : ~(i < 1)
      BY DEF IInv, BatchOK
    <2> QED
      BY <1>1, <2>1, <2>2 DEF PrefilledHold
  <1> QED
    BY <1>11, <1>12, <1>13, <1>14, <1>15 DEF Content

\* The allocation takes a free block that carries no key.
LEMMA MissContent ==
  ASSUME IInv, WalkOK, Content, AllocateMiss, clean', TablesOK'
  PROVE  Content'
  <1> DEFINE r == cursor[1]
             c == cursor[2]
             key == KeyAt(cursor)
  <1>1. PICK b \in Blocks : AcquireFree(b, key) /\ AddPage(cursor, b)
    BY DEF AllocateMiss
  <1>2. /\ batch_phase = "allocating" /\ key \notin DOMAIN prefix_to_block
        /\ UNCHANGED <<batch, caching, slots, num_cached>> /\ Advance
    BY DEF AllocateMiss
  <1>3. prefix_key[b] = NoKey
    BY <1>1, ZenonT(60) DEF AcquireFree
  <1>4. /\ prefix_key' = [prefix_key EXCEPT ![b] = key]
        /\ prefix_to_block' =
             [k \in (DOMAIN prefix_to_block \ {prefix_key[b]}) \cup ({key} \ {NoKey}) |->
                IF k = key THEN b ELSE prefix_to_block[k]]
        /\ pages' = [f \in DOMAIN pages \cup {cursor} |-> IF f = cursor THEN b ELSE pages[f]]
    BY <1>1 DEF AcquireFree, AddPage
  <1>5. \A k : k \in DOMAIN prefix_to_block' <=> k \in DOMAIN prefix_to_block \/ (k = key /\ key # NoKey)
    BY <1>3, <1>4 DEF IInv, TablesOK
  <1>6. /\ r \in DOMAIN batch /\ r \in Nat /\ c \in Nat /\ cursor = <<r, c>>
        /\ \A e \in DOMAIN pages : e[1] < r \/ (e[1] = r /\ e[2] < c)
        /\ \A e \in DOMAIN pages : e[1] \in Nat /\ e[2] \in Nat /\ e[1] \in DOMAIN batch
    <2>1. /\ r \in DOMAIN batch /\ r \in Nat /\ c \in Nat /\ cursor = <<r, c>>
          /\ \A e \in DOMAIN pages : e[1] < r \/ (e[1] = r /\ e[2] < c)
      BY <1>2 DEF IInv, BatchOK, Progress
    <2>2. \A e \in DOMAIN pages : e[1] \in Nat /\ e[2] \in Nat /\ e[1] \in DOMAIN batch
      BY DEF IInv, TablesOK, WalkOK
    <2> QED
      BY <2>1, <2>2
  <1>7. /\ cursor \notin DOMAIN pages /\ \A e \in DOMAIN pages : pages'[e] = pages[e]
        /\ pages'[cursor] = b /\ DOMAIN pages' = DOMAIN pages \cup {cursor}
    BY <1>4, <1>6
  <1>8. \A e \in DOMAIN pages : pages[e] # b /\ pages[e] \in Blocks
    BY <1>1, FreeIsUnused DEF IInv, AcquireFree, TablesOK
  <1>9. \A x \in Blocks : x # b => prefix_key'[x] = prefix_key[x]
    BY <1>4 DEF IInv, TablesOK
  <1>10. prefix_key'[b] = key
    BY <1>4 DEF IInv, TablesOK
  <1>11. \A i \in DOMAIN batch : Waiting(i) /\ Waiting(i)'
    BY <1>2, AllWait
  <1>12. \A e \in DOMAIN pages : Owed(e) <=> Owed(e)'
    BY <1>2, <1>6, <1>11 DEF Owed
  <1>13. num_cached[r] <= c * BlockSize /\ num_cached[r] \in Nat /\ c * BlockSize \in Nat
    <2>1. c * BlockSize \in Nat
      BY <1>6, BlocksInOrder
    <2>2. num_cached[r] \in Nat
      <3>1. PICK h \in Nat : num_cached[r] = h * BlockSize
        BY <1>2, <1>6 DEF WalkOK
      <3> QED
        BY <3>1, BlocksInOrder
    <2>3. num_cached[r] = c * BlockSize \/ num_cached[r] < c * BlockSize
      BY <1>2 DEF Content, HitsComeFirst
    <2> QED
      BY <2>1, <2>2, <2>3
  <1>14. \E e : e = cursor /\ Owed(e)'
    <2>1. PICK e : e = cursor
      OBVIOUS
    <2>2. e[1] \in DOMAIN batch /\ num_cached'[e[1]] <= e[2] * BlockSize
      BY <1>2, <1>6, <1>13, <2>1
    <2> QED
      BY <1>11, <2>1, <2>2 DEF Owed
  <1>15. \A x \in Blocks : x # b => (Filled(prefix_key', slots', x) <=> Filled(prefix_key, slots, x))
    BY <1>2, <1>9 DEF Filled
  <1>16. \A e : KeyAt(e)' = KeyAt(e)
    BY <1>2 DEF KeyAt
  <1>17. PrefixesClosed'
    <2> SUFFICES ASSUME NEW k \in DOMAIN prefix_to_block'
                 PROVE  /\ k \in Seq(Nat)
                        /\ \A m \in Nat \ {0} : m * BlockSize < Len(k)
                             => SubSeq(k, 1, m * BlockSize) \in DOMAIN prefix_to_block'
      BY DEF PrefixesClosed
    <2>1. CASE k \in DOMAIN prefix_to_block
      BY <1>5, <2>1 DEF Content, PrefixesClosed
    <2>2. CASE k = key /\ key # NoKey
      <3>1. KeyOf(r, c, key) /\ KeyAt(<<r, c>>) # NoKey
        BY <1>6, <2>2, KeyIs, KeyedBlocks DEF IInv
      <3>2. k \in Seq(Nat) /\ Len(k) = (c + 1) * BlockSize
        BY <2>2, <3>1 DEF KeyOf
      <3>3. ASSUME NEW m \in Nat \ {0}, m * BlockSize < Len(k)
            PROVE  SubSeq(k, 1, m * BlockSize) \in DOMAIN prefix_to_block
        <4>1. m < c + 1 /\ c + 1 \in Nat
          <5>1. c + 1 \in Nat /\ m \in Nat /\ m * BlockSize < (c + 1) * BlockSize
            BY <1>6, <3>2, <3>3
          <5> QED
            BY <5>1, BlocksInOrder
        <4>2. m - 1 \in Nat /\ m - 1 <= c /\ m - 1 < c /\ (m - 1) + 1 = m
          BY <1>6, <4>1
        <4>3. KeyAt(<<r, m - 1>>) # NoKey /\ KeyAt(<<r, m - 1>>) = SubSeq(key, 1, m * BlockSize)
          BY <1>6, <3>1, <4>2, ShorterKey DEF IInv
        <4>4. <<r, m - 1>> \in DOMAIN pages
          <5>1. c < NumPromptBlocks(batch[r]) /\ NumPromptBlocks(batch[r]) \in Nat
            BY <1>2, <1>6, PromptIs, PromptBlocks DEF WalkOK, IInv, NumPromptBlocks
          <5>2. m - 1 \in 0..(NumPromptBlocks(batch[r]) - 1)
            BY <1>6, <4>2, <5>1
          <5>3. <<r, m - 1>> \in DOMAIN pages \/ r < r \/ (r = r /\ c <= m - 1)
            BY <1>2, <1>6, <5>2 DEF WalkOK
          <5> QED
            BY <1>6, <4>2, <5>3
        <4>5. /\ prefix_key[pages[<<r, m - 1>>]] = KeyAt(<<r, m - 1>>)
              /\ pages[<<r, m - 1>>] \in Blocks
          BY <4>4, ZenonT(60) DEF IInv, TablesOK, PagesAreConsistent
        <4>6. KeyAt(<<r, m - 1>>) \in DOMAIN prefix_to_block
          BY <4>3, <4>5 DEF IInv, PagesAreConsistent
        <4> QED
          BY <2>2, <4>3, <4>6, ZenonT(60)
      <3> QED
        BY <1>5, <3>2, <3>3
    <2> QED
      BY <1>5, <2>1, <2>2
  <1>18. RegisteredHold'
    <2> SUFFICES ASSUME NEW x \in Blocks, prefix_key'[x] # NoKey
                 PROVE  \/ Filled(prefix_key', slots', x)
                        \/ \E e \in DOMAIN pages' : pages'[e] = x /\ Owed(e)'
      BY DEF RegisteredHold, Blocks, NoKey, Holds
    <2>1. CASE x = b
      BY <1>7, <1>14, <2>1
    <2>2. CASE x # b
      <3>1. Filled(prefix_key, slots, x) \/ \E e \in DOMAIN pages : pages[e] = x /\ Owed(e)
        BY <1>9, <2>2 DEF Content, RegisteredHold, Holds
      <3> QED
        BY <1>7, <1>12, <1>15, <2>2, <3>1
    <2> QED
      BY <2>1, <2>2
  <1>19. CachedHold'
    <2> SUFFICES ASSUME NEW e \in DOMAIN pages', e[2] * BlockSize < num_cached[e[1]]
                 PROVE  /\ KeyAt(e) # NoKey
                        /\ \/ Filled(prefix_key', slots', pages'[e])
                           \/ \E f \in DOMAIN pages' : pages'[f] = pages'[e] /\ f[1] < e[1] /\ Owed(f)'
      BY <1>2, <1>16 DEF CachedHold, NoKey, Holds
    <2>1. e \in DOMAIN pages
      BY <1>6, <1>7, <1>13
    <2>2. Waiting(e[1])
      BY <1>6, <1>11, <2>1
    <2>3. /\ KeyAt(e) # NoKey
          /\ \/ Filled(prefix_key, slots, pages[e])
             \/ \E f \in DOMAIN pages : pages[f] = pages[e] /\ f[1] < e[1] /\ Owed(f)
      BY <2>1, <2>2 DEF Content, CachedHold, Holds
    <2> QED
      BY <1>7, <1>8, <1>12, <1>15, <2>1, <2>3
  <1>20. HitsComeFirst'
    <2>1. CASE cursor' = <<r, c + 1>>
      <3>1. num_cached[r] < (c + 1) * BlockSize
        <4>1. (c + 1) * BlockSize = c * BlockSize + BlockSize
          BY <1>6, BlocksInOrder
        <4> QED
          BY <1>13, <4>1, CacheAssumption
      <3>2. ASSUME NEW j \in Nat, c + 1 <= j, KeyAt(<<r, j>>) \in DOMAIN prefix_to_block'
            PROVE  FALSE
        <4>1. KeyAt(<<r, j>>) # NoKey
          BY <3>2 DEF TablesOK, NoKey
        <4>2. CASE KeyAt(<<r, j>>) \in DOMAIN prefix_to_block
          <5>1. c <= j /\ c + 1 \in Nat \ {0} /\ j + 1 \in Nat /\ c + 1 < j + 1
            BY <1>6, <3>2
          <5>2. Len(KeyAt(<<r, j>>)) = (j + 1) * BlockSize
            BY <1>6, <4>1, KeyIs, KeyedBlocks DEF IInv, KeyOf
          <5>3. (c + 1) * BlockSize < (j + 1) * BlockSize
            BY <5>1, BlocksInOrder
          <5>4. SubSeq(KeyAt(<<r, j>>), 1, (c + 1) * BlockSize) \in DOMAIN prefix_to_block
            BY <4>2, <5>1, <5>2, <5>3 DEF Content, PrefixesClosed
          <5>5. KeyAt(<<r, c>>) = SubSeq(KeyAt(<<r, j>>), 1, (c + 1) * BlockSize)
            BY <1>6, <4>1, <5>1, ShorterKey DEF IInv
          <5> QED
            BY <1>2, <1>6, <5>4, <5>5, ZenonT(60)
        <4>3. CASE KeyAt(<<r, j>>) = KeyAt(<<r, c>>)
          <5>1. j = c
            BY <1>6, <4>1, <4>3, SamePlace DEF IInv
          <5> QED
            BY <1>6, <3>2, <5>1
        <4> QED
          BY <1>5, <1>6, <3>2, <4>2, <4>3
      <3>3. \A i \in DOMAIN batch : r < i => num_cached[i] = 0
        BY <1>2 DEF Content, HitsComeFirst
      <3> QED
        BY <1>2, <1>16, <2>1, <3>1, <3>2, <3>3 DEF HitsComeFirst
    <2>2. CASE cursor' = <<r + 1, 0>> /\ r + 1 \in DOMAIN batch
      <3>1. 0 = 0 * BlockSize /\ r < r + 1
        BY <1>6, CacheAssumption
      <3>2. \A i \in DOMAIN batch : r + 1 < i => r < i
        BY <1>6 DEF IInv, BatchOK
      <3>3. num_cached[r + 1] = 0 /\ \A i \in DOMAIN batch : r + 1 < i => num_cached[i] = 0
        BY <1>2, <2>2, <3>1, <3>2 DEF Content, HitsComeFirst
      <3> QED
        BY <1>2, <2>2, <3>1, <3>3 DEF HitsComeFirst
    <2>3. CASE batch_phase' = "prefill"
      BY <2>3 DEF HitsComeFirst
    <2>4. r < Len(batch) => r + 1 \in DOMAIN batch
      BY <1>6 DEF IInv, BatchOK
    <2> QED
      BY <1>2, <2>1, <2>2, <2>3, <2>4 DEF Advance, Row
  <1>21. PrefilledHold'
    <2>1. batch_phase' = "allocating" \/ (batch_phase' = "prefill" /\ cursor' = <<1, 0>>)
      BY <1>2 DEF Advance
    <2>2. \A i \in DOMAIN batch : ~(i < 1)
      BY DEF IInv, BatchOK
    <2> QED
      BY <1>2, <2>1, <2>2 DEF PrefilledHold
  <1> QED
    BY <1>17, <1>18, <1>19, <1>20, <1>21 DEF Content

--------------------------------------------------------------------------------
(* What the prefill of a row leaves in the blocks.                              *)

\* The prefill of row r wrote the tokens from n on, into the row's pages only.
Wrote(r, n) ==
  /\ \A p \in n..(Len(batch[r]) - 1) :
       slots'[PageOfPosition(r, p)][p % BlockSize] = SubSeq(batch[r], 1, p + 1)
  /\ \A b \in Blocks, s \in Slots :
       \/ slots'[b][s] = slots[b][s]
       \/ \E p \in n..(Len(batch[r]) - 1) :
             /\ PageOfPosition(r, p) = b /\ p % BlockSize = s
             /\ slots'[b][s] = SubSeq(batch[r], 1, p + 1)

\* The entry of a position of a prompt whose table is complete.
LEMMA EntryIs ==
  ASSUME IInv, WalkOK, batch_phase \in {"prefill", "decode"},
         NEW i \in DOMAIN batch, NEW p \in 0..(Len(batch[i]) - 1)
  PROVE  /\ <<i, p \div BlockSize>> \in DOMAIN pages /\ PageOfPosition(i, p) \in Blocks
         /\ PageOfPosition(i, p) = pages[<<i, p \div BlockSize>>]
         /\ p \in Nat /\ p \div BlockSize \in Nat /\ p % BlockSize \in Slots
         /\ p = (p \div BlockSize) * BlockSize + (p % BlockSize)
  <1>1. Len(batch[i]) \in Nat \ {0} /\ p \in Nat
    BY PromptIs DEF IInv
  <1>2. p \div BlockSize \in 0..(NumPromptBlocks(batch[i]) - 1)
    BY <1>1, PromptBlocks, ZenonT(60) DEF NumPromptBlocks
  <1>3. <<i, p \div BlockSize>> \in DOMAIN pages
    BY <1>2 DEF WalkOK
  <1>4. PageOfPosition(i, p) = pages[<<i, p \div BlockSize>>]
    BY DEF PageOfPosition
  <1> QED
    BY <1>1, <1>3, <1>4, PositionIs DEF IInv, TablesOK

\* The effect of a prefill.
LEMMA PrefillWrites ==
  ASSUME IInv, WalkOK, Prefill
  PROVE  Wrote(cursor[1], num_cached[cursor[1]])
  <1> DEFINE r == cursor[1]
             n == num_cached[r]
             Fed == n..(Len(batch[r]) - 1)
             At(b, s) == {p \in Fed : PageOfPosition(r, p) = b /\ p % BlockSize = s}
  <1>1. /\ batch_phase = "prefill"
        /\ slots' = [b \in Blocks |-> [s \in Slots |->
              IF At(b, s) = {} THEN slots[b][s]
              ELSE SubSeq(batch[r], 1, (CHOOSE p \in At(b, s) : TRUE) + 1)]]
    BY DEF Prefill, Row
  <1>2. r \in DOMAIN batch
    BY <1>1 DEF WalkOK, IInv, BatchOK
  <1>3. n \in Nat /\ Len(batch[r]) \in Nat
    <2>1. PICK h \in Nat : n = h * BlockSize
      BY <1>1, <1>2 DEF WalkOK
    <2> QED
      BY <1>2, <2>1, BlocksInOrder, PromptIs, ZenonT(60) DEF IInv
  <1>4. \A p \in Fed : p \in 0..(Len(batch[r]) - 1)
    BY <1>3
  <1>5. ASSUME NEW p \in Fed, NEW q \in Fed, PageOfPosition(r, p) = PageOfPosition(r, q),
               p % BlockSize = q % BlockSize
        PROVE  p = q
    <2>1. /\ <<r, p \div BlockSize>> \in DOMAIN pages
          /\ PageOfPosition(r, p) = pages[<<r, p \div BlockSize>>]
          /\ p = (p \div BlockSize) * BlockSize + (p % BlockSize)
      BY <1>1, <1>2, <1>4, EntryIs, ZenonT(60)
    <2>2. /\ <<r, q \div BlockSize>> \in DOMAIN pages
          /\ PageOfPosition(r, q) = pages[<<r, q \div BlockSize>>]
          /\ q = (q \div BlockSize) * BlockSize + (q % BlockSize)
      BY <1>1, <1>2, <1>4, EntryIs, ZenonT(60)
    <2>3. p \div BlockSize = q \div BlockSize
      <3> DEFINE e == <<r, p \div BlockSize>>
                 f == <<r, q \div BlockSize>>
      <3>1. e \in DOMAIN pages /\ f \in DOMAIN pages /\ pages[e] = pages[f]
        BY <1>5, <2>1, <2>2, ZenonT(60)
      <3>2. e[2] = p \div BlockSize /\ f[2] = q \div BlockSize
        OBVIOUS
      <3> HIDE DEF e, f
      <3>3. e[2] = f[2]
        BY <3>1, OnePage
      <3> QED
        BY <3>2, <3>3
    <2> QED
      BY <1>5, <2>1, <2>2, <2>3, ZenonT(60)
  <1>6. ASSUME NEW p \in Fed
        PROVE  slots'[PageOfPosition(r, p)][p % BlockSize] = SubSeq(batch[r], 1, p + 1)
    <2> DEFINE b == PageOfPosition(r, p)
               s == p % BlockSize
    <2>1. b \in Blocks /\ s \in Slots
      BY <1>1, <1>2, <1>4, EntryIs, ZenonT(60)
    <2>2. At(b, s) = {p}
      BY <1>5
    <2>3. slots'[b][s] = IF At(b, s) = {} THEN slots[b][s]
                         ELSE SubSeq(batch[r], 1, (CHOOSE q \in At(b, s) : TRUE) + 1)
      BY <1>1, <2>1, ZenonT(60)
    <2>4. At(b, s) # {} /\ (CHOOSE q \in At(b, s) : TRUE) = p
      BY <2>2
    <2> HIDE DEF At, b, s
    <2>5. slots'[b][s] = SubSeq(batch[r], 1, p + 1)
      BY <2>3, <2>4, ZenonT(60)
    <2> QED
      BY <2>5 DEF b, s
  <1>7. ASSUME NEW b \in Blocks, NEW s \in Slots
        PROVE  \/ slots'[b][s] = slots[b][s]
               \/ \E p \in Fed : /\ PageOfPosition(r, p) = b /\ p % BlockSize = s
                                 /\ slots'[b][s] = SubSeq(batch[r], 1, p + 1)
    <2>1. slots'[b][s] = IF At(b, s) = {} THEN slots[b][s]
                         ELSE SubSeq(batch[r], 1, (CHOOSE q \in At(b, s) : TRUE) + 1)
      BY <1>1
    <2>2. CASE At(b, s) = {}
      BY <2>1, <2>2
    <2>3. CASE At(b, s) # {}
      <3>1. PICK p : p = CHOOSE q \in At(b, s) : TRUE
        OBVIOUS
      <3>2. p \in At(b, s)
        BY <2>3, <3>1
      <3>3. slots'[b][s] = SubSeq(batch[r], 1, p + 1)
        BY <2>1, <2>3, <3>1
      <3> QED
        BY <3>2, <3>3
    <2> QED
      BY <2>2, <2>3, ZenonT(60)
  <1> QED
    BY <1>6, <1>7, ZenonT(60) DEF Wrote

\* A block that held its prefix still does, and so does every full block that
\* the row owed.
LEMMA PrefillHolds ==
  ASSUME IInv, WalkOK, Prefill, UNCHANGED prefix_key
  PROVE  /\ \A b \in Blocks : prefix_key[b] # NoKey /\ Filled(prefix_key, slots, b)
                                 => Filled(prefix_key', slots', b)
         /\ \A e \in DOMAIN pages : /\ e[1] = cursor[1] /\ KeyAt(e) # NoKey
                                    /\ num_cached[e[1]] <= e[2] * BlockSize
                                 => Filled(prefix_key', slots', pages[e])
  <1> DEFINE r == cursor[1]
             n == num_cached[r]
  <1>1. Wrote(r, n)
    BY PrefillWrites
  <1>2. batch_phase = "prefill" /\ r \in DOMAIN batch
    BY DEF Prefill, WalkOK, IInv, BatchOK
  <1>3. n \in Nat /\ Len(batch[r]) \in Nat
    <2>1. PICK h \in Nat : n = h * BlockSize
      BY <1>2 DEF WalkOK
    <2> QED
      BY <1>2, <2>1, BlocksInOrder, PromptIs, ZenonT(60) DEF IInv
  <1> HIDE DEF n
  <1>4. ASSUME NEW b \in Blocks, prefix_key[b] # NoKey, Filled(prefix_key, slots, b), NEW s \in Slots
        PROVE  slots'[b][s] = SubSeq(prefix_key[b], 1, Len(prefix_key[b]) - BlockSize + s + 1)
    <2>1. CASE slots'[b][s] = slots[b][s]
      BY <1>4, <2>1 DEF Filled
    <2>2. ASSUME NEW p \in n..(Len(batch[r]) - 1), PageOfPosition(r, p) = b, p % BlockSize = s,
                 slots'[b][s] = SubSeq(batch[r], 1, p + 1)
          PROVE  slots'[b][s] = SubSeq(prefix_key[b], 1, Len(prefix_key[b]) - BlockSize + s + 1)
      <3> DEFINE j == p \div BlockSize
      <3>1. p \in 0..(Len(batch[r]) - 1)
        BY <1>3
      <3>2. /\ <<r, j>> \in DOMAIN pages /\ pages[<<r, j>>] = b
            /\ j \in Nat /\ p = j * BlockSize + s
        BY <1>2, <2>2, <3>1, EntryIs, ZenonT(60)
      <3>3. KeyAt(<<r, j>>) = prefix_key[b]
        BY <3>2 DEF IInv, PagesAreConsistent
      <3> HIDE DEF j
      <3>4. SubSeq(KeyAt(<<r, j>>), 1, Len(KeyAt(<<r, j>>)) - BlockSize + s + 1)
              = SubSeq(batch[r], 1, j * BlockSize + s + 1)
        BY <1>2, <1>4, <3>2, <3>3, HoldsPrompt, ZenonT(60) DEF IInv
      <3> QED
        BY <2>2, <3>2, <3>3, <3>4, ZenonT(60)
    <2> QED
      BY <1>1, <2>1, <2>2, ZenonT(60) DEF Wrote
  <1>5. ASSUME NEW e \in DOMAIN pages, e[1] = r, KeyAt(e) # NoKey, n <= e[2] * BlockSize, NEW s \in Slots
        PROVE  slots'[pages[e]][s]
                 = SubSeq(prefix_key[pages[e]], 1, Len(prefix_key[pages[e]]) - BlockSize + s + 1)
    <2> DEFINE j == e[2]
               p == j * BlockSize + s
    <2>1. j \in Nat /\ e = <<r, j>>
      BY <1>5 DEF IInv, TablesOK
    <2>2. p \in Nat /\ p \div BlockSize = j /\ p % BlockSize = s
      BY <2>1, SlotIs
    <2>3. prefix_key[pages[e]] = KeyAt(<<r, j>>) /\ KeyAt(<<r, j>>) # NoKey
      BY <1>5, <2>1 DEF IInv, PagesAreConsistent
    <2>4. SubSeq(KeyAt(<<r, j>>), 1, Len(KeyAt(<<r, j>>)) - BlockSize + s + 1)
            = SubSeq(batch[r], 1, j * BlockSize + s + 1)
      BY <1>2, <2>1, <2>3, HoldsPrompt, ZenonT(60) DEF IInv
    <2>5. (j + 1) * BlockSize < Len(batch[r])
      BY <1>2, <2>1, <2>3, KeyIs, KeyedBlocks DEF IInv, KeyOf
    <2>6. p \in n..(Len(batch[r]) - 1)
      <3>1. (j + 1) * BlockSize = j * BlockSize + BlockSize /\ j * BlockSize \in Nat
        BY <2>1, BlocksInOrder
      <3>2. n <= j * BlockSize
        BY <1>5
      <3>3. BlockSize \in Nat \ {0} /\ s \in 0..(BlockSize - 1)
        BY CacheAssumption DEF Slots
      <3> HIDE DEF j
      <3> QED
        BY <1>3, <2>5, <3>1, <3>2, <3>3
    <2>7. slots'[PageOfPosition(r, p)][p % BlockSize] = SubSeq(batch[r], 1, p + 1)
      BY <1>1, <2>6 DEF Wrote
    <2>8. PageOfPosition(r, p) = pages[e]
      BY <2>1, <2>2 DEF PageOfPosition
    <2> QED
      BY <2>2, <2>3, <2>4, <2>7, <2>8, ZenonT(60)
  <1>6. \A e \in DOMAIN pages : pages[e] \in Blocks
    BY DEF IInv, TablesOK
  <1> QED
    BY <1>4, <1>5, <1>6 DEF Filled, n

\* A full block that holds its prefix holds the prompt of every row that has it.
LEMMA FilledIsPrompt ==
  ASSUME IInv, WalkOK, batch_phase \in {"prefill", "decode"}, NEW i \in DOMAIN batch,
         NEW p \in 0..(Len(batch[i]) - 1), NEW contents,
         KeyAt(<<i, p \div BlockSize>>) # NoKey, Filled(prefix_key, contents, PageOfPosition(i, p))
  PROVE  contents[PageOfPosition(i, p)][p % BlockSize] = SubSeq(batch[i], 1, p + 1)
  <1> DEFINE j == p \div BlockSize
             s == p % BlockSize
             b == PageOfPosition(i, p)
  <1>1. /\ <<i, j>> \in DOMAIN pages /\ b \in Blocks /\ b = pages[<<i, j>>]
        /\ j \in Nat /\ s \in Slots /\ p = j * BlockSize + s
    BY EntryIs
  <1>2. prefix_key[b] = KeyAt(<<i, j>>)
    BY <1>1, ZenonT(60) DEF IInv, PagesAreConsistent
  <1>3. contents[b][s] = SubSeq(prefix_key[b], 1, Len(prefix_key[b]) - BlockSize + s + 1)
    BY <1>1, ZenonT(60) DEF Filled
  <1>4. SubSeq(KeyAt(<<i, j>>), 1, Len(KeyAt(<<i, j>>)) - BlockSize + s + 1)
          = SubSeq(batch[i], 1, j * BlockSize + s + 1)
    BY <1>1, HoldsPrompt, ZenonT(60) DEF IInv
  <1> HIDE DEF j, s, b
  <1>5. contents[b][s] = SubSeq(batch[i], 1, p + 1)
    BY <1>1, <1>2, <1>3, <1>4, ZenonT(60)
  <1> QED
    BY <1>5 DEF b, s

\* The prefill of a row keeps what the blocks hold and adds the row's prompt.
LEMMA PrefillContent ==
  ASSUME IInv, WalkOK, Content, Prefill
  PROVE  Content'
  <1> DEFINE r == cursor[1]
             n == num_cached[r]
  <1>1. /\ batch_phase = "prefill" /\ r \in DOMAIN batch
        /\ UNCHANGED <<prefix_key, prefix_to_block, batch, caching, pages, num_cached>>
    BY DEF Prefill, WalkOK, IInv, BatchOK, cacheVars
  <1>2. r \in Nat /\ r \in 1..Len(batch) /\ Len(batch) \in Nat /\ DOMAIN batch = 1..Len(batch)
    BY <1>1 DEF WalkOK, IInv, BatchOK
  <1>3. \/ r < Len(batch) /\ cursor' = <<r + 1, 0>> /\ batch_phase' = "prefill"
        \/ ~(r < Len(batch)) /\ batch_phase' = "decode"
    BY <1>1, ZenonT(60) DEF Prefill, Row
  <1>4. \A i \in DOMAIN batch : Waiting(i) <=> r <= i
    BY <1>1 DEF Waiting
  <1>5. \A i \in DOMAIN batch : Waiting(i)' <=> r < i
    <2>1. CASE r < Len(batch) /\ cursor' = <<r + 1, 0>> /\ batch_phase' = "prefill"
      <3>1. \A i : Waiting(i)' <=> r + 1 <= i
        BY <2>1 DEF Waiting
      <3> QED
        BY <1>2, <3>1
    <2>2. CASE ~(r < Len(batch)) /\ batch_phase' = "decode"
      BY <1>2, <2>2 DEF Waiting
    <2> QED
      BY <1>3, <2>1, <2>2
  <1>6. Wrote(r, n)
    BY PrefillWrites
  <1>7. /\ \A b \in Blocks : prefix_key[b] # NoKey /\ Filled(prefix_key, slots, b)
                               => Filled(prefix_key', slots', b)
        /\ \A e \in DOMAIN pages : e[1] = r /\ KeyAt(e) # NoKey /\ num_cached[e[1]] <= e[2] * BlockSize
                               => Filled(prefix_key', slots', pages[e])
    BY <1>1, PrefillHolds, ZenonT(60)
  <1>8. \A e \in DOMAIN pages : /\ e[1] \in DOMAIN batch /\ e[1] \in Nat /\ pages[e] \in Blocks
                                /\ prefix_key[pages[e]] = KeyAt(e)
    <2>1. \A e \in DOMAIN pages : e[1] \in DOMAIN batch
      BY DEF WalkOK
    <2>2. \A e \in DOMAIN pages : e[1] \in Nat /\ pages[e] \in Blocks
      BY DEF IInv, TablesOK
    <2>3. \A e \in DOMAIN pages : prefix_key[pages[e]] = KeyAt(e)
      BY ZenonT(60) DEF IInv, PagesAreConsistent
    <2> QED
      BY <2>1, <2>2, <2>3
  <1>9. \A e \in DOMAIN pages : Owed(e) /\ KeyAt(e) # NoKey
                                  => Owed(e)' \/ Filled(prefix_key', slots', pages[e])
    <2> SUFFICES ASSUME NEW e \in DOMAIN pages, Owed(e), KeyAt(e) # NoKey
                 PROVE  Owed(e)' \/ Filled(prefix_key', slots', pages[e])
      OBVIOUS
    <2>1. r <= e[1] /\ num_cached[e[1]] <= e[2] * BlockSize
      BY <1>4, <1>8 DEF Owed
    <2>2. CASE e[1] = r
      BY <1>7, <2>1, <2>2
    <2>3. CASE r < e[1]
      BY <1>1, <1>5, <1>8, <2>1, <2>3, ZenonT(60) DEF Owed
    <2> QED
      BY <1>2, <1>8, <2>1, <2>2, <2>3
  <1>10. PrefixesClosed'
    BY <1>1 DEF Content, PrefixesClosed
  <1>11. RegisteredHold'
    <2> SUFFICES ASSUME NEW b \in Blocks, prefix_key[b] # NoKey
                 PROVE  \/ Filled(prefix_key', slots', b)
                        \/ \E e \in DOMAIN pages : pages[e] = b /\ Owed(e)'
      BY <1>1 DEF RegisteredHold, Blocks, NoKey, Holds
    <2>1. CASE Filled(prefix_key, slots, b)
      BY <1>7, <2>1
    <2>2. ASSUME NEW e \in DOMAIN pages, pages[e] = b, Owed(e)
          PROVE  Owed(e)' \/ Filled(prefix_key', slots', b)
      BY <1>8, <1>9, <2>2
    <2> QED
      BY <2>1, <2>2 DEF Content, RegisteredHold, Holds
  <1>12. CachedHold'
    <2>1. \A e : KeyAt(e)' = KeyAt(e)
      BY <1>1 DEF KeyAt
    <2> SUFFICES ASSUME NEW e \in DOMAIN pages, Waiting(e[1])', e[2] * BlockSize < num_cached[e[1]]
                 PROVE  /\ KeyAt(e) # NoKey
                        /\ \/ Filled(prefix_key', slots', pages[e])
                           \/ \E f \in DOMAIN pages : pages[f] = pages[e] /\ f[1] < e[1] /\ Owed(f)'
      BY <1>1, <2>1 DEF CachedHold, NoKey, Holds
    <2>2. Waiting(e[1])
      BY <1>2, <1>4, <1>5, <1>8
    <2>3. /\ KeyAt(e) # NoKey
          /\ \/ Filled(prefix_key, slots, pages[e])
             \/ \E f \in DOMAIN pages : pages[f] = pages[e] /\ f[1] < e[1] /\ Owed(f)
      BY <2>2 DEF Content, CachedHold, Holds
    <2>4. CASE Filled(prefix_key, slots, pages[e])
      BY <1>7, <1>8, <2>3, <2>4, ZenonT(60)
    <2>5. ASSUME NEW f \in DOMAIN pages, pages[f] = pages[e], f[1] < e[1], Owed(f)
          PROVE  Owed(f)' \/ Filled(prefix_key', slots', pages[e])
      BY <1>8, <1>9, <2>3, <2>5
    <2> QED
      BY <2>3, <2>4, <2>5, ZenonT(60)
  <1>13. HitsComeFirst'
    BY <1>3 DEF HitsComeFirst
  <1>14. ASSUME NEW i \in DOMAIN batch, i <= r, NEW p \in 0..(Len(batch[i]) - 1)
         PROVE  slots'[PageOfPosition(i, p)][p % BlockSize] = SubSeq(batch[i], 1, p + 1)
    <2> DEFINE j == p \div BlockSize
               s == p % BlockSize
               b == PageOfPosition(i, p)
    <2>1. /\ <<i, j>> \in DOMAIN pages /\ b \in Blocks /\ b = pages[<<i, j>>]
          /\ j \in Nat /\ s \in Slots /\ p = j * BlockSize + s /\ p \in Nat
      BY <1>1, EntryIs
    <2>2. CASE i < r
      <3>1. slots[b][s] = SubSeq(batch[i], 1, p + 1)
        BY <1>1, <2>2 DEF Content, PrefilledHold
      <3>2. CASE slots'[b][s] = slots[b][s]
        BY <3>1, <3>2
      <3>3. ASSUME NEW q \in n..(Len(batch[r]) - 1), PageOfPosition(r, q) = b, q % BlockSize = s,
                   slots'[b][s] = SubSeq(batch[r], 1, q + 1)
            PROVE  slots'[b][s] = SubSeq(batch[i], 1, p + 1)
        <4>1. n \in Nat
          <5>1. PICK h \in Nat : n = h * BlockSize
            BY <1>1 DEF WalkOK
          <5> QED
            BY <5>1, BlocksInOrder
        <4>2. q \in 0..(Len(batch[r]) - 1)
          BY <1>1, <4>1, PromptIs DEF IInv
        <4>3. /\ <<r, q \div BlockSize>> \in DOMAIN pages /\ b = pages[<<r, q \div BlockSize>>]
              /\ q = (q \div BlockSize) * BlockSize + s
          BY <1>1, <3>3, <4>2, EntryIs, ZenonT(60)
        <4>4. q \div BlockSize = j /\ KeyAt(<<i, j>>) = KeyAt(<<r, j>>) /\ KeyAt(<<i, j>>) # NoKey
          <5> DEFINE e == <<i, j>>
                     f == <<r, q \div BlockSize>>
          <5>1. e \in DOMAIN pages /\ f \in DOMAIN pages /\ pages[e] = pages[f]
            BY <2>1, <4>3, ZenonT(60)
          <5>2. e # f /\ e[2] = j /\ f[2] = q \div BlockSize
            BY <1>2, <2>2
          <5> HIDE DEF e, f
          <5>3. e[2] = f[2] /\ KeyAt(e) = KeyAt(f) /\ KeyAt(e) # NoKey
            BY <5>1, <5>2, OnePage
          <5> QED
            BY <5>2, <5>3 DEF e, f
        <4>5. p = q
          BY <2>1, <4>3, <4>4
        <4>6. SubSeq(KeyAt(<<i, j>>), 1, Len(KeyAt(<<i, j>>)) - BlockSize + s + 1)
                = SubSeq(batch[i], 1, j * BlockSize + s + 1)
          BY <2>1, <4>4, HoldsPrompt, ZenonT(60) DEF IInv
        <4>7. SubSeq(KeyAt(<<r, j>>), 1, Len(KeyAt(<<r, j>>)) - BlockSize + s + 1)
                = SubSeq(batch[r], 1, j * BlockSize + s + 1)
          BY <1>1, <2>1, <4>4, HoldsPrompt, ZenonT(60) DEF IInv
        <4> HIDE DEF j, s, b
        <4> QED
          BY <2>1, <3>3, <4>4, <4>5, <4>6, <4>7, ZenonT(60)
      <3> QED
        BY <1>6, <2>1, <3>2, <3>3, ZenonT(60) DEF Wrote
    <2>3. CASE i = r /\ n <= p
      <3>1. p \in n..(Len(batch[r]) - 1)
        <4>1. PICK h \in Nat : n = h * BlockSize
          BY <1>1 DEF WalkOK
        <4>2. n \in Nat
          BY <4>1, BlocksInOrder
        <4> HIDE DEF n
        <4>3. p <= Len(batch[r]) - 1 /\ Len(batch[r]) \in Nat
          BY <1>1, <1>14, <2>3, PromptIs DEF IInv
        <4> QED
          BY <2>1, <2>3, <4>2, <4>3
      <3> QED
        BY <1>6, <2>3, <3>1, ZenonT(60) DEF Wrote
    <2>4. CASE i = r /\ p < n
      <3>1. j * BlockSize < n
        <4>1. PICK h \in Nat : n = h * BlockSize
          BY <1>1 DEF WalkOK
        <4> QED
          BY <2>1, <2>4, <4>1, PositionInBlocks
      <3>2. Waiting(i)
        BY <1>2, <1>4, <2>4
      <3>3. PICK e : e = <<i, j>>
        BY ZenonT(60)
      <3>4. e \in DOMAIN pages /\ e[1] = i /\ e[2] = j /\ pages[e] = b
        BY <2>1, <3>3
      <3>5. /\ KeyAt(e) # NoKey
            /\ \/ Filled(prefix_key, slots, pages[e])
               \/ \E f \in DOMAIN pages : pages[f] = pages[e] /\ f[1] < e[1] /\ Owed(f)
        BY <2>4, <3>1, <3>2, <3>4, ZenonT(60) DEF Content, CachedHold, Holds
      <3>6. \A f \in DOMAIN pages : Owed(f) => r <= f[1]
        BY <1>4, <1>8, ZenonT(60) DEF Owed
      <3>7. Filled(prefix_key, slots, b)
        BY <1>2, <1>8, <2>4, <3>4, <3>5, <3>6
      <3>8. prefix_key[b] # NoKey
        BY <1>8, <3>4, <3>5, ZenonT(60)
      <3>9. Filled(prefix_key, slots', b)
        BY <1>1, <1>7, <2>1, <3>7, <3>8, ZenonT(60)
      <3>10. KeyAt(<<i, j>>) # NoKey
        BY <3>3, <3>5, ZenonT(60)
      <3> QED
        BY <1>1, <3>9, <3>10, FilledIsPrompt, ZenonT(60)
    <2>5. i < r \/ (i = r /\ n <= p) \/ (i = r /\ p < n)
      <3>1. PICK h \in Nat : n = h * BlockSize
        BY <1>1 DEF WalkOK
      <3>2. n \in Nat
        BY <3>1, BlocksInOrder
      <3> HIDE DEF n
      <3> QED
        BY <1>2, <1>14, <2>1, <3>2
    <2> QED
      BY <2>2, <2>3, <2>4, <2>5
  <1>15. PrefilledHold'
    <2>1. \A i \in DOMAIN batch :
            (batch_phase' = "decode" \/ (batch_phase' = "prefill" /\ i < cursor'[1])) => i <= r
      BY <1>2, <1>3
    <2>2. \A i, p : PageOfPosition(i, p)' = PageOfPosition(i, p)
      BY <1>1 DEF PageOfPosition
    <2> QED
      BY <1>1, <1>14, <2>1, <2>2 DEF PrefilledHold
  <1> QED
    BY <1>10, <1>11, <1>12, <1>13, <1>15 DEF Content

\* In decode no row waits: a registered block holds its prefix.
LEMMA DecodeHolds ==
  ASSUME Content, batch_phase = "decode"
  PROVE  \A b \in Blocks : prefix_key[b] # NoKey => Filled(prefix_key, slots, b)
  <1>1. \A e : ~Owed(e)
    BY DEF Owed, Waiting
  <1> QED
    BY <1>1 DEF Content, RegisteredHold, Holds

\* Decoding past the prompts writes a slot of a block that is registered for
\* nothing and holds none of the prompts at that slot.
LEMMA DecodeContent ==
  ASSUME IInv, WalkOK, Content, clean', NEW i \in DOMAIN batch, DecodeInPage(i) \/ DecodeNewPage(i)
  PROVE  Content'
  <1> DEFINE q == length[i]
             j == q \div BlockSize
             s == q % BlockSize
  <1>1. /\ batch_phase = "decode" /\ batch_phase' = "decode"
        /\ UNCHANGED <<batch, caching, num_cached, cursor>>
    BY ZenonT(60) DEF DecodeInPage, DecodeNewPage
  <1>2. q \in Nat /\ Len(batch[i]) <= q /\ Len(batch[i]) \in Nat
    <2>1. q \in Nat /\ Len(batch[i]) <= q
      BY <1>1, ZenonT(60) DEF IInv, Progress
    <2> QED
      BY <2>1, PromptIs DEF IInv
  <1>3. j \in Nat /\ s \in Slots /\ q = j * BlockSize + s
    BY <1>2, PositionIs, ZenonT(60)
  <1>4. KeyAt(<<i, j>>) = NoKey
    BY <1>2, DecodedHasNoKey, ZenonT(60) DEF IInv
  <1> HIDE DEF q, j, s
  <1>5. ASSUME NEW b \in Blocks, prefix_key[b] = NoKey, prefix_key' = prefix_key,
               DOMAIN prefix_to_block' = DOMAIN prefix_to_block,
               \A e \in DOMAIN pages : pages[e] = b => e = <<i, j>>,
               slots' = [slots EXCEPT ![b] = [@ EXCEPT ![s] = NoKey]],
               DOMAIN pages \subseteq DOMAIN pages', \A e \in DOMAIN pages : pages'[e] = pages[e]
        PROVE  Content'
    <2>1. slots \in [Blocks -> [Slots -> {slots[x][y] : x \in Blocks, y \in Slots}]]
      <3> DEFINE V == {slots[x][y] : x \in Blocks, y \in Slots}
      <3>1. [x \in Blocks |-> [y \in Slots |-> slots[x][y]]] \in [Blocks -> [Slots -> V]]
        OBVIOUS
      <3>2. slots = [x \in Blocks |-> [y \in Slots |-> slots[x][y]]]
        BY DEF WalkOK
      <3> QED
        BY <3>1, <3>2
    <2>2. \A x \in Blocks, y \in Slots : x # b \/ y # s => slots'[x][y] = slots[x][y]
      BY <1>3, <1>5, <2>1
    <2>3. \A x \in Blocks : prefix_key[x] # NoKey => Filled(prefix_key', slots', x)
      <3>1. \A x \in Blocks : prefix_key[x] # NoKey => x # b /\ Filled(prefix_key, slots, x)
        BY <1>1, <1>5, DecodeHolds
      <3> QED
        BY <1>5, <2>2, <3>1 DEF Filled
    <2>4. PrefixesClosed'
      BY <1>5 DEF Content, PrefixesClosed
    <2>5. RegisteredHold'
      BY <1>5, <2>3, ZenonT(60) DEF RegisteredHold, Holds, Blocks, NoKey
    <2>6. CachedHold' /\ HitsComeFirst'
      BY <1>1 DEF CachedHold, HitsComeFirst, Waiting
    <2>7. ASSUME NEW k \in DOMAIN batch, NEW p \in 0..(Len(batch[k]) - 1)
          PROVE  slots'[PageOfPosition(k, p)'][p % BlockSize] = SubSeq(batch[k], 1, p + 1)
      <3>1. /\ <<k, p \div BlockSize>> \in DOMAIN pages /\ PageOfPosition(k, p) \in Blocks
            /\ PageOfPosition(k, p) = pages[<<k, p \div BlockSize>>]
            /\ p \in Nat /\ p \div BlockSize \in Nat /\ p % BlockSize \in Slots
            /\ p = (p \div BlockSize) * BlockSize + (p % BlockSize)
        BY <1>1, EntryIs, ZenonT(60)
      <3>2. PageOfPosition(k, p)' = PageOfPosition(k, p)
        BY <1>5, <3>1 DEF PageOfPosition
      <3>3. slots[PageOfPosition(k, p)][p % BlockSize] = SubSeq(batch[k], 1, p + 1)
        BY <1>1, ZenonT(60) DEF Content, PrefilledHold
      <3>4. PageOfPosition(k, p) # b \/ p % BlockSize # s
        <4> SUFFICES ASSUME PageOfPosition(k, p) = b, p % BlockSize = s
                     PROVE  FALSE
          OBVIOUS
        <4>1. <<k, p \div BlockSize>> = <<i, j>>
          BY <1>5, <3>1
        <4>2. k = i /\ p \div BlockSize = j
          BY <4>1
        <4>3. p = q
          BY <1>3, <3>1, <4>2, ZenonT(60)
        <4> QED
          BY <1>2, <2>7, <4>2, <4>3
      <3> QED
        BY <2>2, <3>1, <3>2, <3>3, <3>4, ZenonT(60)
    <2>8. PrefilledHold'
      BY <1>1, <2>7 DEF PrefilledHold
    <2> QED
      BY <2>4, <2>5, <2>6, <2>8 DEF Content
  <1>6. CASE DecodeInPage(i)
    <2> DEFINE b == pages[<<i, j>>]
    <2>1. /\ <<i, j>> \in DOMAIN pages /\ UNCHANGED <<prefix_key, prefix_to_block, pages>>
          /\ slots' = [slots EXCEPT ![b] = [@ EXCEPT ![s] = NoKey]]
      BY <1>6 DEF DecodeInPage, WriteDecoded, PageOfPosition, cacheVars, j, s, q
    <2>2. b \in Blocks
      BY <2>1 DEF IInv, TablesOK
    <2>3. prefix_key[b] = NoKey
      BY <1>4, <2>1 DEF IInv, PagesAreConsistent
    <2>4. \A e \in DOMAIN pages : pages[e] = b => e = <<i, j>>
      BY <1>4, <2>1 DEF IInv, PagesAreConsistent
    <2> QED
      BY <1>5, <2>1, <2>2, <2>3, <2>4, ZenonT(60)
  <1>7. CASE DecodeNewPage(i)
    <2>1. PICK b \in Blocks : /\ AcquireFree(b, NoKey) /\ AddPage(<<i, j>>, b)
                              /\ WriteDecoded(b, q)
      BY <1>7, ZenonT(60) DEF DecodeNewPage, j, q
    <2>2. <<i, j>> \notin DOMAIN pages
      BY <1>7, ZenonT(60) DEF DecodeNewPage, j, q
    <2>3. prefix_key[b] = NoKey /\ b \in Free
      BY <2>1, ZenonT(60) DEF AcquireFree
    <2>4. prefix_key' = prefix_key
      BY <2>1, <2>3, ZenonT(60) DEF AcquireFree, IInv, TablesOK
    <2>5. DOMAIN prefix_to_block' = DOMAIN prefix_to_block
      <3>1. prefix_to_block' =
              [k \in (DOMAIN prefix_to_block \ {NoKey}) \cup ({NoKey} \ {NoKey}) |->
                 IF k = NoKey THEN b ELSE prefix_to_block[k]]
        BY <2>1, <2>3 DEF AcquireFree
      <3>2. NoKey \notin DOMAIN prefix_to_block
        BY DEF IInv, TablesOK
      <3> QED
        BY <3>1, <3>2
    <2>6. slots' = [slots EXCEPT ![b] = [@ EXCEPT ![s] = NoKey]]
      BY <2>1 DEF WriteDecoded, s
    <2>7. \A e \in DOMAIN pages : pages[e] # b
      BY <2>3, FreeIsUnused, ZenonT(60) DEF IInv
    <2>8. DOMAIN pages \subseteq DOMAIN pages' /\ \A e \in DOMAIN pages : pages'[e] = pages[e]
      BY <2>1, <2>2 DEF AddPage
    <2> QED
      BY <1>5, <2>3, <2>4, <2>5, <2>6, <2>7, <2>8, ZenonT(60)
  <1> QED
    BY <1>6, <1>7

\* After the release the registered blocks still hold their prefixes.
LEMMA ReleaseContent ==
  ASSUME IInv, WalkOK, Content, Release
  PROVE  Content'
  <1>1. /\ batch_phase = "decode" /\ batch_phase' = "idle" /\ DOMAIN pages' = {}
        /\ UNCHANGED <<prefix_key, prefix_to_block, slots>>
    BY DEF Release, ReleasePages, NoPages
  <1>2. PrefixesClosed'
    BY <1>1, ZenonT(60) DEF Content, PrefixesClosed
  <1>3. RegisteredHold'
    <2>1. \A b \in Blocks : prefix_key[b] # NoKey => Filled(prefix_key', slots', b)
      BY <1>1, DecodeHolds
    <2> QED
      BY <1>1, <2>1 DEF RegisteredHold, Holds, Blocks, NoKey
  <1>4. CachedHold' /\ HitsComeFirst' /\ PrefilledHold'
    BY <1>1 DEF CachedHold, HitsComeFirst, PrefilledHold
  <1> QED
    BY <1>2, <1>3, <1>4 DEF Content

\* The invariant of the cached contents holds of an empty cache.
LEMMA InitRInv == PrefixInit => RInv
  <1> SUFFICES ASSUME PrefixInit PROVE RInv
    OBVIOUS
  <1>1. /\ batch_phase = "idle" /\ DOMAIN pages = {} /\ DOMAIN prefix_to_block = {} /\ batch = << >>
        /\ prefix_key = [b \in Blocks |-> NoKey] /\ slots = [b \in Blocks |-> [s \in Slots |-> NoKey]]
    BY DEF PrefixInit, NoPages
  <1>2. DOMAIN batch = {}
    BY <1>1
  <1>3. WalkOK
    BY <1>1, <1>2 DEF WalkOK
  <1>4. Content
    BY <1>1, <1>2, ZenonT(60) DEF Content, PrefixesClosed, RegisteredHold, CachedHold, HitsComeFirst, PrefilledHold
  <1> QED
    BY <1>3, <1>4 DEF RInv

\* Every step of a batch keeps the invariant of the cached contents.
LEMMA NextRInv == IInv /\ RInv /\ [PrefixNext]_prefixVars => RInv'
  <1> SUFFICES ASSUME IInv, RInv, [PrefixNext]_prefixVars
               PROVE  RInv'
    OBVIOUS
  <1>1. WalkOK /\ WalkOK' /\ IInv'
    BY WalkKeeps, NextIInv DEF RInv
  <1> SUFFICES ASSUME clean' PROVE Content'
    BY <1>1 DEF RInv
  <1>2. ~AllocateRaises
    BY DEF AllocateRaises
  <1>3. clean
    <2>1. ASSUME NEW b, NEW key, AcquireFree(b, key) PROVE clean
      BY <2>1, ZenonT(60) DEF AcquireFree
    <2>2. AllocateMiss => clean
      BY <2>1 DEF AllocateMiss
    <2>3. \A i : DecodeNewPage(i) => clean
      BY <2>1 DEF DecodeNewPage
    <2>4. (\E prompts \in PrefixBatches, enable \in BOOLEAN : Allocate(prompts, enable)) => clean
      BY DEF Allocate
    <2>5. AllocateHit => clean
      BY DEF AllocateHit, AcquireHit
    <2>6. Prefill \/ Release \/ (\E i : DecodeInPage(i)) => clean
      BY ZenonT(60) DEF Prefill, Release, DecodeInPage
    <2>7. UNCHANGED prefixVars => clean
      BY DEF prefixVars
    <2> QED
      BY <1>2, <2>2, <2>3, <2>4, <2>5, <2>6, <2>7 DEF PrefixNext
  <1>4. Content
    BY <1>3 DEF RInv
  <1>5. CASE UNCHANGED prefixVars
    <2>1. UNCHANGED <<prefix_key, prefix_to_block, batch, caching, pages, num_cached, cursor, batch_phase,
                      slots>>
      BY <1>5 DEF prefixVars, cacheVars
    <2>2. PrefixesClosed'
      BY <1>4, <2>1 DEF Content, PrefixesClosed
    <2>3. \A e : Owed(e)' <=> Owed(e)
      BY <2>1 DEF Owed, Waiting
    <2>4. \A b : Filled(prefix_key', slots', b) <=> Filled(prefix_key, slots, b)
      BY <2>1 DEF Filled
    <2>5. RegisteredHold'
      BY <1>4, <2>1, <2>3, <2>4, ZenonT(60) DEF Content, RegisteredHold, Holds, Blocks, NoKey
    <2>6. \A e : (KeyAt(e)' = KeyAt(e)) /\ (Waiting(e[1])' <=> Waiting(e[1]))
      BY <2>1 DEF KeyAt, Waiting
    <2>7. CachedHold'
      BY <1>4, <2>1, <2>3, <2>4, <2>6, ZenonT(60) DEF Content, CachedHold, Holds, NoKey
    <2>8. HitsComeFirst'
      BY <1>4, <2>1, <2>6 DEF Content, HitsComeFirst
    <2>9. PrefilledHold'
      BY <1>4, <2>1, ZenonT(60) DEF Content, PrefilledHold, PageOfPosition
    <2> QED
      BY <2>2, <2>5, <2>7, <2>8, <2>9 DEF Content
  <1>6. ASSUME NEW prompts \in PrefixBatches, NEW enable \in BOOLEAN, Allocate(prompts, enable)
        PROVE  Content'
    BY <1>1, <1>4, <1>6, AllocateContent
  <1>7. CASE AllocateHit
    BY <1>1, <1>4, <1>7, HitContent DEF IInv
  <1>8. CASE AllocateMiss
    BY <1>1, <1>4, <1>8, MissContent DEF IInv
  <1>9. CASE Prefill
    BY <1>1, <1>4, <1>9, PrefillContent
  <1>10. ASSUME NEW i \in DOMAIN batch, DecodeInPage(i) \/ DecodeNewPage(i)
         PROVE  Content'
    BY <1>1, <1>4, <1>10, DecodeContent
  <1>11. CASE Release
    BY <1>1, <1>4, <1>11, ReleaseContent
  <1> QED
    BY <1>2, <1>5, <1>6, <1>7, <1>8, <1>9, <1>10, <1>11 DEF PrefixNext

\* For every cache size, block size and sequence of batches: until a registered
\* block is evicted or an allocation fails, a batch that decodes has every
\* position of its prompts in its pages, whichever row or earlier batch wrote it
\* (allocate's num_cached_tokens and _prefill_and_sample_target_batch).
THEOREM ReuseStaysSound == PrefixSpec => []ReuseIsSoundUntilEviction
  <1>1. RInv => ReuseIsSoundUntilEviction
    BY DEF RInv, Content, PrefilledHold, ReuseIsSoundUntilEviction
  <1> QED
    BY <1>1, InitIInv, NextIInv, InitRInv, NextRInv, PTL DEF PrefixSpec
==============================================================================
