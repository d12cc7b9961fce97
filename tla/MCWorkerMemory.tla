---------------------------- MODULE MCWorkerMemory ----------------------------
(***************************************************************************)
(* The memory services of one NPU worker on a small instance.  A behaviour *)
(* is about one of four subjects, chosen initially:                        *)
(*   leases   two threads lease, gather from and release a shared pool and *)
(*            a view of it, straight through the registry's C++ API;       *)
(*   handler  the mapped offload handler with one ordinary and one pinned  *)
(*            pool, on the same registry;                                  *)
(*   sleep    the sleep mode allocator and the worker around it;           *)
(*   prefix   the paged KV cache of a PEARL worker.                        *)
(***************************************************************************)
EXTENDS MappedOffload, NativePrefixCache, SleepModeAllocator

VARIABLE subject

\* Storage "A": a pool of one and a half pages, and a view of its second page.
\* Storage "B": a pool whose pages the pinned allocator registered.
MCStorageOf == [t \in {"pool", "view", "pinned"} |-> IF t = "pinned" THEN "B" ELSE "A"]
MCBytes == [t \in {"pool", "view", "pinned"} |->
              CASE t = "pool" -> {0, 1, 2} [] t = "view" -> {2} [] t = "pinned" -> {4}]
MCPageOf == [a \in 0..5 |-> a \div 2]
MCPools == <<"pool", "pinned">>
MCMaxJobs == [d \in {"store", "load"} |-> IF d = "store" THEN 1 ELSE 2]

MCLoadOrder == <<"param", "buffer", "table", "kv">>
MCTagOf == [b \in {"param", "buffer", "table", "kv"} |->
              CASE b = "kv" -> "kv_cache" [] b = "table" -> "sleep_persistent"
                [] OTHER -> "weights"]

\* Two full blocks and a rest; the same second block after another first one; a
\* prompt that ends with its block; a prompt longer than the page table.
MCTwoBlocks == <<0, 0, 0, 0, 1>>
MCOtherFirst == <<1, 1, 0, 0, 1>>
MCEndsWithBlock == <<0, 0, 1, 1>>
MCTooLong == <<1, 1, 1, 1, 1, 1, 1>>
MCPrefixBatches ==
  {<<MCTwoBlocks>>, <<MCOtherFirst>>, <<MCEndsWithBlock, MCTwoBlocks>>,
   <<MCTwoBlocks, MCOtherFirst>>, <<MCEndsWithBlock, MCTooLong>>}

MCInit ==
  /\ subject \in {"leases", "handler", "sleep", "prefix"}
  /\ OffloadInit
  /\ SleepInit
  /\ PrefixInit

mcVars == <<subject, vars, handlerVars, sleepVars, prefixVars>>

\* Bound: the direct users share storage "A"; the pinned pool is the handler's.
MCNext ==
  \/ /\ subject = "leases" /\ RegistryNext /\ generation'["B"] = 0
     /\ UNCHANGED <<subject, handlerVars, sleepVars, prefixVars>>
  \/ /\ subject = "handler" /\ OffloadNext
     /\ UNCHANGED <<subject, sleepVars, prefixVars>>
  \/ /\ subject = "sleep" /\ SleepNext
     /\ UNCHANGED <<subject, vars, handlerVars, prefixVars>>
  \/ /\ subject = "prefix" /\ PrefixNext
     /\ UNCHANGED <<subject, vars, handlerVars, sleepVars>>

MCSpec == MCInit /\ [][MCNext]_mcVars /\ OffloadFairness
================================================================================
