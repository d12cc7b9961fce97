-------------------------- MODULE HostMappingRegistry --------------------------
(***************************************************************************)
(* The process-wide registry of mapped host memory behind the mapped KV    *)
(* gather (csrc/kv_cache_block_gather_binding.cpp).  A caller leases a CPU *)
(* tensor; the registry maps its pages into the NPU address space once and *)
(* counts the leases; a gather resolves the NPU alias of a leased tensor   *)
(* and enqueues a device read through it; the last release fences the      *)
(* device, removes the mapping and drops the reference that kept the       *)
(* tensor's storage alive.                                                 *)
(*                                                                         *)
(* Addresses are abstract: a tensor is the set of its bytes, a page a set  *)
(* of addresses, so "contains" and "overlaps" are set comparisons.  The    *)
(* mutex is held only inside one operation, except across the device fence *)
(* of a last release, which is a step of its own (releasing).  A call that *)
(* raises without changing the registry is a stuttering step.              *)
(***************************************************************************)
EXTENDS Integers, FiniteSets

CONSTANTS
  Owners,         \* threads that lease pools and submit gathers
  Tensors,        \* contiguous CPU tensors: pools and views of pools
  Storages,       \* host allocations
  StorageOf,      \* [Tensors -> Storages]
  Addr,           \* host addresses
  Bytes,          \* [Tensors -> SUBSET Addr]: data_ptr .. data_ptr + bytes
  PageOf,         \* [Addr -> pages]: host_addr / page_size
  Pinned,         \* storages the pinned allocator has registered itself
  Devices,        \* NPU devices of the process
  MaxHandle,      \* bound: leases taken in one behaviour
  MaxGeneration   \* bound: allocations of one storage in one behaviour

\* get_host_range: a registration covers every page its tensor touches.
PageRange(t) == {a \in Addr : \E b \in Bytes[t] : PageOf[a] = PageOf[b]}

\* Two allocations never share a page.  The registry does not check this: a
\* tensor in the slack of another's page range would reuse that mapping.
ASSUME TensorsAreMemory ==
  /\ StorageOf \in [Tensors -> Storages]
  /\ Bytes \in [Tensors -> (SUBSET Addr) \ {{}}]
  /\ \A t, u \in Tensors :
        StorageOf[t] # StorageOf[u] => PageRange(t) \cap PageRange(u) = {}

ASSUME BoundsAreNaturals == MaxHandle \in Nat /\ MaxGeneration \in Nat

VARIABLES
  mappings,        \* mapping_id -> HostMapping
  handles,         \* opaque handle -> HostMappingHandle
  next_mapping_id,
  next_handle,
  registrations,   \* page ranges this process holds through aclrtHostRegister
  releasing,       \* handle whose last release holds the mutex, or 0
  held,            \* owner -> storages its own references keep alive
  generation,      \* storage -> how often it has been allocated
  call,            \* owner -> its gather between alias lookup and submission
  reads            \* submitted gathers the device has not finished

registryVars == <<mappings, handles, next_mapping_id, next_handle,
                  registrations, releasing>>
vars == <<registryVars, held, generation, call, reads>>

NoCall == [mapping |-> 0]
Nothing == [i \in {} |-> 0]    \* an empty vector or table

Calls == {call[o] : o \in Owners} \ {NoCall}

LeasesOf(m) == {h \in DOMAIN handles : handles[h].mapping = m}

\* Storage s is allocated: an owner or a lease (tensor_owner) refers to it.
Alive(s) ==
  \/ \E o \in Owners : s \in held[o]
  \/ \E h \in DOMAIN handles : StorageOf[handles[h].tensor] = s

\* find_host_mapping_locked before its device check: the mappings that contain
\* the whole tensor.  The vector is in mapping_id order; the first one wins.
Containing(t) == {m \in DOMAIN mappings : Bytes[t] \subseteq mappings[m].region}
FirstMapping(t) ==
  CHOOSE m \in Containing(t) : \A n \in Containing(t) : m <= n

\* check_no_partial_host_mapping_overlap_locked tests the tensor itself, not
\* the pages it would register.
Overlapped(t) == \E m \in DOMAIN mappings : Bytes[t] \cap mappings[m].region # {}

Init ==
  /\ mappings = Nothing
  /\ handles = Nothing
  /\ next_mapping_id = 1
  /\ next_handle = 1
  /\ registrations = {}
  /\ releasing = 0
  /\ held = [o \in Owners |-> {}]
  /\ generation = [s \in Storages |-> 0]
  /\ call = [o \in Owners |-> NoCall]
  /\ reads = {}

--------------------------------------------------------------------------------
\* The owner's own references: a new tensor, or one more reference to a live one.
Obtain(o, s) ==
  /\ s \notin held[o]
  /\ Alive(s) \/ generation[s] < MaxGeneration
  /\ held' = [held EXCEPT ![o] = @ \cup {s}]
  /\ generation' = IF Alive(s) THEN generation
                   ELSE [generation EXCEPT ![s] = @ + 1]
  /\ UNCHANGED <<registryVars, call, reads>>

\* A running gather holds a reference to its tensor for the length of the call.
Drop(o, s) ==
  /\ s \in held[o]
  /\ call[o] # NoCall => StorageOf[call[o].tensor] # s
  /\ held' = [held EXCEPT ![o] = @ \ {s}]
  /\ UNCHANGED <<registryVars, generation, call, reads>>

\* A new handle on mapping m, whose record becomes `record`.
AddLease(o, t, m, record) ==
  /\ mappings' = [i \in DOMAIN mappings \cup {m} |->
                    IF i = m THEN record ELSE mappings[i]]
  /\ handles' = [h \in DOMAIN handles \cup {next_handle} |->
                   IF h = next_handle
                     THEN [mapping |-> m, tensor |-> t, owner |-> o]
                     ELSE handles[h]]
  /\ next_handle' = next_handle + 1

HostMapping(region, d, owned, t, count) ==
  [region |-> region, dev |-> d, owned |-> owned, count |-> count,
   alias |-> generation[StorageOf[t]]]

\* Mutant of ReuseMapping: the new lease is not counted.
ReuseMappingUncounted(o, t, d) ==
  /\ Containing(t) # {}
  /\ mappings[FirstMapping(t)].dev = d
  /\ AddLease(o, t, FirstMapping(t), mappings[FirstMapping(t)])
  /\ UNCHANGED <<next_mapping_id, registrations>>

\* register_explicit_mapped_host_range, the mapping found: one more lease on it.
ReuseMapping(o, t, d) ==
  /\ Containing(t) # {}
  /\ LET m == FirstMapping(t) IN
       /\ mappings[m].dev = d
       /\ AddLease(o, t, m, [region |-> mappings[m].region, dev |-> mappings[m].dev,
                             owned |-> mappings[m].owned,
                             count |-> mappings[m].count + 1,
                             alias |-> mappings[m].alias])
  /\ UNCHANGED <<next_mapping_id, registrations>>

\* ... no mapping, but the pinned allocator has registered the tensor: borrow.
BorrowMapping(o, t, d) ==
  /\ ~Overlapped(t)
  /\ StorageOf[t] \in Pinned
  /\ AddLease(o, t, next_mapping_id, HostMapping(Bytes[t], d, FALSE, t, 1))
  /\ next_mapping_id' = next_mapping_id + 1
  /\ UNCHANGED registrations

\* ... no mapping at all: register the pages of the tensor with the driver.
OwnMapping(o, t, d) ==
  /\ ~Overlapped(t)
  /\ StorageOf[t] \notin Pinned
  /\ registrations' = registrations \cup {PageRange(t)}
  /\ AddLease(o, t, next_mapping_id, HostMapping(PageRange(t), d, TRUE, t, 1))
  /\ next_mapping_id' = next_mapping_id + 1

RegisterPool(o, t, d) ==
  /\ releasing = 0
  /\ call[o] = NoCall
  /\ StorageOf[t] \in held[o]
  /\ next_handle <= MaxHandle
  /\ \/ ReuseMapping(o, t, d)
     \/ BorrowMapping(o, t, d)
     \/ OwnMapping(o, t, d)
  /\ UNCHANGED <<releasing, held, generation, call, reads>>

RemoveHandle(h) == handles' = [g \in DOMAIN handles \ {h} |-> handles[g]]

\* unregister_kv_cache_block_gather_host_pool while other leases remain: no
\* fence, the mapping stays.
ReleaseShared(o, h, d) ==
  LET m == handles[h].mapping IN
  /\ releasing = 0
  /\ call[o] = NoCall
  /\ handles[h].owner = o
  /\ mappings[m].dev = d
  /\ mappings[m].count > 1
  /\ mappings' = [i \in DOMAIN mappings |->
                    IF i # m THEN mappings[i] ELSE
                    [region |-> mappings[m].region, dev |-> mappings[m].dev,
                     owned |-> mappings[m].owned,
                     count |-> mappings[m].count - 1,
                     alias |-> mappings[m].alias]]
  /\ RemoveHandle(h)
  /\ UNCHANGED <<next_mapping_id, next_handle, registrations, releasing,
                 held, generation, call, reads>>

\* Mutant of FenceLast: no wait for the device before the mapping goes.
FenceLastWithoutSync(o, h, d) ==
  /\ releasing = 0
  /\ call[o] = NoCall
  /\ handles[h].owner = o
  /\ mappings[handles[h].mapping].dev = d
  /\ mappings[handles[h].mapping].count = 1
  /\ releasing' = h
  /\ UNCHANGED <<mappings, handles, next_mapping_id, next_handle, registrations,
                 held, generation, call, reads>>

\* ... of the last lease: synchronize_before_host_mapping_release_locked waits,
\* under the mutex, until the current device is idle.
FenceLast(o, h, d) ==
  LET m == handles[h].mapping IN
  /\ releasing = 0
  /\ call[o] = NoCall
  /\ handles[h].owner = o
  /\ mappings[m].dev = d
  /\ mappings[m].count = 1
  /\ \A r \in reads : r.dev # d
  /\ releasing' = h
  /\ UNCHANGED <<mappings, handles, next_mapping_id, next_handle, registrations,
                 held, generation, call, reads>>

\* ... after the fence: pair aclrtHostRegister, erase the mapping and the handle.
ReleaseLast ==
  LET m == handles[releasing].mapping IN
  /\ releasing # 0
  /\ registrations' = IF mappings[m].owned
                        THEN registrations \ {mappings[m].region}
                        ELSE registrations
  /\ mappings' = [i \in DOMAIN mappings \ {m} |-> mappings[i]]
  /\ RemoveHandle(releasing)
  /\ releasing' = 0
  /\ UNCHANGED <<next_mapping_id, next_handle, held, generation, call, reads>>

\* ... aclrtHostUnregister fails: the lease and the mapping are kept.
UnregisterFails ==
  /\ releasing # 0
  /\ mappings[handles[releasing].mapping].owned
  /\ releasing' = 0
  /\ UNCHANGED <<mappings, handles, next_mapping_id, next_handle, registrations,
                 held, generation, call, reads>>

\* kv_cache_block_gather up to get_mapped_host_device_ptr: the alias is looked up
\* under the mutex and used after it is released.  Callers gather from tensors
\* they hold a lease on, as the offload handler does.
ResolveAlias(o, t, d) ==
  /\ releasing = 0
  /\ call[o] = NoCall
  /\ \E h \in DOMAIN handles : handles[h].owner = o /\ handles[h].tensor = t
  /\ StorageOf[t] \in held[o]
  /\ Containing(t) # {}
  /\ LET m == FirstMapping(t) IN
       /\ mappings[m].dev = d
       /\ call' = [call EXCEPT ![o] = [mapping |-> m, tensor |-> t, dev |-> d,
                                       alias |-> mappings[m].alias]]
  /\ UNCHANGED <<registryVars, held, generation, reads>>

\* ... the rest of the call: the read is on the current stream.
SubmitGather(o) ==
  /\ call[o] # NoCall
  /\ reads' = reads \cup {call[o]}
  /\ call' = [call EXCEPT ![o] = NoCall]
  /\ UNCHANGED <<registryVars, held, generation>>

\* ... or the workspace query or the launch raises.
GatherRaises(o) ==
  /\ call[o] # NoCall
  /\ call' = [call EXCEPT ![o] = NoCall]
  /\ UNCHANGED <<registryVars, held, generation, reads>>

DeviceFinishes(r) ==
  /\ reads' = reads \ {r}
  /\ UNCHANGED <<registryVars, held, generation, call>>

OwnerStep(o) ==
  \/ \E s \in Storages : Obtain(o, s) \/ Drop(o, s)
  \/ \E t \in Tensors, d \in Devices : RegisterPool(o, t, d) \/ ResolveAlias(o, t, d)
  \/ \E h \in DOMAIN handles, d \in Devices :
        ReleaseShared(o, h, d) \/ FenceLast(o, h, d)
  \/ SubmitGather(o)
  \/ GatherRaises(o)

RegistryNext ==
  \/ \E o \in Owners : OwnerStep(o)
  \/ ReleaseLast
  \/ UnregisterFails
  \/ \E r \in reads : DeviceFinishes(r)

RegistrySpec == Init /\ [][RegistryNext]_vars

--------------------------------------------------------------------------------
\* A gather, from its alias lookup until the device has finished it, reads
\* through a mapping that still exists, that is still registered with the driver
\* if the registry owns it, and whose alias is the tensor's present allocation:
\* no unregistration and no reallocation ever overtakes a read
\* (synchronize_before_host_mapping_release_locked, tensor_owner).
ReadsAreLive ==
  \A r \in reads \cup Calls :
    /\ r.mapping \in DOMAIN mappings
    /\ LET m == mappings[r.mapping] IN
         /\ Bytes[r.tensor] \subseteq m.region
         /\ m.dev = r.dev
         /\ m.alias = generation[StorageOf[r.tensor]]
         /\ m.owned => m.region \in registrations
    /\ Alive(StorageOf[r.tensor])

\* explicit_handle_count is the number of live handles of the mapping, so no
\* mapping outlives its last lease or loses it early; the driver's registrations
\* are exactly the owned mappings (register and unregister are paired, borrowed
\* mappings are never unregistered); and no two mappings overlap.
LeasesBalance ==
  /\ \A h \in DOMAIN handles : handles[h].mapping \in DOMAIN mappings
  /\ \A m \in DOMAIN mappings :
        mappings[m].count = Cardinality(LeasesOf(m)) /\ LeasesOf(m) # {}
  /\ registrations = {mappings[m].region : m \in {n \in DOMAIN mappings : mappings[n].owned}}
  /\ \A m, n \in DOMAIN mappings :
        m # n => mappings[m].region \cap mappings[n].region = {}
================================================================================
