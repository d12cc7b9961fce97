--------------------------- MODULE MappedLeaseProofs ---------------------------
(***************************************************************************)
(* Proofs about the leases on mapped host memory: the registry on its own, *)
(* for any threads that register and release, and the registry in the      *)
(* hands of the mapped offload handler, from its construction to its close *)
(* and through every failure on the way.                                   *)
(***************************************************************************)
EXTENDS MappedOffloadProofs

USE SMTT(20), ZenonT(60)

--------------------------------------------------------------------------------
(***************************************************************************)
(* The registry.  Leases, mappings and driver registrations stay balanced  *)
(* and no gather ever reads through a dead mapping, for any set of owner   *)
(* threads, tensors, devices and addresses, provided that two allocations  *)
(* never share a page (TensorsAreMemory).                                  *)
(*                                                                         *)
(* The argument: a mapping is created for one tensor, so everything in it  *)
(* belongs to one storage (MappingsHaveOrigin); a lease on it therefore    *)
(* keeps that storage allocated and its alias current.  A gather in flight *)
(* keeps a lease of its own, or is behind the fence: the handle being      *)
(* released is the only lease of its mapping (ReleaseIsAlone), so neither  *)
(* a waiting call nor a submitted read can still use that mapping.         *)
(***************************************************************************)

MappingRecord == [region : SUBSET Addr, dev : Devices, owned : BOOLEAN,
                  count : Nat, alias : Nat]
HandleRecord == [mapping : Nat \ {0}, tensor : Tensors, owner : Owners]
ReadRecord == [mapping : Nat \ {0}, tensor : Tensors, dev : Devices, alias : Nat]

\* What the registry needs to know of a read on the device; its submitter may add
\* to the record.
IsRead(r) == r.mapping \in Nat \ {0} /\ r.tensor \in Tensors /\ r.dev \in Devices

\* The shape of the registry's tables and of the environment.
TablesOK ==
  /\ mappings \in [DOMAIN mappings -> MappingRecord]
  /\ next_mapping_id \in Nat \ {0}
  /\ \A m \in DOMAIN mappings : m \in Nat \ {0} /\ m < next_mapping_id
  /\ handles \in [DOMAIN handles -> HandleRecord]
  /\ IsFiniteSet(DOMAIN handles)
  /\ next_handle \in Nat \ {0}
  /\ \A h \in DOMAIN handles : h \in Nat \ {0} /\ h < next_handle
  /\ releasing \in {0} \cup DOMAIN handles

ThreadsOK ==
  /\ held \in [Owners -> SUBSET Storages]
  /\ generation \in [Storages -> Nat]
  /\ call \in [Owners -> {NoCall} \cup ReadRecord]
  /\ \A r \in reads : IsRead(r)

\* What a mapping was created from: the pages of an unpinned tensor, or exactly
\* a pinned one, in the allocation its alias stands for.
IsOrigin(m, t) ==
  /\ mappings[m].alias = generation[StorageOf[t]]
  /\ IF mappings[m].owned
       THEN StorageOf[t] \notin Pinned /\ mappings[m].region = PageRange(t)
       ELSE StorageOf[t] \in Pinned /\ mappings[m].region = Bytes[t]
MappingsHaveOrigin == \A m \in DOMAIN mappings : \E t \in Tensors : IsOrigin(m, t)

HandlesFit ==
  \A h \in DOMAIN handles :
    Bytes[handles[h].tensor] \subseteq mappings[handles[h].mapping].region

\* While the mutex is held across the fence, the handle being released is its
\* mapping's only lease and its owner is in no other call.
ReleaseIsAlone ==
  releasing # 0 =>
    /\ LeasesOf(handles[releasing].mapping) = {releasing}
    /\ call[handles[releasing].owner] = NoCall
    /\ \A r \in reads : r.mapping # handles[releasing].mapping

\* A call between alias lookup and submission has a lease of its own.
CallsAreLeased ==
  \A o \in Owners : call[o] # NoCall =>
    \E h \in DOMAIN handles : handles[h].owner = o /\ handles[h].mapping = call[o].mapping

ReadsResolve ==
  \A r \in reads \cup Calls :
    /\ r.mapping \in DOMAIN mappings
    /\ Bytes[r.tensor] \subseteq mappings[r.mapping].region
    /\ mappings[r.mapping].dev = r.dev

RegistryInv ==
  /\ TablesOK /\ ThreadsOK /\ MappingsHaveOrigin /\ HandlesFit /\ LeasesBalance
  /\ ReleaseIsAlone /\ CallsAreLeased /\ ReadsResolve

--------------------------------------------------------------------------------
\* A tensor lies in its own page range, and is not empty (get_host_range).
LEMMA InPageRange ==
  ASSUME NEW t \in Tensors
  PROVE  Bytes[t] # {} /\ Bytes[t] \subseteq Addr /\ Bytes[t] \subseteq PageRange(t)
  BY TensorsAreMemory DEF PageRange

\* Everything a mapping contains comes from the allocation it was made for.
LEMMA OneStorage ==
  ASSUME MappingsHaveOrigin, NEW m \in DOMAIN mappings, NEW u \in Tensors,
         Bytes[u] \subseteq mappings[m].region
  PROVE  mappings[m].alias = generation[StorageOf[u]]
  <1>1. PICK t \in Tensors : IsOrigin(m, t)
    BY DEF MappingsHaveOrigin
  <1>2. mappings[m].region \subseteq PageRange(t)
    BY <1>1, InPageRange DEF IsOrigin
  <1>3. PageRange(u) \cap PageRange(t) # {}
    BY <1>2, InPageRange
  <1>4. StorageOf[u] = StorageOf[t]
    BY <1>3, TensorsAreMemory
  <1> QED BY <1>1, <1>4 DEF IsOrigin

\* At most one mapping contains a tensor, so the lookup is unambiguous.
LEMMA LookupIsUnique ==
  ASSUME LeasesBalance, TablesOK, NEW t \in Tensors, NEW m \in Containing(t)
  PROVE  FirstMapping(t) = m
  <1>1. \A n \in Containing(t) : n = m
    BY InPageRange DEF Containing, LeasesBalance
  <1>2. m <= m
    BY DEF Containing, TablesOK
  <1>3. \A n \in Containing(t) : m <= n
    BY <1>1, <1>2
  <1> QED BY <1>1, <1>3 DEF FirstMapping

\* A mapping has a lease, whose tensor it contains.
LEMMA MappingHasLease ==
  ASSUME LeasesBalance, NEW m \in DOMAIN mappings
  PROVE  \E h \in DOMAIN handles : handles[h].mapping = m
  <1>1. LeasesOf(m) # {}
    BY DEF LeasesBalance
  <1> QED BY <1>1 DEF LeasesOf

\* The storage a mapping was made for is allocated.
LEMMA OriginIsAlive ==
  ASSUME TablesOK, LeasesBalance, HandlesFit, NEW m \in DOMAIN mappings,
         NEW t \in Tensors, IsOrigin(m, t)
  PROVE  Alive(StorageOf[t])
  <1>1. PICK h \in DOMAIN handles : handles[h].mapping = m
    BY MappingHasLease
  <1>2. handles[h].tensor \in Tensors
    BY DEF TablesOK, HandleRecord
  <1>3. Bytes[handles[h].tensor] \subseteq mappings[m].region
    BY <1>1 DEF HandlesFit
  <1>4. mappings[m].region \subseteq PageRange(t)
    BY InPageRange DEF IsOrigin
  <1>5. PageRange(handles[h].tensor) \cap PageRange(t) # {}
    BY <1>2, <1>3, <1>4, InPageRange
  <1>6. StorageOf[handles[h].tensor] = StorageOf[t]
    BY <1>2, <1>5, TensorsAreMemory
  <1> QED BY <1>6 DEF Alive

\* The invariant implies that every gather in flight is live.
LEMMA InvariantReadsAreLive == RegistryInv => ReadsAreLive
  <1> SUFFICES ASSUME RegistryInv, NEW r \in reads \cup Calls
               PROVE  /\ r.mapping \in DOMAIN mappings
                      /\ Bytes[r.tensor] \subseteq mappings[r.mapping].region
                      /\ mappings[r.mapping].dev = r.dev
                      /\ mappings[r.mapping].alias = generation[StorageOf[r.tensor]]
                      /\ mappings[r.mapping].owned => mappings[r.mapping].region \in registrations
                      /\ Alive(StorageOf[r.tensor])
    BY DEF ReadsAreLive
  <1>1. r.tensor \in Tensors
    BY DEF RegistryInv, ThreadsOK, Calls, ReadRecord, IsRead
  <1>2. /\ r.mapping \in DOMAIN mappings
        /\ Bytes[r.tensor] \subseteq mappings[r.mapping].region
        /\ mappings[r.mapping].dev = r.dev
    BY DEF RegistryInv, ReadsResolve
  <1>3. mappings[r.mapping].alias = generation[StorageOf[r.tensor]]
    BY <1>1, <1>2, OneStorage DEF RegistryInv
  <1>4. mappings[r.mapping].owned => mappings[r.mapping].region \in registrations
    BY <1>2 DEF RegistryInv, LeasesBalance
  <1>5. PICK t \in Tensors : IsOrigin(r.mapping, t)
    BY <1>2 DEF RegistryInv, MappingsHaveOrigin
  <1>6. StorageOf[t] = StorageOf[r.tensor]
    <2>1. mappings[r.mapping].region \subseteq PageRange(t)
      BY <1>5, InPageRange DEF IsOrigin
    <2>2. PageRange(r.tensor) \cap PageRange(t) # {}
      BY <1>1, <1>2, <2>1, InPageRange
    <2> QED BY <1>1, <2>2, TensorsAreMemory
  <1>7. Alive(StorageOf[r.tensor])
    BY <1>2, <1>5, <1>6, OriginIsAlive DEF RegistryInv
  <1> QED BY <1>2, <1>3, <1>4, <1>7

--------------------------------------------------------------------------------
\* A registry without mappings and leases is in order.
LEMMA InitRegistry == Init => RegistryInv
  <1> SUFFICES ASSUME Init PROVE RegistryInv
    OBVIOUS
  <1>1. DOMAIN mappings = {} /\ DOMAIN handles = {}
    BY DEF Init, Nothing
  <1>2. mappings \in [DOMAIN mappings -> MappingRecord] /\ handles \in [DOMAIN handles -> HandleRecord]
    BY DEF Init, Nothing
  <1>3. TablesOK
    BY <1>1, <1>2, FS_EmptySet DEF TablesOK, Init
  <1>4. ThreadsOK
    BY DEF ThreadsOK, Init
  <1>5. MappingsHaveOrigin /\ HandlesFit /\ LeasesBalance
    BY <1>1 DEF MappingsHaveOrigin, HandlesFit, LeasesBalance, Init
  <1>6. ReleaseIsAlone /\ CallsAreLeased /\ ReadsResolve
    BY DEF ReleaseIsAlone, CallsAreLeased, ReadsResolve, Calls, Init
  <1> QED BY <1>3, <1>4, <1>5, <1>6 DEF RegistryInv

\* A step that leaves the tables alone keeps what only they speak about.
LEMMA TablesUnchanged ==
  ASSUME RegistryInv, UNCHANGED registryVars
  PROVE  TablesOK' /\ HandlesFit' /\ LeasesBalance'
  <1>1. /\ mappings' = mappings /\ handles' = handles /\ registrations' = registrations
        /\ next_mapping_id' = next_mapping_id /\ next_handle' = next_handle
        /\ releasing' = releasing
    BY DEF registryVars
  <1>2. TablesOK'
    BY <1>1 DEF RegistryInv, TablesOK
  <1>3. HandlesFit'
    BY <1>1 DEF RegistryInv, HandlesFit
  <1>4. \A m : LeasesOf(m)' = LeasesOf(m)
    BY <1>1 DEF LeasesOf
  <1>5. LeasesBalance'
    BY <1>1, <1>4 DEF RegistryInv, LeasesBalance
  <1> QED BY <1>2, <1>3, <1>5

\* ... and with the generations, the origins.
LEMMA OriginsUnchanged ==
  ASSUME RegistryInv, UNCHANGED <<registryVars, generation>>
  PROVE  MappingsHaveOrigin'
  BY DEF RegistryInv, registryVars, MappingsHaveOrigin, IsOrigin

\* Obtain: only a storage nobody refers to is allocated anew, and a mapping's is
\* referred to by its leases.
LEMMA ObtainRegistry ==
  ASSUME RegistryInv, NEW o \in Owners, NEW s \in Storages, Obtain(o, s)
  PROVE  RegistryInv'
  <1> USE DEF RegistryInv
  <1>1. TablesOK' /\ HandlesFit' /\ LeasesBalance'
    BY TablesUnchanged DEF Obtain, registryVars
  <1>2. ThreadsOK'
    BY DEF Obtain, ThreadsOK
  <1>3. MappingsHaveOrigin'
    <2> SUFFICES ASSUME NEW m \in DOMAIN mappings
                 PROVE  \E t \in Tensors : IsOrigin(m, t)'
      BY DEF Obtain, registryVars, MappingsHaveOrigin
    <2>1. PICK t \in Tensors : IsOrigin(m, t)
      BY DEF MappingsHaveOrigin
    <2>2. Alive(StorageOf[t])
      BY <2>1, OriginIsAlive
    <2>3. StorageOf[t] \in Storages
      BY TensorsAreMemory
    <2>4. generation'[StorageOf[t]] = generation[StorageOf[t]]
      BY <2>2, <2>3 DEF Obtain, ThreadsOK
    <2> QED BY <2>1, <2>4 DEF IsOrigin, Obtain, registryVars
  <1>4. ReleaseIsAlone' /\ CallsAreLeased' /\ ReadsResolve'
    BY DEF Obtain, registryVars, ReleaseIsAlone, CallsAreLeased, ReadsResolve, Calls, LeasesOf
  <1> QED BY <1>1, <1>2, <1>3, <1>4

\* A thread that drops its reference to a tensor leaves the registry in order:
\* what is leased stays allocated.
LEMMA DropRegistry ==
  ASSUME RegistryInv, NEW o \in Owners, NEW s \in Storages, Drop(o, s)
  PROVE  RegistryInv'
  <1> USE DEF RegistryInv
  <1>1. TablesOK' /\ MappingsHaveOrigin' /\ HandlesFit' /\ LeasesBalance'
    BY TablesUnchanged, OriginsUnchanged, ZenonT(60) DEF Drop, registryVars
  <1>2. ThreadsOK'
    BY DEF Drop, ThreadsOK
  <1>3. ReleaseIsAlone' /\ CallsAreLeased' /\ ReadsResolve'
    BY DEF Drop, registryVars, ReleaseIsAlone, CallsAreLeased, ReadsResolve, Calls, LeasesOf
  <1> QED BY <1>1, <1>2, <1>3

\* ResolveAlias: the lookup returns the mapping of the caller's own lease.
LEMMA ResolveRegistry ==
  ASSUME RegistryInv, NEW o \in Owners, NEW t \in Tensors, NEW d \in Devices, ResolveAlias(o, t, d)
  PROVE  RegistryInv'
  <1> USE DEF RegistryInv
  <1> DEFINE m == FirstMapping(t)
             c == [mapping |-> m, tensor |-> t, dev |-> d, alias |-> mappings[m].alias]
  <1>1. PICK h \in DOMAIN handles : handles[h].owner = o /\ handles[h].tensor = t
    BY ZenonT(60) DEF ResolveAlias
  <1>2. handles[h].mapping \in Containing(t)
    BY <1>1, ZenonT(60) DEF Containing, HandlesFit, LeasesBalance
  <1>3. m = handles[h].mapping /\ m \in DOMAIN mappings /\ Bytes[t] \subseteq mappings[m].region
    BY <1>2, LookupIsUnique DEF Containing
  <1>4. /\ mappings[m].dev = d /\ call' = [call EXCEPT ![o] = c] /\ reads' = reads
        /\ releasing = 0 /\ held' = held /\ generation' = generation /\ UNCHANGED registryVars
    BY DEF ResolveAlias
  <1>5. c \in ReadRecord
    BY <1>3 DEF ReadRecord, TablesOK, MappingRecord
  <1> HIDE DEF m, c
  <1>6. TablesOK' /\ HandlesFit' /\ LeasesBalance' /\ MappingsHaveOrigin'
    BY <1>4, TablesUnchanged, OriginsUnchanged
  <1>7. ThreadsOK'
    BY <1>4, <1>5 DEF ThreadsOK
  <1>8. ReleaseIsAlone'
    BY <1>4, ZenonT(60) DEF ReleaseIsAlone, registryVars
  <1>9. CallsAreLeased'
    BY <1>1, <1>3, <1>4, ZenonT(60) DEF CallsAreLeased, registryVars, ThreadsOK, c
  <1>10. ReadsResolve'
    <2> SUFFICES ASSUME NEW r \in (reads \cup Calls)'
                 PROVE  /\ r.mapping \in DOMAIN mappings
                        /\ Bytes[r.tensor] \subseteq mappings[r.mapping].region
                        /\ mappings[r.mapping].dev = r.dev
      BY <1>4, ZenonT(60) DEF ReadsResolve, registryVars
    <2>1. r \in reads \cup Calls \/ r = c
      BY <1>4 DEF Calls, ThreadsOK
    <2> QED BY <2>1, <1>3, <1>4 DEF ReadsResolve, c
  <1> QED BY <1>6, <1>7, <1>8, <1>9, <1>10

\* SubmitGather: the caller's own lease keeps its mapping from being released.
LEMMA SubmitRegistry ==
  ASSUME RegistryInv, NEW o \in Owners, SubmitGather(o)
  PROVE  RegistryInv'
  <1> USE DEF RegistryInv
  <1>1. /\ call[o] # NoCall /\ call' = [call EXCEPT ![o] = NoCall]
        /\ reads' = reads \cup {call[o]} /\ held' = held /\ generation' = generation
        /\ UNCHANGED registryVars
    BY DEF SubmitGather
  <1>2. call[o] \in ReadRecord /\ call[o] \in Calls
    BY <1>1 DEF ThreadsOK, Calls
  <1>3. TablesOK' /\ HandlesFit' /\ LeasesBalance' /\ MappingsHaveOrigin'
    BY <1>1, TablesUnchanged, OriginsUnchanged
  <1>4. ThreadsOK'
    BY <1>1, <1>2 DEF ThreadsOK, ReadRecord, IsRead
  <1>5. ReleaseIsAlone'
    <2> SUFFICES ASSUME releasing # 0
                 PROVE  /\ LeasesOf(handles[releasing].mapping) = {releasing}
                        /\ call'[handles[releasing].owner] = NoCall
                        /\ \A r \in reads' : r.mapping # handles[releasing].mapping
      BY <1>1 DEF ReleaseIsAlone, registryVars, LeasesOf
    <2>1. /\ LeasesOf(handles[releasing].mapping) = {releasing}
          /\ call[handles[releasing].owner] = NoCall
          /\ \A r \in reads : r.mapping # handles[releasing].mapping
      BY DEF ReleaseIsAlone
    <2>2. PICK h \in DOMAIN handles : handles[h].owner = o /\ handles[h].mapping = call[o].mapping
      BY <1>1 DEF CallsAreLeased
    <2>3. h # releasing
      BY <1>1, <2>1, <2>2
    <2>4. call[o].mapping # handles[releasing].mapping
      BY <2>1, <2>2, <2>3 DEF LeasesOf
    <2>5. call'[handles[releasing].owner] = NoCall
      BY <1>1, <2>1 DEF ThreadsOK, TablesOK, HandleRecord
    <2> QED BY <1>1, <2>1, <2>4, <2>5, ZenonT(60)
  <1>6. CallsAreLeased'
    BY <1>1 DEF CallsAreLeased, registryVars, ThreadsOK
  <1>7. ReadsResolve'
    <2> SUFFICES ASSUME NEW r \in (reads \cup Calls)'
                 PROVE  /\ r.mapping \in DOMAIN mappings
                        /\ Bytes[r.tensor] \subseteq mappings[r.mapping].region
                        /\ mappings[r.mapping].dev = r.dev
      BY <1>1 DEF ReadsResolve, registryVars
    <2>1. r \in reads \cup Calls
      BY <1>1, <1>2 DEF Calls, ThreadsOK
    <2> QED BY <2>1 DEF ReadsResolve
  <1> QED BY <1>3, <1>4, <1>5, <1>6, <1>7

\* A gather that raises or finishes only leaves the set of gathers in flight.
LEMMA GatherEndsRegistry ==
  ASSUME RegistryInv, UNCHANGED <<registryVars, held, generation>>,
         reads' \subseteq reads, call' \in [Owners -> {NoCall} \cup ReadRecord],
         \A o \in Owners : call'[o] = call[o] \/ call'[o] = NoCall
  PROVE  RegistryInv'
  <1> USE DEF RegistryInv
  <1>1. TablesOK' /\ HandlesFit' /\ LeasesBalance' /\ MappingsHaveOrigin'
    BY TablesUnchanged, OriginsUnchanged
  <1>2. ThreadsOK'
    BY DEF ThreadsOK, IsRead
  <1>3. ReleaseIsAlone'
    BY DEF ReleaseIsAlone, registryVars, LeasesOf, TablesOK, HandleRecord
  <1>4. CallsAreLeased'
    BY DEF CallsAreLeased, registryVars
  <1>5. ReadsResolve'
    BY DEF ReadsResolve, Calls, registryVars
  <1> QED BY <1>1, <1>2, <1>3, <1>4, <1>5

\* FenceLast: a count of one means that the handle is the only lease; the fence
\* has drained the reads of the mapping's device.
LEMMA FenceRegistry ==
  ASSUME RegistryInv, NEW o \in Owners, NEW h \in DOMAIN handles, NEW d \in Devices,
         FenceLast(o, h, d)
  PROVE  RegistryInv'
  <1> USE DEF RegistryInv
  <1> DEFINE m == handles[h].mapping
  <1>1. /\ releasing = 0 /\ call[o] = NoCall /\ handles[h].owner = o
        /\ mappings[m].dev = d /\ mappings[m].count = 1 /\ \A r \in reads : r.dev # d
        /\ releasing' = h /\ mappings' = mappings /\ handles' = handles
        /\ next_mapping_id' = next_mapping_id /\ next_handle' = next_handle
        /\ registrations' = registrations /\ held' = held /\ generation' = generation
        /\ call' = call /\ reads' = reads
    BY ZenonT(60) DEF FenceLast
  <1>2. m \in DOMAIN mappings
    BY DEF LeasesBalance
  <1>3. LeasesOf(m) = {h}
    <2>1. LeasesOf(m) \subseteq DOMAIN handles /\ h \in LeasesOf(m)
      BY DEF LeasesOf
    <2>2. IsFiniteSet(LeasesOf(m))
      BY <2>1, FS_Subset DEF TablesOK
    <2>3. Cardinality(LeasesOf(m)) = 1
      BY <1>1, <1>2 DEF LeasesBalance
    <2>4. PICK x : LeasesOf(m) = {x}
      BY <2>2, <2>3, FS_Singleton, ZenonT(60)
    <2> QED BY <2>1, <2>4
  <1>4. \A r \in reads : r.mapping # m
    BY <1>1 DEF ReadsResolve
  <1> HIDE DEF m
  <1>5. TablesOK'
    BY <1>1 DEF TablesOK
  <1>6. ThreadsOK' /\ MappingsHaveOrigin' /\ HandlesFit'
    BY <1>1, ZenonT(60) DEF ThreadsOK, MappingsHaveOrigin, IsOrigin, HandlesFit
  <1>7. \A n : LeasesOf(n)' = LeasesOf(n)
    BY <1>1, ZenonT(60) DEF LeasesOf
  <1>8. LeasesBalance'
    BY <1>1, <1>7, ZenonT(60) DEF LeasesBalance
  <1>9. ReleaseIsAlone'
    BY <1>1, <1>3, <1>4, <1>7, ZenonT(60) DEF ReleaseIsAlone, m
  <1>10. CallsAreLeased' /\ ReadsResolve'
    BY <1>1 DEF CallsAreLeased, ReadsResolve, Calls
  <1> QED BY <1>5, <1>6, <1>8, <1>9, <1>10

\* UnregisterFails: everything is as before the fence.
LEMMA UnregisterFailsRegistry ==
  ASSUME RegistryInv, UnregisterFails
  PROVE  RegistryInv'
  <1> USE DEF RegistryInv
  <1>1. /\ releasing' = 0 /\ mappings' = mappings /\ handles' = handles
        /\ next_mapping_id' = next_mapping_id /\ next_handle' = next_handle
        /\ registrations' = registrations /\ held' = held /\ generation' = generation
        /\ call' = call /\ reads' = reads
    BY DEF UnregisterFails
  <1>2. TablesOK'
    BY <1>1 DEF TablesOK
  <1>3. ThreadsOK' /\ MappingsHaveOrigin' /\ HandlesFit'
    BY <1>1, ZenonT(60) DEF ThreadsOK, MappingsHaveOrigin, IsOrigin, HandlesFit
  <1>4. \A n : LeasesOf(n)' = LeasesOf(n)
    BY <1>1 DEF LeasesOf
  <1>5. LeasesBalance'
    BY <1>1, <1>4, ZenonT(60) DEF LeasesBalance
  <1>6. ReleaseIsAlone' /\ CallsAreLeased' /\ ReadsResolve'
    BY <1>1 DEF ReleaseIsAlone, CallsAreLeased, ReadsResolve, Calls
  <1> QED BY <1>2, <1>3, <1>5, <1>6

--------------------------------------------------------------------------------
\* What AddLease does to the handles: one new handle on m.
LEMMA AddLeaseHandles ==
  ASSUME TablesOK, NEW o \in Owners, NEW t \in Tensors, NEW m \in Nat \ {0},
         NEW record, AddLease(o, t, m, record)
  PROVE  /\ next_handle \notin DOMAIN handles
         /\ DOMAIN handles' = DOMAIN handles \cup {next_handle}
         /\ handles' \in [DOMAIN handles' -> HandleRecord]
         /\ IsFiniteSet(DOMAIN handles')
         /\ handles'[next_handle] = [mapping |-> m, tensor |-> t, owner |-> o]
         /\ \A h \in DOMAIN handles : handles'[h] = handles[h]
  <1>2. next_handle \notin DOMAIN handles
    BY DEF TablesOK
  <1>3. [mapping |-> m, tensor |-> t, owner |-> o] \in HandleRecord
    BY DEF HandleRecord
  <1>4. /\ DOMAIN handles' = DOMAIN handles \cup {next_handle}
        /\ handles'[next_handle] = [mapping |-> m, tensor |-> t, owner |-> o]
        /\ \A h \in DOMAIN handles : handles'[h] = handles[h]
    BY <1>2, ZenonT(60) DEF AddLease
  <1>5. handles' \in [DOMAIN handles' -> HandleRecord]
    BY <1>3, <1>4 DEF AddLease, TablesOK
  <1>6. IsFiniteSet(DOMAIN handles')
    BY <1>4, FS_AddElement DEF TablesOK
  <1> QED BY <1>2, <1>4, <1>5, <1>6

\* A new lease changes nothing a waiting call or a submitted read depends on.
LEMMA AddLeaseReads ==
  ASSUME RegistryInv, NEW o \in Owners, NEW t \in Tensors, NEW m \in Nat \ {0},
         NEW record \in MappingRecord, AddLease(o, t, m, record), releasing' = 0,
         m \in DOMAIN mappings =>
           record.region = mappings[m].region /\ record.dev = mappings[m].dev,
         UNCHANGED <<held, generation, call, reads>>
  PROVE  ThreadsOK' /\ ReleaseIsAlone' /\ CallsAreLeased' /\ ReadsResolve'
  <1>0. /\ DOMAIN mappings' = DOMAIN mappings \cup {m}
        /\ mappings'[m] = record
        /\ \A i \in DOMAIN mappings : i # m => mappings'[i] = mappings[i]
    BY ZenonT(60) DEF AddLease
  <1>1. /\ DOMAIN handles' = DOMAIN handles \cup {next_handle}
        /\ \A h \in DOMAIN handles : handles'[h] = handles[h]
    BY AddLeaseHandles, ZenonT(60) DEF RegistryInv
  <1>2. /\ DOMAIN mappings \subseteq DOMAIN mappings'
        /\ \A i \in DOMAIN mappings :
              mappings'[i].region = mappings[i].region /\ mappings'[i].dev = mappings[i].dev
    BY <1>0, ZenonT(60)
  <1>3. ThreadsOK' /\ ReleaseIsAlone'
    BY ZenonT(60) DEF RegistryInv, ThreadsOK, ReleaseIsAlone
  <1>4. CallsAreLeased'
    BY <1>1 DEF RegistryInv, CallsAreLeased
  <1>5. ReadsResolve'
    BY <1>2 DEF RegistryInv, ReadsResolve, Calls
  <1> QED BY <1>3, <1>4, <1>5

\* ReuseMapping: one more lease, one more in the count.
LEMMA ReuseRegistry ==
  ASSUME RegistryInv, NEW o \in Owners, NEW t \in Tensors, NEW d \in Devices,
         releasing = 0, ReuseMapping(o, t, d), UNCHANGED <<releasing, held, generation, call, reads>>
  PROVE  RegistryInv'
  <1>1. PICK m : m \in Containing(t)
    BY ZenonT(60) DEF ReuseMapping
  <1>2. m = FirstMapping(t) /\ m \in DOMAIN mappings /\ Bytes[t] \subseteq mappings[m].region
    BY <1>1, LookupIsUnique, ZenonT(60) DEF Containing, RegistryInv
  <1>3. m \in Nat \ {0} /\ m < next_mapping_id /\ mappings[m] \in MappingRecord
    BY <1>2 DEF TablesOK, RegistryInv
  <1>4. PICK record : record = [region |-> mappings[m].region, dev |-> mappings[m].dev,
                                owned |-> mappings[m].owned,
                                count |-> mappings[m].count + 1,
                                alias |-> mappings[m].alias]
    BY ZenonT(60)
  <1>5. record \in MappingRecord
    BY <1>3, <1>4 DEF MappingRecord
  <1>6. /\ AddLease(o, t, m, record) /\ next_mapping_id' = next_mapping_id
        /\ registrations' = registrations /\ next_handle' = next_handle + 1
    BY <1>2, <1>4, ZenonT(60) DEF ReuseMapping, AddLease
  <1>7. /\ record.region = mappings[m].region /\ record.dev = mappings[m].dev
        /\ record.owned = mappings[m].owned /\ record.alias = mappings[m].alias
        /\ record.count = mappings[m].count + 1
    BY <1>4, ZenonT(60)
  <1>a. TablesOK
    BY DEF RegistryInv
  <1>b. /\ DOMAIN mappings' = DOMAIN mappings
        /\ mappings' \in [DOMAIN mappings' -> MappingRecord]
        /\ mappings'[m] = record
        /\ \A i \in DOMAIN mappings : i # m => mappings'[i] = mappings[i]
    BY <1>2, <1>5, <1>6, <1>a, ZenonT(60) DEF AddLease, TablesOK
  <1>c. /\ next_handle \notin DOMAIN handles
        /\ DOMAIN handles' = DOMAIN handles \cup {next_handle}
        /\ handles' \in [DOMAIN handles' -> HandleRecord]
        /\ IsFiniteSet(DOMAIN handles')
        /\ handles'[next_handle] = [mapping |-> m, tensor |-> t, owner |-> o]
        /\ \A h \in DOMAIN handles : handles'[h] = handles[h]
    BY <1>3, <1>6, <1>a, AddLeaseHandles, ZenonT(60)
  <1>d. /\ LeasesOf(m)' = LeasesOf(m) \cup {next_handle}
        /\ \A i : i # m => LeasesOf(i)' = LeasesOf(i)
    BY <1>c DEF LeasesOf
  <1>9. \A i \in DOMAIN mappings : /\ mappings'[i].region = mappings[i].region
                                   /\ mappings'[i].dev = mappings[i].dev
                                   /\ mappings'[i].owned = mappings[i].owned
                                   /\ mappings'[i].alias = mappings[i].alias
    BY <1>7, <1>b, <1>c, <1>d, ZenonT(60)
  <1>10. TablesOK'
    BY <1>6, <1>b, <1>c, <1>d DEF TablesOK, RegistryInv
  <1>11. ThreadsOK' /\ ReleaseIsAlone' /\ CallsAreLeased' /\ ReadsResolve'
    BY <1>3, <1>5, <1>6, <1>7, AddLeaseReads, ZenonT(60)
  <1>12. MappingsHaveOrigin'
    BY <1>b, <1>c, <1>d, <1>9 DEF MappingsHaveOrigin, IsOrigin, RegistryInv
  <1>13. HandlesFit'
    BY <1>2, <1>b, <1>c, <1>d, <1>9 DEF HandlesFit, LeasesBalance, RegistryInv
  <1>14. LeasesBalance'
    <2>1. \A h \in DOMAIN handles' : handles'[h].mapping \in DOMAIN mappings'
      BY <1>2, <1>b, <1>c, <1>d DEF LeasesBalance, RegistryInv
    <2>2. \A i \in DOMAIN mappings' :
             mappings'[i].count = Cardinality(LeasesOf(i)') /\ LeasesOf(i)' # {}
      <3> SUFFICES ASSUME NEW i \in DOMAIN mappings'
                   PROVE  mappings'[i].count = Cardinality(LeasesOf(i)') /\ LeasesOf(i)' # {}
        OBVIOUS
      <3>1. mappings[i].count = Cardinality(LeasesOf(i)) /\ LeasesOf(i) # {}
        BY <1>b, <1>c, <1>d, ZenonT(60) DEF LeasesBalance, RegistryInv
      <3>2. CASE i # m
        BY <3>1, <3>2, <1>b, <1>c, <1>d, ZenonT(60)
      <3>3. CASE i = m
        <4>1. LeasesOf(m) \subseteq DOMAIN handles
          BY DEF LeasesOf
        <4>2. IsFiniteSet(LeasesOf(m)) /\ next_handle \notin LeasesOf(m)
          BY <1>b, <1>c, <1>d, <4>1, FS_Subset, ZenonT(60) DEF TablesOK, RegistryInv
        <4>3. Cardinality(LeasesOf(m) \cup {next_handle}) = Cardinality(LeasesOf(m)) + 1
          BY <4>2, FS_AddElement, ZenonT(60)
        <4>4. LeasesOf(i)' = LeasesOf(m) \cup {next_handle} /\ mappings'[i].count = mappings[m].count + 1
          BY <1>7, <1>b, <1>c, <1>d, <3>3, ZenonT(60)
        <4> QED BY <3>1, <3>3, <4>3, <4>4, ZenonT(60)
      <3> QED BY <3>2, <3>3, ZenonT(60)
    <2>3. registrations' = {mappings'[i].region : i \in {n1 \in DOMAIN mappings' : mappings'[n1].owned}}
      BY <1>6, <1>b, <1>c, <1>d, <1>9 DEF LeasesBalance, RegistryInv
    <2>4. \A i, k \in DOMAIN mappings' : i # k => mappings'[i].region \cap mappings'[k].region = {}
      BY <1>b, <1>c, <1>d, <1>9, ZenonT(60) DEF LeasesBalance, RegistryInv
    <2> QED BY <2>1, <2>2, <2>3, <2>4, ZenonT(60) DEF LeasesBalance, RegistryInv
  <1> QED BY <1>10, <1>11, <1>12, <1>13, <1>14 DEF RegistryInv

\* A new mapping meets no other: another storage's pages are elsewhere, and in
\* the tensor's own storage check_no_partial_host_mapping_overlap_locked, which
\* looks at the tensor's bytes only, decides for its whole pages as well.
LEMMA NewRegionIsDisjoint ==
  ASSUME MappingsHaveOrigin, NEW t \in Tensors, ~Overlapped(t), NEW i \in DOMAIN mappings,
         NEW region, region = IF StorageOf[t] \in Pinned THEN Bytes[t] ELSE PageRange(t)
  PROVE  mappings[i].region \cap region = {}
  <1>1. PICK u \in Tensors : IsOrigin(i, u)
    BY ZenonT(60) DEF MappingsHaveOrigin
  <1>2. region \subseteq PageRange(t) /\ mappings[i].region \subseteq PageRange(u)
    BY <1>1, InPageRange, ZenonT(60) DEF IsOrigin
  <1>3. Bytes[t] \cap mappings[i].region = {}
    BY ZenonT(60) DEF Overlapped
  <1>4. CASE StorageOf[u] # StorageOf[t]
    BY <1>2, <1>4, TensorsAreMemory, ZenonT(60)
  <1>5. CASE StorageOf[u] = StorageOf[t] /\ StorageOf[t] \in Pinned
    BY <1>3, <1>5, ZenonT(60)
  <1>6. CASE StorageOf[u] = StorageOf[t] /\ StorageOf[t] \notin Pinned
    <2>1. mappings[i].region = PageRange(u)
      BY <1>1, <1>6, ZenonT(60) DEF IsOrigin
    <2>2. SUFFICES ASSUME NEW a \in region, a \in mappings[i].region PROVE FALSE
      OBVIOUS
    <2>3. PICK b \in Bytes[t] : PageOf[a] = PageOf[b]
      BY <1>6, <2>2, ZenonT(60) DEF PageRange
    <2>4. PICK c \in Bytes[u] : PageOf[a] = PageOf[c]
      BY <2>1, <2>2 DEF PageRange
    <2>5. b \in PageRange(u)
      BY <2>3, <2>4, InPageRange, ZenonT(60) DEF PageRange
    <2> QED BY <1>3, <2>1, <2>5, ZenonT(60)
  <1> QED BY <1>4, <1>5, <1>6, ZenonT(60)

\* BorrowMapping and OwnMapping: a mapping of its own for the new lease.
LEMMA CreateRegistry ==
  ASSUME RegistryInv, NEW o \in Owners, NEW t \in Tensors, NEW d \in Devices,
         releasing = 0, BorrowMapping(o, t, d) \/ OwnMapping(o, t, d),
         UNCHANGED <<releasing, held, generation, call, reads>>
  PROVE  RegistryInv'
  <1>1. PICK m : m = next_mapping_id
    OBVIOUS
  <1>2. PICK owned : owned = (StorageOf[t] \notin Pinned)
    OBVIOUS
  <1>3. PICK region : region = IF StorageOf[t] \in Pinned THEN Bytes[t] ELSE PageRange(t)
    OBVIOUS
  <1>4. PICK record : record = HostMapping(region, d, owned, t, 1)
    OBVIOUS
  <1>5. TablesOK /\ ThreadsOK /\ MappingsHaveOrigin /\ LeasesBalance /\ HandlesFit
    BY DEF RegistryInv
  <1>6. /\ ~Overlapped(t) /\ AddLease(o, t, m, record)
        /\ next_mapping_id' = next_mapping_id + 1 /\ next_handle' = next_handle + 1
        /\ registrations' = IF owned THEN registrations \cup {region} ELSE registrations
    BY <1>1, <1>2, <1>3, <1>4, ZenonT(60) DEF BorrowMapping, OwnMapping, AddLease
  <1>7. /\ m \in Nat \ {0} /\ m \notin DOMAIN mappings
        /\ Bytes[t] \subseteq region /\ region \subseteq Addr
    BY <1>1, <1>3, <1>5, InPageRange DEF TablesOK, PageRange
  <1>8. /\ record \in MappingRecord /\ record.region = region /\ record.count = 1
        /\ record.owned = owned /\ record.alias = generation[StorageOf[t]]
    <2>1. generation[StorageOf[t]] \in Nat
      BY <1>5, TensorsAreMemory DEF ThreadsOK
    <2>2. owned \in BOOLEAN
      BY <1>2
    <2> QED BY <1>4, <1>7, <2>1, <2>2, ZenonT(60) DEF HostMapping, MappingRecord
  <1>9. /\ DOMAIN mappings' = DOMAIN mappings \cup {m}
        /\ mappings' \in [DOMAIN mappings' -> MappingRecord]
        /\ mappings'[m] = record
        /\ \A i \in DOMAIN mappings : mappings'[i] = mappings[i]
    BY <1>5, <1>6, <1>7, <1>8 DEF AddLease, TablesOK
  <1>10. /\ next_handle \notin DOMAIN handles
         /\ DOMAIN handles' = DOMAIN handles \cup {next_handle}
         /\ handles' \in [DOMAIN handles' -> HandleRecord]
         /\ IsFiniteSet(DOMAIN handles')
         /\ handles'[next_handle] = [mapping |-> m, tensor |-> t, owner |-> o]
         /\ \A h \in DOMAIN handles : handles'[h] = handles[h]
    BY <1>5, <1>6, <1>7, AddLeaseHandles, ZenonT(60)
  <1>11. \A h \in DOMAIN handles : handles[h].mapping \in DOMAIN mappings
    BY <1>5, ZenonT(60) DEF LeasesBalance
  <1>12. LeasesOf(m)' = {next_handle} /\ \A i : i # m => LeasesOf(i)' = LeasesOf(i)
    BY <1>7, <1>10, <1>11 DEF LeasesOf
  <1>13. TablesOK'
    BY <1>1, <1>5, <1>6, <1>7, <1>9, <1>10 DEF TablesOK
  <1>14. ThreadsOK' /\ ReleaseIsAlone' /\ CallsAreLeased' /\ ReadsResolve'
    BY <1>6, <1>7, <1>8, AddLeaseReads, ZenonT(60)
  <1>15. MappingsHaveOrigin'
    <2>1. IsOrigin(m, t)'
      BY <1>2, <1>3, <1>8, <1>9, ZenonT(60) DEF IsOrigin
    <2>2. \A i \in DOMAIN mappings : \E u \in Tensors : IsOrigin(i, u)'
      BY <1>5, <1>9 DEF IsOrigin, MappingsHaveOrigin
    <2> QED BY <1>9, <2>1, <2>2 DEF MappingsHaveOrigin
  <1>16. HandlesFit'
    BY <1>5, <1>7, <1>8, <1>9, <1>10, <1>11 DEF HandlesFit
  <1>17. LeasesBalance'
    <2>1. \A h \in DOMAIN handles' : handles'[h].mapping \in DOMAIN mappings'
      BY <1>9, <1>10, <1>11
    <2>2. \A i \in DOMAIN mappings' :
             mappings'[i].count = Cardinality(LeasesOf(i)') /\ LeasesOf(i)' # {}
      <3>1. Cardinality({next_handle}) = 1
        BY FS_Singleton
      <3>2. mappings'[m].count = Cardinality(LeasesOf(m)') /\ LeasesOf(m)' # {}
        BY <1>8, <1>9, <1>12, <3>1, ZenonT(60)
      <3>3. \A i \in DOMAIN mappings :
               mappings'[i].count = Cardinality(LeasesOf(i)') /\ LeasesOf(i)' # {}
        BY <1>5, <1>7, <1>9, <1>12, ZenonT(60) DEF LeasesBalance
      <3> QED BY <1>9, <3>2, <3>3, ZenonT(60)
    <2>3. registrations' = {mappings'[i].region : i \in {n1 \in DOMAIN mappings' : mappings'[n1].owned}}
      BY <1>5, <1>6, <1>7, <1>8, <1>9 DEF LeasesBalance
    <2>4. \A i \in DOMAIN mappings : mappings[i].region \cap region = {}
      BY <1>3, <1>5, <1>6, NewRegionIsDisjoint, ZenonT(60)
    <2>5. \A i, k \in DOMAIN mappings' : i # k => mappings'[i].region \cap mappings'[k].region = {}
      BY <1>5, <1>8, <1>9, <2>4, ZenonT(60) DEF LeasesBalance
    <2> QED BY <2>1, <2>2, <2>3, <2>5, ZenonT(60) DEF LeasesBalance
  <1> QED BY <1>13, <1>14, <1>15, <1>16, <1>17, ZenonT(60) DEF RegistryInv

\* Removing a handle: the others keep their leases.
LEMMA RemoveHandleTables ==
  ASSUME TablesOK, NEW h \in DOMAIN handles, RemoveHandle(h)
  PROVE  /\ DOMAIN handles' = DOMAIN handles \ {h}
         /\ handles' \in [DOMAIN handles' -> HandleRecord]
         /\ IsFiniteSet(DOMAIN handles')
         /\ \A g \in DOMAIN handles' : handles'[g] = handles[g]
  <1>1. /\ DOMAIN handles' = DOMAIN handles \ {h}
        /\ \A g \in DOMAIN handles' : handles'[g] = handles[g]
    BY DEF RemoveHandle
  <1>2. handles' \in [DOMAIN handles' -> HandleRecord]
    BY <1>1 DEF RemoveHandle, TablesOK
  <1>3. IsFiniteSet(DOMAIN handles')
    BY <1>1, FS_Subset DEF TablesOK
  <1> QED BY <1>1, <1>2, <1>3

\* A mapping with one lease less.
LEMMA LeaseGivenBack ==
  ASSUME NEW old \in MappingRecord, old.count > 1, NEW record,
         record = [region |-> old.region, dev |-> old.dev, owned |-> old.owned,
                   count |-> old.count - 1, alias |-> old.alias]
  PROVE  /\ record \in MappingRecord /\ record.count = old.count - 1
         /\ record.region = old.region /\ record.dev = old.dev
         /\ record.owned = old.owned /\ record.alias = old.alias
  BY DEF MappingRecord

\* ReleaseShared: one lease less, one less in the count, the mapping stays.
LEMMA ReleaseSharedRegistry ==
  ASSUME RegistryInv, NEW o \in Owners, NEW h \in DOMAIN handles, NEW d \in Devices,
         ReleaseShared(o, h, d)
  PROVE  RegistryInv'
  <1>1. PICK m : m = handles[h].mapping
    OBVIOUS
  <1>2. TablesOK /\ ThreadsOK /\ MappingsHaveOrigin /\ LeasesBalance /\ HandlesFit
        /\ CallsAreLeased /\ ReadsResolve
    BY DEF RegistryInv
  <1>3. m \in DOMAIN mappings /\ mappings[m] \in MappingRecord
    BY <1>1, <1>2, ZenonT(60) DEF LeasesBalance, TablesOK
  <1>4. /\ releasing = 0 /\ releasing' = 0 /\ call[o] = NoCall /\ handles[h].owner = o
        /\ mappings[m].count > 1 /\ RemoveHandle(h)
        /\ next_mapping_id' = next_mapping_id /\ next_handle' = next_handle
        /\ registrations' = registrations /\ held' = held /\ generation' = generation
        /\ call' = call /\ reads' = reads
    BY <1>1, ZenonT(60) DEF ReleaseShared
  <1>5. PICK record : record = [region |-> mappings[m].region, dev |-> mappings[m].dev,
                                owned |-> mappings[m].owned,
                                count |-> mappings[m].count - 1,
                                alias |-> mappings[m].alias]
    BY ZenonT(60)
  <1>6. /\ record \in MappingRecord /\ record.count = mappings[m].count - 1
        /\ record.region = mappings[m].region /\ record.dev = mappings[m].dev
        /\ record.owned = mappings[m].owned /\ record.alias = mappings[m].alias
    BY <1>3, <1>4, <1>5, LeaseGivenBack
  <1>7. mappings' = [i \in DOMAIN mappings |-> IF i # m THEN mappings[i] ELSE record]
    BY <1>1, <1>5, ZenonT(60) DEF ReleaseShared
  <1>8. /\ DOMAIN mappings' = DOMAIN mappings /\ mappings' \in [DOMAIN mappings' -> MappingRecord]
        /\ mappings'[m] = record
        /\ \A i \in DOMAIN mappings : i # m => mappings'[i] = mappings[i]
    BY <1>2, <1>3, <1>6, <1>7 DEF TablesOK
  <1>9. \A i \in DOMAIN mappings : /\ mappings'[i].region = mappings[i].region
                                   /\ mappings'[i].dev = mappings[i].dev
                                   /\ mappings'[i].owned = mappings[i].owned
                                   /\ mappings'[i].alias = mappings[i].alias
    BY <1>6, <1>8
  <1>10. /\ DOMAIN handles' = DOMAIN handles \ {h}
         /\ handles' \in [DOMAIN handles' -> HandleRecord]
         /\ IsFiniteSet(DOMAIN handles')
         /\ \A g \in DOMAIN handles' : handles'[g] = handles[g]
    BY <1>2, <1>4, RemoveHandleTables, ZenonT(60)
  <1>11. LeasesOf(m)' = LeasesOf(m) \ {h} /\ \A i : i # m => LeasesOf(i)' = LeasesOf(i)
    BY <1>1, <1>10 DEF LeasesOf
  <1>12. TablesOK'
    BY <1>2, <1>4, <1>8, <1>10, ZenonT(60) DEF TablesOK
  <1>13. ThreadsOK' /\ ReleaseIsAlone'
    BY <1>2, <1>4, ZenonT(60) DEF ThreadsOK, ReleaseIsAlone
  <1>14. CallsAreLeased'
    BY <1>2, <1>4, <1>10 DEF CallsAreLeased
  <1>15. ReadsResolve'
    BY <1>2, <1>4, <1>8, <1>9 DEF ReadsResolve, Calls
  <1>16. MappingsHaveOrigin'
    BY <1>2, <1>4, <1>8, <1>9 DEF MappingsHaveOrigin, IsOrigin
  <1>17. HandlesFit'
    BY <1>2, <1>9, <1>10 DEF HandlesFit, LeasesBalance
  <1>18. LeasesBalance'
    <2>1. \A g \in DOMAIN handles' : handles'[g].mapping \in DOMAIN mappings'
      BY <1>2, <1>8, <1>10, ZenonT(60) DEF LeasesBalance
    <2>2. mappings'[m].count = Cardinality(LeasesOf(m)') /\ LeasesOf(m)' # {}
      <3>1. mappings[m].count = Cardinality(LeasesOf(m))
        BY <1>2, <1>3, ZenonT(60) DEF LeasesBalance
      <3>2. LeasesOf(m) \subseteq DOMAIN handles /\ h \in LeasesOf(m)
        BY <1>1 DEF LeasesOf
      <3>3. IsFiniteSet(LeasesOf(m))
        BY <1>2, <3>2, FS_Subset, ZenonT(60) DEF TablesOK
      <3>4. Cardinality(LeasesOf(m) \ {h}) = Cardinality(LeasesOf(m)) - 1
        BY <3>2, <3>3, FS_RemoveElement, ZenonT(60)
      <3>5. LeasesOf(m) # {h}
        <4>1. Cardinality({h}) = 1
          BY FS_Singleton
        <4>2. Cardinality(LeasesOf(m)) > 1
          BY <1>4, <3>1, ZenonT(60)
        <4> QED BY <4>1, <4>2
      <3>6. mappings'[m].count = Cardinality(LeasesOf(m) \ {h})
        BY <1>6, <1>8, <3>1, <3>4, ZenonT(60)
      <3> QED BY <1>11, <3>2, <3>5, <3>6
    <2>3. \A i \in DOMAIN mappings' :
             mappings'[i].count = Cardinality(LeasesOf(i)') /\ LeasesOf(i)' # {}
      BY <1>2, <1>8, <1>11, <2>2, ZenonT(60) DEF LeasesBalance
    <2>4. registrations' = {mappings'[i].region : i \in {n1 \in DOMAIN mappings' : mappings'[n1].owned}}
      BY <1>2, <1>4, <1>8, <1>9 DEF LeasesBalance
    <2>5. \A i, k \in DOMAIN mappings' : i # k => mappings'[i].region \cap mappings'[k].region = {}
      BY <1>2, <1>8, <1>9, ZenonT(60) DEF LeasesBalance
    <2> QED BY <2>1, <2>3, <2>4, <2>5, ZenonT(60) DEF LeasesBalance
  <1> QED BY <1>12, <1>13, <1>14, <1>15, <1>16, <1>17, <1>18, ZenonT(60) DEF RegistryInv

\* ReleaseLast: the mapping goes with its only lease.  Its region is not empty
\* and meets no other, so exactly its own registration is taken back; nothing in
\* flight refers to it.
LEMMA ReleaseLastRegistry ==
  ASSUME RegistryInv, ReleaseLast
  PROVE  RegistryInv'
  <1>1. PICK h : h = releasing
    OBVIOUS
  <1>2. PICK m : m = handles[h].mapping
    OBVIOUS
  <1>3. TablesOK /\ ThreadsOK /\ MappingsHaveOrigin /\ LeasesBalance /\ HandlesFit
        /\ ReleaseIsAlone /\ CallsAreLeased /\ ReadsResolve
    BY DEF RegistryInv
  <1>4. h # 0 /\ h \in DOMAIN handles /\ m \in DOMAIN mappings
    BY <1>1, <1>2, <1>3, ZenonT(60) DEF ReleaseLast, TablesOK, LeasesBalance
  <1>5. /\ registrations' = IF mappings[m].owned THEN registrations \ {mappings[m].region}
                                                 ELSE registrations
        /\ mappings' = [i \in DOMAIN mappings \ {m} |-> mappings[i]]
        /\ RemoveHandle(h) /\ releasing' = 0
        /\ next_mapping_id' = next_mapping_id /\ next_handle' = next_handle
        /\ held' = held /\ generation' = generation /\ call' = call /\ reads' = reads
    BY <1>1, <1>2, ZenonT(60) DEF ReleaseLast
  <1>6. /\ LeasesOf(m) = {h} /\ call[handles[h].owner] = NoCall
        /\ \A r \in reads : r.mapping # m
    BY <1>1, <1>2, <1>3, <1>4, ZenonT(60) DEF ReleaseIsAlone
  <1>7. \A g \in DOMAIN handles : g # h => handles[g].mapping # m
    BY <1>6 DEF LeasesOf
  <1>8. /\ DOMAIN mappings' = DOMAIN mappings \ {m}
        /\ mappings' \in [DOMAIN mappings' -> MappingRecord]
        /\ \A i \in DOMAIN mappings' : mappings'[i] = mappings[i]
    BY <1>3, <1>5 DEF TablesOK
  <1>9. /\ DOMAIN handles' = DOMAIN handles \ {h}
        /\ handles' \in [DOMAIN handles' -> HandleRecord]
        /\ IsFiniteSet(DOMAIN handles')
        /\ \A g \in DOMAIN handles' : handles'[g] = handles[g]
    BY <1>3, <1>4, <1>5, RemoveHandleTables
  <1>10. \A o \in Owners : call[o] # NoCall => call[o].mapping # m
    BY <1>3, <1>6, <1>7 DEF CallsAreLeased
  <1>11. \A i : i # m => LeasesOf(i)' = LeasesOf(i)
    BY <1>2, <1>9 DEF LeasesOf
  <1>12. TablesOK'
    BY <1>3, <1>5, <1>8, <1>9, ZenonT(60) DEF TablesOK
  <1>13. ThreadsOK' /\ ReleaseIsAlone'
    BY <1>3, <1>5, ZenonT(60) DEF ThreadsOK, ReleaseIsAlone
  <1>14. CallsAreLeased'
    BY <1>2, <1>3, <1>5, <1>9, <1>10 DEF CallsAreLeased
  <1>15. ReadsResolve'
    BY <1>3, <1>5, <1>6, <1>8, <1>10 DEF ReadsResolve, Calls
  <1>16. MappingsHaveOrigin'
    BY <1>3, <1>5, <1>8 DEF MappingsHaveOrigin, IsOrigin
  <1>17. HandlesFit'
    BY <1>3, <1>7, <1>8, <1>9 DEF HandlesFit, LeasesBalance
  <1>18. LeasesBalance'
    <2>1. \A g \in DOMAIN handles' : handles'[g].mapping \in DOMAIN mappings'
      BY <1>3, <1>7, <1>8, <1>9, ZenonT(60) DEF LeasesBalance
    <2>2. \A i \in DOMAIN mappings' :
             mappings'[i].count = Cardinality(LeasesOf(i)') /\ LeasesOf(i)' # {}
      BY <1>3, <1>8, <1>11 DEF LeasesBalance
    <2>3. mappings[m].region # {}
      <3>1. handles[h].tensor \in Tensors /\ Bytes[handles[h].tensor] \subseteq mappings[m].region
        BY <1>2, <1>3, <1>4 DEF TablesOK, HandleRecord, HandlesFit
      <3> QED BY <3>1, InPageRange, ZenonT(60)
    <2>4. \A i \in DOMAIN mappings' : mappings[i].region # mappings[m].region
      BY <1>3, <1>4, <1>8, <2>3 DEF LeasesBalance
    <2>5. registrations' = {mappings'[i].region : i \in {n1 \in DOMAIN mappings' : mappings'[n1].owned}}
      <3>1. registrations = {mappings[i].region : i \in {n1 \in DOMAIN mappings : mappings[n1].owned}}
        BY <1>3, ZenonT(60) DEF LeasesBalance
      <3>2. \A x : x \in registrations <=> \E i \in DOMAIN mappings : mappings[i].owned /\ x = mappings[i].region
        BY <3>1
      <3>3. \A x : x \in registrations' <=> \E i \in DOMAIN mappings' : mappings'[i].owned /\ x = mappings'[i].region
        BY <1>4, <1>5, <1>8, <2>4, <3>2
      <3> QED BY <3>3
    <2>6. \A i, k \in DOMAIN mappings' : i # k => mappings'[i].region \cap mappings'[k].region = {}
      BY <1>3, <1>8 DEF LeasesBalance
    <2> QED BY <2>1, <2>2, <2>5, <2>6, ZenonT(60) DEF LeasesBalance
  <1> QED BY <1>12, <1>13, <1>14, <1>15, <1>16, <1>17, <1>18, ZenonT(60) DEF RegistryInv

--------------------------------------------------------------------------------
\* Every step of the registry, its callers and the device keeps the invariant.
LEMMA NextRegistry == RegistryInv /\ [RegistryNext]_vars => RegistryInv'
  <1> SUFFICES ASSUME RegistryInv, [RegistryNext]_vars PROVE RegistryInv'
    OBVIOUS
  <1>1. ASSUME NEW o \in Owners, OwnerStep(o) PROVE RegistryInv'
    <2>1. ASSUME NEW s \in Storages, Obtain(o, s) \/ Drop(o, s) PROVE RegistryInv'
      BY <2>1, ObtainRegistry, DropRegistry
    <2>2. ASSUME NEW t \in Tensors, NEW d \in Devices, RegisterPool(o, t, d) PROVE RegistryInv'
      BY <2>2, ReuseRegistry, CreateRegistry, ZenonT(60) DEF RegisterPool
    <2>3. ASSUME NEW t \in Tensors, NEW d \in Devices, ResolveAlias(o, t, d) PROVE RegistryInv'
      BY <2>3, ResolveRegistry
    <2>4. ASSUME NEW h \in DOMAIN handles, NEW d \in Devices,
                 ReleaseShared(o, h, d) \/ FenceLast(o, h, d)
          PROVE  RegistryInv'
      BY <2>4, ReleaseSharedRegistry, FenceRegistry
    <2>5. ASSUME SubmitGather(o) PROVE RegistryInv'
      BY <2>5, SubmitRegistry
    <2>6. ASSUME GatherRaises(o) PROVE RegistryInv'
      <3>1. call \in [Owners -> {NoCall} \cup ReadRecord]
        BY DEF RegistryInv, ThreadsOK
      <3>2. /\ UNCHANGED <<registryVars, held, generation>> /\ reads' \subseteq reads
            /\ call' = [call EXCEPT ![o] = NoCall]
        BY <2>6 DEF GatherRaises
      <3>3. /\ call' \in [Owners -> {NoCall} \cup ReadRecord]
            /\ \A p \in Owners : call'[p] = call[p] \/ call'[p] = NoCall
        BY <3>1, <3>2
      <3> QED BY <3>2, <3>3, GatherEndsRegistry
    <2> QED BY <1>1, <2>1, <2>2, <2>3, <2>4, <2>5, <2>6, ZenonT(60) DEF OwnerStep
  <1>2. CASE ReleaseLast
    BY <1>2, ReleaseLastRegistry
  <1>3. CASE UnregisterFails
    BY <1>3, UnregisterFailsRegistry
  <1>4. ASSUME NEW r \in reads, DeviceFinishes(r) PROVE RegistryInv'
    BY <1>4, GatherEndsRegistry, ZenonT(60) DEF DeviceFinishes, RegistryInv, ThreadsOK
  <1>5. CASE UNCHANGED vars
    BY <1>5, GatherEndsRegistry DEF vars, RegistryInv, ThreadsOK
  <1> QED BY <1>1, <1>2, <1>3, <1>4, <1>5 DEF RegistryNext

\* The leases, the mappings and the driver's registrations always agree: the
\* count of a mapping is the number of its live handles, and what the registry
\* has registered is exactly what its owned mappings cover
\* (register_explicit_mapped_host_range, unregister_kv_cache_block_gather_host_pool).
THEOREM RegistryBalances == RegistrySpec => []LeasesBalance
  <1>1. RegistryInv => LeasesBalance
    BY DEF RegistryInv
  <1> QED BY <1>1, InitRegistry, NextRegistry, PTL DEF RegistrySpec

\* No gather, from alias lookup to the end of the device's work, ever reads
\* through a mapping that is gone, unregistered or of an earlier allocation.
THEOREM GathersReadLiveMappings == RegistrySpec => []ReadsAreLive
  BY InitRegistry, NextRegistry, InvariantReadsAreLive, PTL DEF RegistrySpec
--------------------------------------------------------------------------------
(* The leases of the handler on the registry.                                   *)

Closing == phase \in {"closing", "rollback"}

Known(s) == {s[i] : i \in 1..Len(s)}
Once(s) == \A i, k \in 1..Len(s) : i # k => s[i] # s[k]

\* The handles the handler knows of are the leases there are; a close in
\* progress has taken them over, and what failed is apart from what is to come.
KnowsItsLeases ==
  IF Closing
    THEN /\ Once(closing) /\ Once(failed_handles)
         /\ Known(closing) \cap Known(failed_handles) = {}
         /\ DOMAIN handles = Known(closing) \cup Known(failed_handles)
    ELSE Once(mapped_handles) /\ DOMAIN handles = Known(mapped_handles)

LeasesOK ==
  /\ phase \in {"registering", "open", "draining", "closing", "rollback", "closed", "failed"}
  /\ IsSeq(mapped_handles) /\ IsSeq(closing) /\ IsSeq(failed_handles)
  /\ phase = "closed" => mapped_handles = << >>
  /\ releasing # 0 => Closing /\ closing # << >> /\ releasing = Last(closing)
  /\ \A o \in Owners : call[o] = NoCall
  /\ phase = "registering" => Len(mapped_handles) < Len(Pools)
  /\ phase = "registering" /\ held[Worker] = {} => mapped_handles = << >>

\* Only an open handler has work, and only a draining one still has.
IdleOK ==
  phase \notin {"open", "draining"} =>
    \A d \in Directions : transfers[d] = << >> /\ device[d] = << >>

HandlerInv == RegistryInv /\ KnowsItsLeases /\ LeasesOK /\ IdleOK

\* The members of longer and shorter lists.
LEMMA KnownAppend ==
  ASSUME NEW s, IsSeq(s), NEW e
  PROVE  /\ Known(Append(s, e)) = Known(s) \cup {e}
         /\ Once(s) /\ e \notin Known(s) => Once(Append(s, e))
  <1> DEFINE q == Append(s, e)
  <1>1. /\ Len(s) \in Nat /\ Len(q) = Len(s) + 1
        /\ \A i \in 1..Len(s) : q[i] = s[i]
        /\ q[Len(s) + 1] = e
    BY AppendIs, SeqIs
  <1> HIDE DEF q
  <1>2. \A i \in 1..Len(q) : (i \in 1..Len(s) /\ q[i] = s[i]) \/ (i = Len(s) + 1 /\ q[i] = e)
    BY <1>1
  <1>3. (\A i \in 1..Len(s) : i \in 1..Len(q)) /\ Len(s) + 1 \in 1..Len(q)
    BY <1>1
  <1>4. Known(q) = Known(s) \cup {e}
    BY <1>1, <1>2, <1>3 DEF Known
  <1>5. ASSUME Once(s), e \notin Known(s) PROVE Once(q)
    <2>1. \A i \in 1..Len(s) : s[i] # e
      BY <1>5 DEF Known
    <2> QED
      BY <1>2, <1>5, <2>1 DEF Once
  <1> QED
    BY <1>4, <1>5 DEF q

\* Taking the last lease off a list takes exactly that lease away.
LEMMA KnownFront ==
  ASSUME NEW s, IsSeq(s), s # << >>, Once(s)
  PROVE  /\ Last(s) \in Known(s)
         /\ Known(Front(s)) = Known(s) \ {Last(s)}
         /\ Once(Front(s)) /\ IsSeq(Front(s))
  <1> DEFINE q == Front(s)
  <1>1. /\ IsSeq(q) /\ Len(q) = Len(s) - 1 /\ Len(s) \in Nat \ {0}
        /\ \A i \in 1..(Len(s) - 1) : q[i] = s[i]
        /\ Last(s) = s[Len(s)]
    BY FrontIs
  <1> HIDE DEF q
  <1>2. \A i \in 1..Len(s) : i \in 1..Len(q) \/ i = Len(s)
    BY <1>1
  <1>3. \A i \in 1..Len(q) : i \in 1..Len(s) /\ i # Len(s) /\ q[i] = s[i]
    BY <1>1
  <1>4. Len(s) \in 1..Len(s)
    BY <1>1
  <1>5. \A i \in 1..Len(q) : q[i] # Last(s)
    BY <1>1, <1>3, <1>4 DEF Once
  <1>6. Known(q) = Known(s) \ {Last(s)}
    BY <1>1, <1>2, <1>3, <1>5 DEF Known
  <1>7. Once(q)
    BY <1>3 DEF Once
  <1> QED
    BY <1>1, <1>4, <1>6, <1>7, ZenonT(60) DEF Known, q

\* An empty list holds no lease.
LEMMA KnownEmpty ==
  IsSeq(<< >>) /\ Known(<< >>) = {} /\ Once(<< >>)
  <1>1. << >> \in Seq({}) /\ (\A i \in 1..Len(<< >>) : FALSE)
    OBVIOUS
  <1> QED
    BY <1>1 DEF IsSeq, Known, Once

--------------------------------------------------------------------------------
\* Without leases the registry is empty, and so is the device's reading list.
LEMMA NoLeaseNoMapping ==
  ASSUME RegistryInv, DOMAIN handles = {}
  PROVE  DOMAIN mappings = {} /\ registrations = {} /\ reads = {}
  <1>1. \A m : LeasesOf(m) = {}
    BY DEF LeasesOf
  <1>2. DOMAIN mappings = {}
    BY <1>1, ZenonT(60) DEF RegistryInv, LeasesBalance
  <1>3. registrations = {}
    BY <1>2 DEF RegistryInv, LeasesBalance
  <1>4. reads = {}
    BY <1>2 DEF RegistryInv, ReadsResolve
  <1> QED
    BY <1>2, <1>3, <1>4

\* Which owner holds what is no matter to the registry: its leases keep the tensors.
LEMMA HeldRegistry ==
  ASSUME RegistryInv, UNCHANGED <<registryVars, generation, call, reads>>,
         held' \in [Owners -> SUBSET Storages]
  PROVE  RegistryInv'
  <1> USE DEF RegistryInv
  <1>1. TablesOK' /\ MappingsHaveOrigin' /\ HandlesFit' /\ LeasesBalance'
    BY TablesUnchanged, OriginsUnchanged
  <1>2. ThreadsOK'
    BY ZenonT(60) DEF ThreadsOK, IsRead
  <1>3. ReleaseIsAlone' /\ CallsAreLeased' /\ ReadsResolve'
    BY DEF registryVars, ReleaseIsAlone, CallsAreLeased, ReadsResolve, Calls, LeasesOf
  <1> QED
    BY <1>1, <1>2, <1>3

\* _run_mapped_gather: each gather resolves to a live mapping of the device.
LEMMA GathersResolve ==
  ASSUME RegistryInv, NEW j, NEW k \in 0..Len(Pools), Resolvable(k), NEW r \in GatherReads(j, k)
  PROVE  /\ IsRead(r) /\ r.mapping \in DOMAIN mappings
         /\ Bytes[r.tensor] \subseteq mappings[r.mapping].region
         /\ mappings[r.mapping].dev = r.dev
  <1>1. PICK i \in 1..k : r = [mapping |-> FirstMapping(Pools[i]), tensor |-> Pools[i], dev |-> Device,
          alias |-> mappings[FirstMapping(Pools[i])].alias, job |-> j]
    BY ZenonT(60) DEF GatherReads
  <1> DEFINE t == Pools[i]
  <1>2. t \in Tensors /\ Device \in Devices
    <2>1. Pools \in Seq(Tensors) /\ Len(Pools) \in Nat
      BY OffloadAssumption
    <2>2. i \in 1..Len(Pools)
      BY <2>1
    <2> QED
      BY <2>1, <2>2, OffloadAssumption, ElementOfSeq, ZenonT(60)
  <1>3. Containing(t) # {} /\ mappings[FirstMapping(t)].dev = Device
    BY DEF Resolvable
  <1>4. r.mapping = FirstMapping(t) /\ r.tensor = t /\ r.dev = Device
    BY <1>1
  <1> HIDE DEF t
  <1>5. PICK m \in Containing(t) : TRUE
    BY <1>3
  <1>6. FirstMapping(t) = m
    BY <1>2, LookupIsUnique DEF RegistryInv
  <1>7. m \in DOMAIN mappings /\ Bytes[t] \subseteq mappings[m].region
    BY DEF Containing
  <1>8. m \in Nat \ {0}
    BY <1>7 DEF RegistryInv, TablesOK
  <1> QED
    BY <1>2, <1>3, <1>4, <1>6, <1>7, <1>8, ZenonT(60) DEF IsRead

\* ... so that submitting it keeps the registry's invariant.
LEMMA GatherSubmitted ==
  ASSUME RegistryInv, releasing = 0, NEW j, NEW k \in 0..Len(Pools), Resolvable(k),
         UNCHANGED <<registryVars, held, generation, call>>, reads' = reads \cup GatherReads(j, k)
  PROVE  RegistryInv'
  <1> USE DEF RegistryInv
  <1>1. TablesOK' /\ MappingsHaveOrigin' /\ HandlesFit' /\ LeasesBalance'
    BY TablesUnchanged, OriginsUnchanged, ZenonT(60)
  <1>2. \A r \in GatherReads(j, k) :
          /\ IsRead(r) /\ r.mapping \in DOMAIN mappings
          /\ Bytes[r.tensor] \subseteq mappings[r.mapping].region
          /\ mappings[r.mapping].dev = r.dev
    BY GathersResolve
  <1>3. ThreadsOK'
    BY <1>2 DEF ThreadsOK, IsRead
  <1>4. ReleaseIsAlone' /\ CallsAreLeased'
    BY ZenonT(60) DEF registryVars, ReleaseIsAlone, CallsAreLeased
  <1>5. ReadsResolve'
    <2> SUFFICES ASSUME NEW r \in (reads \cup Calls)'
                 PROVE  /\ r.mapping \in DOMAIN mappings
                        /\ Bytes[r.tensor] \subseteq mappings[r.mapping].region
                        /\ mappings[r.mapping].dev = r.dev
      BY DEF ReadsResolve, registryVars
    <2>1. r \in reads \cup Calls \/ r \in GatherReads(j, k)
      BY DEF Calls
    <2> QED
      BY <1>2, <2>1, ZenonT(60) DEF ReadsResolve
  <1> QED
    BY <1>1, <1>3, <1>4, <1>5, ZenonT(60)

\* A step that leaves the registry's tables and the handler's lists alone.
ListsUnchanged ==
  UNCHANGED <<mappings, handles, releasing, call, mapped_handles, closing, failed_handles>>

\* The leases of the handler stay in order while its lists stay as they are.
LEMMA LeasesUnchanged ==
  ASSUME KnowsItsLeases, LeasesOK, ListsUnchanged,
         \/ phase' = phase /\ (held'[Worker] = {} => held[Worker] = {})
         \/ phase' \in {"open", "draining"} /\ phase \in {"open", "draining"}
  PROVE  KnowsItsLeases' /\ LeasesOK'
  <1> USE DEF ListsUnchanged
  <1>1. /\ Known(mapped_handles)' = Known(mapped_handles) /\ Once(mapped_handles)' = Once(mapped_handles)
        /\ Known(closing)' = Known(closing) /\ Once(closing)' = Once(closing)
        /\ Known(failed_handles)' = Known(failed_handles)
        /\ Once(failed_handles)' = Once(failed_handles)
    BY DEF Known, Once
  <1>2. KnowsItsLeases'
    BY <1>1 DEF KnowsItsLeases, Closing
  <1>3. IsSeq(mapped_handles') /\ IsSeq(closing') /\ IsSeq(failed_handles')
    BY ZenonT(60) DEF LeasesOK
  <1>4. LeasesOK'
    BY <1>3 DEF LeasesOK, Closing, IsSeq
  <1> QED
    BY <1>2, <1>4, ZenonT(60)

\* The allocation loop: nothing is leased yet.
LEMMA AllocateKeeps ==
  ASSUME HandlerInv, AllocatePools
  PROVE  HandlerInv'
  <1> DEFINE mine == {StorageOf[Pools[i]] : i \in DOMAIN Pools}
  <1>1. /\ phase = "registering" /\ held[Worker] = {}
        /\ held' = [held EXCEPT ![Worker] = mine]
        /\ generation' = [s \in Storages |-> IF s \in mine THEN generation[s] + 1 ELSE generation[s]]
        /\ UNCHANGED <<registryVars, call, reads, handlerVars>>
    BY ZenonT(60) DEF AllocatePools
  <1>2. RegistryInv /\ mapped_handles = << >> /\ KnowsItsLeases
    BY <1>1, ZenonT(60) DEF HandlerInv, LeasesOK
  <1>3. DOMAIN handles = {}
    BY <1>1, <1>2, KnownEmpty, ZenonT(60) DEF KnowsItsLeases, Closing
  <1>4. DOMAIN mappings = {} /\ reads = {}
    BY <1>2, <1>3, NoLeaseNoMapping
  <1>5. mine \subseteq Storages
    <2>1. Pools \in Seq(Tensors)
      BY OffloadAssumption
    <2>2. \A i \in DOMAIN Pools : Pools[i] \in Tensors
      BY <2>1
    <2> QED
      BY <2>2, TensorsAreMemory
  <1> HIDE DEF mine
  <1>6. RegistryInv'
    <2> USE DEF RegistryInv
    <2>1. TablesOK' /\ HandlesFit' /\ LeasesBalance'
      BY <1>1, <1>2, TablesUnchanged, ZenonT(60)
    <2>2. MappingsHaveOrigin' /\ ReleaseIsAlone' /\ CallsAreLeased'
      BY <1>1, <1>2, <1>4, ZenonT(60) DEF MappingsHaveOrigin, ReleaseIsAlone, CallsAreLeased, registryVars, LeasesOf
    <2>3. ReadsResolve'
      BY <1>1, <1>2, ZenonT(60) DEF ReadsResolve, Calls, registryVars
    <2>4. ThreadsOK'
      <3>1. held' \in [Owners -> SUBSET Storages]
        BY <1>1, <1>2, <1>5, ZenonT(60) DEF ThreadsOK
      <3>2. generation' \in [Storages -> Nat]
        BY <1>1, <1>2 DEF ThreadsOK
      <3> QED
        BY <1>1, <1>2, <3>1, <3>2 DEF ThreadsOK, IsRead
    <2> QED
      BY <2>1, <2>2, <2>3, <2>4
  <1>7. /\ KnowsItsLeases /\ LeasesOK /\ ListsUnchanged /\ phase' = phase
        /\ held'[Worker] = {} => held[Worker] = {}
    BY <1>1 DEF HandlerInv, ListsUnchanged, registryVars, handlerVars
  <1>8. KnowsItsLeases' /\ LeasesOK'
    BY <1>7, LeasesUnchanged, ZenonT(60)
  <1>9. IdleOK'
    BY <1>1 DEF HandlerInv, IdleOK, handlerVars, Directions
  <1> QED
    BY <1>6, <1>8, <1>9 DEF HandlerInv

\* One turn of the registration loop: one more lease, at the end of the list.
LEMMA RegisterKeeps ==
  ASSUME HandlerInv, RegisterNext
  PROVE  HandlerInv'
  <1> DEFINE i == Len(mapped_handles) + 1
  <1>1. /\ phase = "registering" /\ held[Worker] # {} /\ RegisterPool(Worker, Pools[i], Device)
        /\ mapped_handles' = Append(mapped_handles, next_handle)
        /\ phase' = IF i = Len(Pools) THEN "open" ELSE "registering"
        /\ UNCHANGED <<closing, failed_handles, transfers, poisoned, lane_pool,
                       buffer_pool, device, next_job, results>>
    BY DEF RegisterNext
  <1>2. RegistryInv /\ KnowsItsLeases /\ LeasesOK /\ IdleOK
    BY DEF HandlerInv
  <1>3. /\ Len(mapped_handles) \in Nat /\ Len(Pools) \in Nat /\ i \in 1..Len(Pools)
        /\ Pools[i] \in Tensors
    <2>1. Len(mapped_handles) \in Nat /\ Len(mapped_handles) < Len(Pools)
      BY <1>1, <1>2, SeqIs DEF LeasesOK
    <2>2. Pools \in Seq(Tensors) /\ Len(Pools) \in Nat
      BY OffloadAssumption
    <2>3. i \in 1..Len(Pools)
      BY <2>1, <2>2
    <2> HIDE DEF i
    <2> QED
      BY <2>1, <2>2, <2>3, ElementOfSeq, ZenonT(60)
  <1> HIDE DEF i
  <1>4. RegistryInv'
    <2>1. RegistryNext
      BY <1>1, <1>3, OffloadAssumption, ZenonT(60) DEF RegistryNext, OwnerStep
    <2> QED
      BY <1>2, <2>1, NextRegistry
  <1>5. /\ DOMAIN handles' = DOMAIN handles \cup {next_handle} /\ next_handle \notin DOMAIN handles
        /\ releasing = 0 /\ releasing' = 0 /\ call' = call /\ held' = held
    <2>1. next_handle \notin DOMAIN handles
      BY <1>2 DEF RegistryInv, TablesOK
    <2>2. DOMAIN handles' = DOMAIN handles \cup {next_handle}
      BY <1>1, ZenonT(60) DEF RegisterPool, ReuseMapping, BorrowMapping, OwnMapping, AddLease
    <2> QED
      BY <1>1, <2>1, <2>2, ZenonT(60) DEF RegisterPool
  <1>6. ~Closing /\ ~Closing' /\ Once(mapped_handles) /\ DOMAIN handles = Known(mapped_handles)
        /\ IsSeq(mapped_handles)
    BY <1>1, <1>2, ZenonT(60) DEF Closing, KnowsItsLeases, LeasesOK
  <1> DEFINE q == Append(mapped_handles, next_handle)
  <1>7. /\ Known(q) = Known(mapped_handles) \cup {next_handle} /\ Once(q)
        /\ IsSeq(q) /\ Len(q) = Len(mapped_handles) + 1
    BY <1>5, <1>6, KnownAppend, AppendIs, ZenonT(60)
  <1>8. mapped_handles' = q
    BY <1>1
  <1> HIDE DEF q
  <1>9. KnowsItsLeases'
    <2>1. Once(mapped_handles)' /\ Known(mapped_handles)' = Known(q)
      BY <1>7, <1>8, ZenonT(60) DEF Once, Known
    <2>2. DOMAIN handles' = Known(mapped_handles)'
      BY <1>5, <1>6, <1>7, <2>1, ZenonT(60)
    <2> QED
      BY <1>6, <2>1, <2>2, ZenonT(60) DEF KnowsItsLeases
  <1>10. LeasesOK'
    <2>1. IsSeq(mapped_handles') /\ IsSeq(closing') /\ IsSeq(failed_handles')
      BY <1>1, <1>2, <1>7, <1>8, ZenonT(60) DEF LeasesOK
    <2>2. phase' = "registering" => Len(mapped_handles') < Len(Pools)
      <3>1. Len(q) = i
        BY <1>7, ZenonT(60) DEF i
      <3>2. i # Len(Pools) => i < Len(Pools)
        BY <1>3
      <3>3. phase' = "registering" => i # Len(Pools)
        BY <1>1, ZenonT(60)
      <3> QED
        BY <1>8, <3>1, <3>2, <3>3, ZenonT(60)
    <2> QED
      BY <1>1, <1>2, <1>5, <2>1, <2>2, ZenonT(60) DEF LeasesOK, IsSeq
  <1>11. IdleOK'
    BY <1>1, <1>2, ZenonT(60) DEF IdleOK, Directions
  <1> QED
    BY <1>4, <1>9, <1>10, <1>11, ZenonT(60) DEF HandlerInv

\* The handles move into a close: of a failed constructor or of a shutdown.
LEMMA CloseBegins ==
  ASSUME HandlerInv, phase \in {"registering", "draining"}, phase' \in {"rollback", "closing"},
         closing' = mapped_handles, failed_handles' = << >>, IsSeq(mapped_handles'),
         UNCHANGED <<vars, transfers, device>>,
         \A d \in Directions : transfers[d] = << >> /\ device[d] = << >>
  PROVE  HandlerInv'
  <1>1. RegistryInv /\ KnowsItsLeases /\ LeasesOK
    BY DEF HandlerInv
  <1>2. RegistryInv'
    <2>1. [RegistryNext]_vars
      BY ZenonT(60)
    <2> QED
      BY <1>1, <2>1, NextRegistry, ZenonT(60)
  <1>3. ~Closing /\ Closing' /\ releasing = 0
    BY <1>1, ZenonT(60) DEF Closing, LeasesOK
  <1>4. Once(mapped_handles) /\ DOMAIN handles = Known(mapped_handles)
    BY <1>1, <1>3, ZenonT(60) DEF KnowsItsLeases
  <1>5. KnowsItsLeases'
    <2>1. /\ Once(closing)' = Once(mapped_handles) /\ Known(closing)' = Known(mapped_handles)
          /\ Once(failed_handles)' = Once(<< >>) /\ Known(failed_handles)' = Known(<< >>)
      BY DEF Once, Known
    <2>2. handles' = handles
      BY ZenonT(60) DEF vars, registryVars
    <2> QED
      BY <1>3, <1>4, <2>1, <2>2, KnownEmpty, ZenonT(60) DEF KnowsItsLeases
  <1>6. LeasesOK'
    <2>1. IsSeq(closing') /\ IsSeq(failed_handles')
      BY <1>1, KnownEmpty DEF LeasesOK
    <2>2. releasing' = 0 /\ call' = call
      BY <1>3 DEF vars, registryVars
    <2> QED
      BY <1>1, <2>1, <2>2, ZenonT(60) DEF LeasesOK, IsSeq
  <1>7. IdleOK'
    BY ZenonT(60) DEF IdleOK, Directions
  <1> QED
    BY <1>2, <1>5, <1>6, <1>7, ZenonT(60) DEF HandlerInv

\* The registry fences the device for the last handle of the list.
LEMMA FenceKeeps ==
  ASSUME HandlerInv, CloseFence
  PROVE  HandlerInv'
  <1> DEFINE h == Last(closing)
  <1>1. /\ Closing /\ closing # << >> /\ FenceLast(Worker, h, Device) /\ UNCHANGED handlerVars
    BY DEF CloseFence, Closing
  <1>2. RegistryInv /\ KnowsItsLeases /\ LeasesOK /\ IdleOK
    BY DEF HandlerInv
  <1>3. h \in DOMAIN handles
    BY <1>1, <1>2, KnownFront, ZenonT(60) DEF KnowsItsLeases, LeasesOK
  <1>4. RegistryInv'
    <2>1. RegistryNext
      BY <1>1, <1>3, OffloadAssumption, ZenonT(60) DEF RegistryNext, OwnerStep
    <2> QED
      BY <1>2, <2>1, NextRegistry
  <1>5. /\ releasing' = h /\ handles' = handles /\ call' = call /\ held' = held
        /\ phase' = phase /\ closing' = closing /\ failed_handles' = failed_handles
        /\ mapped_handles' = mapped_handles /\ transfers' = transfers /\ device' = device
    BY <1>1, ZenonT(60) DEF FenceLast, handlerVars
  <1>6. KnowsItsLeases'
    BY <1>2, <1>5 DEF KnowsItsLeases, Closing, Known, Once
  <1>7. LeasesOK'
    BY <1>1, <1>2, <1>5, ZenonT(60) DEF LeasesOK, Closing, IsSeq
  <1>8. IdleOK'
    BY <1>2, <1>5, ZenonT(60) DEF IdleOK, Directions
  <1> QED
    BY <1>4, <1>6, <1>7, <1>8 DEF HandlerInv

\* The last handle of the list is released: lease and list entry go together.
LEMMA ReleaseKeeps ==
  ASSUME HandlerInv, CloseReleases
  PROVE  HandlerInv'
  <1>1. /\ Closing /\ ReleaseLast /\ closing' = Front(closing)
        /\ UNCHANGED <<phase, mapped_handles, failed_handles, transfers, device>>
    BY DEF CloseReleases, Closing, CloseUnchanged
  <1>2. RegistryInv /\ KnowsItsLeases /\ LeasesOK /\ IdleOK
    BY DEF HandlerInv
  <1>3. RegistryInv'
    <2>1. RegistryNext
      BY <1>1 DEF RegistryNext
    <2> QED
      BY <1>2, <2>1, NextRegistry
  <1>4. /\ releasing # 0 /\ releasing' = 0 /\ DOMAIN handles' = DOMAIN handles \ {releasing}
        /\ call' = call /\ held' = held
    BY <1>1, ZenonT(60) DEF ReleaseLast, RemoveHandle
  <1>5. releasing = Last(closing) /\ closing # << >> /\ IsSeq(closing)
    BY <1>2, <1>4, ZenonT(60) DEF LeasesOK
  <1>6. /\ Once(closing) /\ Once(failed_handles) /\ Known(closing) \cap Known(failed_handles) = {}
        /\ DOMAIN handles = Known(closing) \cup Known(failed_handles)
    BY <1>1, <1>2, ZenonT(60) DEF KnowsItsLeases
  <1> DEFINE q == Front(closing)
  <1>7. /\ Last(closing) \in Known(closing) /\ Known(q) = Known(closing) \ {Last(closing)}
        /\ Once(q) /\ IsSeq(q)
    BY <1>5, <1>6, KnownFront
  <1>8. closing' = q
    BY <1>1, ZenonT(60)
  <1> HIDE DEF q
  <1>9. KnowsItsLeases'
    <2>1. /\ Once(closing)' = Once(q) /\ Known(closing)' = Known(q)
          /\ Once(failed_handles)' = Once(failed_handles)
          /\ Known(failed_handles)' = Known(failed_handles)
      BY <1>1, <1>8, ZenonT(60) DEF Once, Known
    <2>2. DOMAIN handles' = Known(q) \cup Known(failed_handles)
      BY <1>4, <1>5, <1>6, <1>7, ZenonT(60)
    <2>3. Known(q) \cap Known(failed_handles) = {}
      BY <1>6, <1>7
    <2>4. Closing'
      BY <1>1, ZenonT(60) DEF Closing
    <2> QED
      BY <1>6, <1>7, <2>1, <2>2, <2>3, <2>4, ZenonT(60) DEF KnowsItsLeases
  <1>10. LeasesOK'
    BY <1>1, <1>2, <1>4, <1>7, <1>8, ZenonT(60) DEF LeasesOK, IsSeq
  <1>11. IdleOK'
    BY <1>1, <1>2, ZenonT(60) DEF IdleOK, Directions
  <1> QED
    BY <1>3, <1>9, <1>10, <1>11 DEF HandlerInv

\* A release that raises: the handle moves to the failed ones and stays a lease.
LEMMA RaiseKeeps ==
  ASSUME HandlerInv, CloseRaises
  PROVE  HandlerInv'
  <1>1. /\ Closing /\ closing # << >>
        /\ UnregisterFails \/ (releasing = 0 /\ UNCHANGED vars)
        /\ closing' = Front(closing) /\ failed_handles' = Append(failed_handles, Last(closing))
        /\ UNCHANGED <<phase, mapped_handles, transfers, device>>
    BY DEF CloseRaises, Closing, CloseUnchanged
  <1>2. RegistryInv /\ KnowsItsLeases /\ LeasesOK /\ IdleOK
    BY DEF HandlerInv
  <1>3. RegistryInv'
    <2>1. [RegistryNext]_vars
      BY <1>1, ZenonT(60) DEF RegistryNext
    <2> QED
      BY <1>2, <2>1, NextRegistry, ZenonT(60)
  <1>4. releasing' = 0 /\ handles' = handles /\ call' = call /\ held' = held
    BY <1>1 DEF UnregisterFails, vars, registryVars
  <1>5. IsSeq(closing) /\ IsSeq(failed_handles)
    BY <1>2, ZenonT(60) DEF LeasesOK
  <1>6. /\ Once(closing) /\ Once(failed_handles) /\ Known(closing) \cap Known(failed_handles) = {}
        /\ DOMAIN handles = Known(closing) \cup Known(failed_handles)
    BY <1>1, <1>2, ZenonT(60) DEF KnowsItsLeases
  <1> DEFINE h == Last(closing)
             q == Front(closing)
             p == Append(failed_handles, h)
  <1>7. h \in Known(closing) /\ Known(q) = Known(closing) \ {h} /\ Once(q) /\ IsSeq(q)
    BY <1>1, <1>5, <1>6, KnownFront, ZenonT(60)
  <1>8. closing' = q /\ failed_handles' = p
    BY <1>1, ZenonT(60)
  <1> HIDE DEF q, h
  <1>9. Known(p) = Known(failed_handles) \cup {h} /\ Once(p) /\ IsSeq(p)
    BY <1>5, <1>6, <1>7, KnownAppend, AppendIs, ZenonT(60)
  <1> HIDE DEF p
  <1>10. KnowsItsLeases'
    <2>1. /\ Once(closing)' = Once(q) /\ Known(closing)' = Known(q)
          /\ Once(failed_handles)' = Once(p) /\ Known(failed_handles)' = Known(p)
      BY <1>8, ZenonT(60) DEF Once, Known
    <2>2. DOMAIN handles' = Known(q) \cup Known(p)
      BY <1>4, <1>6, <1>7, <1>9, ZenonT(60)
    <2>3. Known(q) \cap Known(p) = {}
      BY <1>6, <1>7, <1>9
    <2>4. Closing'
      BY <1>1, ZenonT(60) DEF Closing
    <2> QED
      BY <1>7, <1>9, <2>1, <2>2, <2>3, <2>4, ZenonT(60) DEF KnowsItsLeases
  <1>11. LeasesOK'
    BY <1>1, <1>2, <1>4, <1>7, <1>8, <1>9, ZenonT(60) DEF LeasesOK, IsSeq
  <1>12. IdleOK'
    BY <1>1, <1>2, ZenonT(60) DEF IdleOK, Directions
  <1> QED
    BY <1>3, <1>10, <1>11, <1>12 DEF HandlerInv

\* Every handle has been tried: the failed ones are what is left.
LEMMA CloseEndsKeeps ==
  ASSUME HandlerInv, CloseEnds
  PROVE  HandlerInv'
  <1>1. /\ Closing /\ closing = << >> /\ mapped_handles' = failed_handles
        /\ failed_handles' = << >> /\ closing' = closing
        /\ phase' \in {"failed", "closed", "open"}
        /\ phase' = "closed" => failed_handles = << >>
        /\ held' = held \/ held' = [held EXCEPT ![Worker] = {}]
        /\ UNCHANGED <<registryVars, generation, call, reads, transfers, device>>
    BY DEF CloseEnds, Closing, CloseUnchanged
  <1>2. RegistryInv /\ KnowsItsLeases /\ LeasesOK /\ IdleOK
    BY DEF HandlerInv
  <1>3. RegistryInv'
    <2>1. held' \in [Owners -> SUBSET Storages]
      BY <1>1, <1>2 DEF RegistryInv, ThreadsOK
    <2> QED
      BY <1>1, <1>2, <2>1, HeldRegistry
  <1>4. ~Closing' /\ releasing = 0 /\ releasing' = 0 /\ handles' = handles /\ IsSeq(failed_handles)
    BY <1>1, <1>2 DEF Closing, LeasesOK, registryVars
  <1>5. Once(failed_handles) /\ DOMAIN handles = Known(failed_handles)
    BY <1>1, <1>2, KnownEmpty DEF KnowsItsLeases
  <1>6. KnowsItsLeases'
    <2>1. Once(mapped_handles)' = Once(failed_handles) /\ Known(mapped_handles)' = Known(failed_handles)
      BY <1>1 DEF Once, Known
    <2> QED
      BY <1>4, <1>5, <2>1 DEF KnowsItsLeases
  <1>7. LeasesOK'
    <2>1. IsSeq(mapped_handles') /\ IsSeq(closing') /\ IsSeq(failed_handles')
      BY <1>1, <1>4, KnownEmpty, ZenonT(60)
    <2> QED
      BY <1>1, <1>2, <1>4, <2>1, ZenonT(60) DEF LeasesOK, IsSeq
  <1>8. IdleOK'
    BY <1>1, <1>2 DEF IdleOK, Directions, Closing
  <1> QED
    BY <1>3, <1>6, <1>7, <1>8 DEF HandlerInv

\* Other code of the process takes memory that nobody refers to.
LEMMA ReallocateKeeps ==
  ASSUME HandlerInv, NEW s \in Storages, Reallocate(s)
  PROVE  HandlerInv'
  <1>1. Obtain(Allocator, s) /\ UNCHANGED handlerVars /\ phase \in {"closed", "failed"}
    BY DEF Reallocate
  <1>2. RegistryInv /\ KnowsItsLeases /\ LeasesOK /\ IdleOK
    BY DEF HandlerInv
  <1>3. RegistryInv'
    <2>1. RegistryNext
      BY <1>1, OffloadAssumption, ZenonT(60) DEF RegistryNext, OwnerStep
    <2> QED
      BY <1>2, <2>1, NextRegistry, ZenonT(60)
  <1>4. ListsUnchanged /\ phase' = phase /\ transfers' = transfers /\ device' = device
    BY <1>1 DEF Obtain, registryVars, handlerVars, ListsUnchanged
  <1>5. held'[Worker] = {} => held[Worker] = {}
    BY <1>1, <1>2, OffloadAssumption, ZenonT(60) DEF Obtain, RegistryInv, ThreadsOK
  <1>6. KnowsItsLeases' /\ LeasesOK'
    BY <1>2, <1>4, <1>5, LeasesUnchanged, ZenonT(60)
  <1>7. IdleOK'
    BY <1>2, <1>4, ZenonT(60) DEF IdleOK, Directions
  <1> QED
    BY <1>3, <1>6, <1>7 DEF HandlerInv

\* A raise in the middle of the constructor starts the rollback.
LEMMA RegisterRaisesKeeps ==
  ASSUME HandlerInv, RegisterRaises
  PROVE  HandlerInv'
  <1>1. /\ phase = "registering" /\ phase' = "rollback" /\ closing' = mapped_handles
        /\ failed_handles' = << >> /\ mapped_handles' = mapped_handles
        /\ UNCHANGED <<vars, transfers, device>>
    BY DEF RegisterRaises
  <1>2. IsSeq(mapped_handles')
    BY <1>1 DEF HandlerInv, LeasesOK
  <1>3. \A d \in Directions : transfers[d] = << >> /\ device[d] = << >>
    BY <1>1 DEF HandlerInv, IdleOK
  <1> QED
    BY <1>1, <1>2, <1>3, CloseBegins, ZenonT(60)

\* A drained handler has no device work: what runs is tracked.
LEMMA StartCloseKeeps ==
  ASSUME IInv, HandlerInv, StartClose
  PROVE  HandlerInv'
  <1>1. /\ phase = "draining" /\ phase' = "closing" /\ closing' = mapped_handles
        /\ failed_handles' = << >> /\ mapped_handles' = << >>
        /\ UNCHANGED <<vars, transfers, device>>
        /\ \A d \in Directions : transfers[d] = << >>
    BY DEF StartClose
  <1>2. IsSeq(mapped_handles')
    BY <1>1, KnownEmpty, ZenonT(60)
  <1>3. ASSUME NEW d \in Directions PROVE device[d] = << >>
    <2>1. Running(d) \subseteq Tracked(d) /\ IsSeq(device[d])
      BY DEF IInv, InOrder, QueuesOK, IsSeq
    <2>2. Tracked(d) = {}
      BY <1>1 DEF Tracked
    <2>3. DOMAIN device[d] = {}
      BY <2>1, <2>2, ZenonT(60) DEF Running
    <2>4. Len(device[d]) \in Nat /\ DOMAIN device[d] = 1..Len(device[d])
      BY <2>1, SeqIs
    <2>5. Len(device[d]) = 0
      <3>1. ASSUME Len(device[d]) # 0 PROVE FALSE
        <4>1. 1 \in 1..Len(device[d])
          BY <2>4, <3>1
        <4> QED
          BY <2>3, <2>4, <4>1, ZenonT(60)
      <3> QED
        BY <3>1
    <2> QED
      BY <2>1, <2>5, EmptySeq, ZenonT(60) DEF IsSeq
  <1> QED
    BY <1>1, <1>2, <1>3, CloseBegins, ZenonT(60)

\* Steps at the device's side of the handler: the leases stay as they are.
LEMMA WorkKeeps ==
  ASSUME HandlerInv, RegistryInv', phase \in {"open", "draining"},
         phase' \in {"open", "draining"},
         UNCHANGED <<registryVars, call, mapped_handles, closing, failed_handles>>
  PROVE  HandlerInv'
  <1>1. KnowsItsLeases /\ LeasesOK /\ ListsUnchanged
    BY ZenonT(60) DEF HandlerInv, ListsUnchanged, registryVars
  <1>2. KnowsItsLeases' /\ LeasesOK'
    BY <1>1, LeasesUnchanged, ZenonT(60)
  <1>3. IdleOK'
    BY DEF IdleOK
  <1> QED
    BY <1>2, <1>3, ZenonT(60) DEF HandlerInv

\* Fewer reads, no other change for the registry.
LEMMA ReadsEnd ==
  ASSUME RegistryInv, UNCHANGED <<registryVars, held, generation, call>>, reads' \subseteq reads
  PROVE  RegistryInv'
  <1>1. call' \in [Owners -> {NoCall} \cup ReadRecord]
    BY DEF RegistryInv, ThreadsOK
  <1> QED
    BY <1>1, GatherEndsRegistry

\* submit_store and submit_load: each gather finds its mapping, and the handler
\* holds the lease while it is open.
LEMMA SubmitKeeps ==
  ASSUME HandlerInv, NEW d \in Directions, NEW n \in Sizes, Submit(d, n)
  PROVE  HandlerInv'
  <1>1. Submitting(d)
    BY ZenonT(60) DEF Submit, SubmitTracked, SubmitUndone, SubmitRejected
  <1>2. /\ phase = "open" /\ phase' = "open"
        /\ UNCHANGED <<registryVars, held, generation, call, mapped_handles, closing, failed_handles>>
    BY <1>1 DEF Submitting
  <1>3. RegistryInv /\ releasing = 0
    BY <1>2, ZenonT(60) DEF HandlerInv, LeasesOK, Closing
  <1>4. RegistryInv'
    <2>1. ASSUME NEW k \in 0..Len(Pools), NEW ok \in BOOLEAN, NEW sync \in BOOLEAN,
                 SubmitTracked(d, n, k, ok, sync)
          PROVE  RegistryInv'
      <3> DEFINE j == Transfer(d, n, ok, sync).job
      <3>1. reads' = reads \cup GatherReads(j, k) /\ \E all \in BOOLEAN : CanSubmit(d, n, k, all)
        BY <2>1 DEF SubmitTracked
      <3> HIDE DEF j
      <3>2. k = 0 \/ Resolvable(k)
        BY <3>1 DEF CanSubmit
      <3>3. Resolvable(k)
        BY <3>2 DEF Resolvable
      <3> QED
        BY <1>2, <1>3, <3>1, <3>3, GatherSubmitted, ZenonT(60)
    <2>2. ASSUME NEW idle \in BOOLEAN, SubmitUndone(d, n, idle)
          PROVE  RegistryInv'
      <3>1. reads' \subseteq reads
        BY <2>2 DEF SubmitUndone
      <3> QED
        BY <1>2, <1>3, <3>1, ReadsEnd, ZenonT(60)
    <2>3. ASSUME SubmitRejected(d, n) PROVE RegistryInv'
      <3>1. reads' \subseteq reads
        BY <2>3, ZenonT(60) DEF SubmitRejected
      <3> QED
        BY <1>2, <1>3, <3>1, ReadsEnd, ZenonT(60)
    <2> QED
      BY <2>1, <2>2, <2>3, ZenonT(60) DEF Submit
  <1> QED
    BY <1>2, <1>4, WorkKeeps

\* The NPU finishes a piece of work, and its reads with it.
LEMMA DeviceKeeps ==
  ASSUME HandlerInv, NEW d \in Directions, DeviceStep(d)
  PROVE  HandlerInv'
  <1>1. /\ device[d] # << >> /\ reads' \subseteq reads
        /\ UNCHANGED <<registryVars, held, generation, call, phase, mapped_handles, closing,
                       failed_handles>>
    BY ZenonT(60) DEF DeviceStep
  <1>2. phase \in {"open", "draining"}
    BY <1>1, ZenonT(60) DEF HandlerInv, IdleOK
  <1>3. RegistryInv'
    BY <1>1, ReadsEnd DEF HandlerInv
  <1> QED
    BY <1>1, <1>2, <1>3, WorkKeeps, ZenonT(60)

\* Polling, the start and the turns of a drain, and its failure.
LEMMA PollKeeps ==
  ASSUME HandlerInv,
         GetFinished \/ StartShutdown \/ DrainRaises \/ \E d \in Directions : Drain(d)
  PROVE  HandlerInv'
  <1>1. /\ phase \in {"open", "draining"} /\ phase' \in {"open", "draining"}
        /\ UNCHANGED <<vars, mapped_handles, closing, failed_handles>>
    BY DEF GetFinished, StartShutdown, DrainRaises, Drain
  <1>2. UNCHANGED <<registryVars, call>>
    BY <1>1 DEF vars
  <1>3. RegistryInv'
    BY <1>1, NextRegistry, ZenonT(60) DEF HandlerInv
  <1> QED
    BY <1>1, <1>2, <1>3, WorkKeeps, ZenonT(60)

\* A stuttering step keeps the invariant of the leases.
LEMMA HandlerUnchanged ==
  ASSUME HandlerInv, UNCHANGED <<vars, handlerVars>>
  PROVE  HandlerInv'
  <1>1. RegistryInv'
    BY NextRegistry, ZenonT(60) DEF HandlerInv
  <1>2. KnowsItsLeases /\ LeasesOK /\ ListsUnchanged /\ phase' = phase /\ held' = held
    BY DEF HandlerInv, ListsUnchanged, vars, registryVars, handlerVars
  <1>3. KnowsItsLeases' /\ LeasesOK'
    BY <1>2, LeasesUnchanged, ZenonT(60)
  <1>4. IdleOK'
    BY DEF HandlerInv, IdleOK, handlerVars, Directions
  <1> QED
    BY <1>1, <1>3, <1>4, ZenonT(60) DEF HandlerInv

\* The invariant of the leases holds before the pools are allocated.
LEMMA InitHandler ==
  ASSUME OffloadInit
  PROVE  HandlerInv
  <1>1. RegistryInv
    BY InitRegistry DEF OffloadInit
  <1>2. KnowsItsLeases
    <2>1. ~Closing /\ mapped_handles = << >>
      BY DEF OffloadInit, Closing
    <2>2. DOMAIN handles = {}
      BY ZenonT(60) DEF OffloadInit, Init, Nothing
    <2> QED
      BY <2>1, <2>2, KnownEmpty, ZenonT(60) DEF KnowsItsLeases
  <1>3. LeasesOK
    <2>1. Len(Pools) \in Nat \ {0} /\ Len(<< >>) = 0
      BY OffloadAssumption, EmptySeq, ZenonT(60)
    <2>2. \A o \in Owners : call[o] = NoCall
      BY DEF OffloadInit, Init
    <2>3. releasing = 0
      BY DEF OffloadInit, Init
    <2> QED
      BY <2>1, <2>2, <2>3, KnownEmpty DEF LeasesOK, OffloadInit
  <1>4. IdleOK
    BY DEF IdleOK, OffloadInit
  <1> QED
    BY <1>1, <1>2, <1>3, <1>4, ZenonT(60) DEF HandlerInv

\* Every step of the handler and of the other owners keeps the invariant of
\* the leases.
LEMMA NextHandler ==
  ASSUME IInv, HandlerInv, [OffloadNext]_<<vars, handlerVars>>
  PROVE  HandlerInv'
  <1>1. CASE AllocatePools \/ RegisterNext \/ RegisterRaises
    BY <1>1, AllocateKeeps, RegisterKeeps, RegisterRaisesKeeps, ZenonT(60)
  <1>2. CASE \E d \in Directions, n \in Sizes : Submit(d, n)
    BY <1>2, SubmitKeeps
  <1>3. CASE GetFinished \/ StartShutdown \/ DrainRaises \/ \E d \in Directions : Drain(d)
    BY <1>3, PollKeeps
  <1>4. CASE StartClose
    BY <1>4, StartCloseKeeps
  <1>5. CASE \E d \in Directions : DeviceStep(d)
    BY <1>5, DeviceKeeps
  <1>6. CASE CloseFence \/ CloseReleases \/ CloseRaises \/ CloseEnds
    BY <1>6, FenceKeeps, ReleaseKeeps, RaiseKeeps, CloseEndsKeeps, ZenonT(60)
  <1>7. CASE \E s \in Storages : Reallocate(s)
    BY <1>7, ReallocateKeeps
  <1>8. CASE UNCHANGED <<vars, handlerVars>>
    BY <1>8, HandlerUnchanged
  <1> QED
    BY <1>1, <1>2, <1>3, <1>4, <1>5, <1>6, <1>7, <1>8, ZenonT(60) DEF OffloadNext

\* A closed handler knows of no lease, so the registry has none.
LEMMA NothingIsLeft ==
  ASSUME HandlerInv
  PROVE  ClosedMeansReleased
  <1> SUFFICES ASSUME phase = "closed" \/ (phase = "failed" /\ mapped_handles = << >>)
               PROVE  /\ DOMAIN handles = {} /\ registrations = {}
                      /\ \A d \in Directions : device[d] = << >>
    BY DEF ClosedMeansReleased
  <1>1. RegistryInv /\ mapped_handles = << >> /\ ~Closing
    BY DEF HandlerInv, LeasesOK, Closing
  <1>2. DOMAIN handles = {}
    BY <1>1, KnownEmpty, ZenonT(60) DEF HandlerInv, KnowsItsLeases
  <1>3. registrations = {}
    BY <1>1, <1>2, NoLeaseNoMapping, ZenonT(60)
  <1>4. \A d \in Directions : device[d] = << >>
    BY DEF HandlerInv, IdleOK
  <1> QED
    BY <1>2, <1>3, <1>4, ZenonT(60)

\* The inductive invariants of the handler hold together.
THEOREM HandlerIsSound == OffloadSpec => [](IInv /\ HandlerInv)
  <1>1. OffloadInit => IInv /\ HandlerInv
    BY InitIInv, InitHandler
  <1>2. IInv /\ HandlerInv /\ [OffloadNext]_<<vars, handlerVars>> => IInv' /\ HandlerInv'
    BY NextIInv, NextHandler
  <1> QED
    BY <1>1, <1>2, PTL DEF OffloadSpec

\* Composed with its handler, the registry's leases still balance: every mapping
\* has as many leases as its count says, and an owned one its registration,
\* whatever registrations, releases and fences raise.
THEOREM HandlerLeasesBalance == OffloadSpec => []LeasesBalance
  <1>1. HandlerInv => LeasesBalance
    BY DEF HandlerInv, RegistryInv
  <1> QED
    BY <1>1, HandlerIsSound, PTL

\* Every gather on the device reads memory that is mapped and alive, and the
\* generation it was registered for: shutdown waits for the loads before it
\* releases a lease, and a failed release keeps the handle.
THEOREM HandlerReadsAreLive == OffloadSpec => []ReadsAreLive
  <1>1. HandlerInv => ReadsAreLive
    BY InvariantReadsAreLive DEF HandlerInv
  <1> QED
    BY <1>1, HandlerIsSound, PTL

\* A handler that has shut down, or whose constructor rolled back cleanly, has
\* left no lease, no driver registration and no device work behind.
THEOREM ClosedIsReleased == OffloadSpec => []ClosedMeansReleased
  <1>1. HandlerInv => ClosedMeansReleased
    BY NothingIsLeft
  <1> QED
    BY <1>1, HandlerIsSound, PTL

================================================================================
