CONSTANTS
  Owners = {"worker", "other"}
  Worker = "worker"
  Allocator = "other"
  Tensors = {"pool", "view", "pinned"}
  Storages = {"A", "B"}
  StorageOf <- MCStorageOf
  Addr = {0, 1, 2, 3, 4, 5}
  Bytes <- MCBytes
  PageOf <- MCPageOf
  Pinned = {"B"}
  Devices = {"npu0", "npu1"}
  Device = "npu0"
  MaxHandle = 3
  MaxGeneration = 2
  Pools <- MCPools
  Sizes = {0, 1, 2}
  MaxJobs <- MCMaxJobs
  MAX_CACHED_IDS = 1
  ID_BUFFER_CACHE_SIZE = 1
  LoadOrder <- MCLoadOrder
  TagOf <- MCTagOf
  Buffers = {"buffer"}
  WeightNzMode = FALSE
  MaxVersion = 1
  MaxPhysical = 2
  NumBlocks = 4
  BlocksPerSequence = 3
  BlockSize = 2
  PrefixBatches <- MCPrefixBatches
  MaxBatches = 3
SPECIFICATION MCSpec
INVARIANTS ReadsAreLive LeasesBalance WorkKeepsItsBuffers ClosedMeansReleased WakeRestores PhysicalMemoryIsPaired PagesAreConsistent ReuseIsSoundUntilEviction
PROPERTIES JobsAreAccountedFor JobsAreReported
CHECK_DEADLOCK FALSE
